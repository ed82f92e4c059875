---------------------------- MODULE MCCctpRelay ----------------------------
EXTENDS CctpRelay

\* An app that asks again whenever the relay stopped, and services that answer
\* again and again: nothing but the relay itself can keep the transfer back.
PatientSpec ==
    /\ Spec
    /\ \A b \in Burns : /\ SF_vars(request(b)) /\ SF_vars(IrisComplete(b))
                        /\ SF_vars(OwnReceipt(b)) /\ SF_vars(OwnPending(b)) /\ SF_vars(CheckNonce(b))
                        /\ SF_vars(simulateReceive(b) /\ pc'[b] = "send") /\ SF_vars(sendReceive(b))
============================================================================
