------------------------------ MODULE Wallets ------------------------------
(***************************************************************************)
(* The Stellar session of the web app: a wallet of the Stellar Wallets Kit *)
(* or a custodial one behind a Pollar sign-in, which of them the browser   *)
(* remembers, and the signatures the flows ask it for.                     *)
(*                                                                         *)
(* Restoring, connecting, signing in, creating the custodial wallet,       *)
(* logging out and signing are asynchronous; the page may be reloaded and  *)
(* the Pollar session may expire between any two steps.                    *)
(***************************************************************************)
EXTENDS Integers

CONSTANTS
    None,
    Accounts,       \* the user's Stellar accounts
    MaxActs         \* bound on what the user does and on expiries

VARIABLES
    backend,        \* which backend the page uses: None, "kit", "pollar"
    remembered,     \* localStorage writz.walletBackend
    kitAddress,     \* the kit's account, as the page has it
    kitHeld,        \* the kit's own active account, kept over a reload
    dropping,       \* disconnects of the kit that have not finished
    asking,         \* the kit is asked for one: None, "restore", "modal"
    auth,           \* Pollar's step: "unready", "idle", "working", "error" or "authenticated"
    custody,        \* the Pollar wallet: "none", "creating", "ready"
    session,        \* the Pollar session this browser keeps
    user,           \* whose session it is
    loggingIn,      \* pollarLoggingIn
    told,           \* the page has rendered, and its effects run, since Pollar changed
    sig,            \* the signature a flow waits for
    wanted,         \* history: the user's last word, "in" or "out"
    stranded,       \* history: a logout or the creation of a wallet failed
    acts

pollarSide == <<auth, custody, session, user>>
kitSide == <<kitHeld, dropping>>
page == <<backend, remembered, kitAddress, asking, loggingIn>>
vars == <<page, kitSide, pollarSide, told, sig, wanted, stranded, acts>>

Act == acts < MaxActs /\ acts' = acts + 1

(* The effects of this page run before anything else happens to it.        *)
Effects == told' = FALSE

(* A signature: the account and the kind of wallet a flow was started with, *)
(* the account it is asked of, and whether the user left in the meantime.   *)
NoSig == [at |-> "none", for |-> None, by |-> None, custody |-> None, as |-> None,
          left |-> FALSE, end |-> None]

Left == sig' = [sig EXCEPT !.left = TRUE]

Init ==
    /\ remembered \in {None, "kit", "pollar"} /\ backend = remembered
    /\ session \in BOOLEAN /\ (remembered = "pollar" => session)
    /\ custody = IF session THEN "ready" ELSE "none"
    /\ kitAddress = None /\ kitHeld \in {None} \cup Accounts /\ dropping = 0
    /\ user \in Accounts
    /\ asking = IF remembered = "kit" THEN "restore" ELSE None
    /\ auth = "unready" /\ loggingIn = FALSE /\ told = FALSE /\ sig = NoSig
    /\ wanted = IF remembered = None THEN "out" ELSE "in"
    /\ stranded = (session /\ remembered # "pollar")
    /\ acts = 0

-----------------------------------------------------------------------------
pollarAddress ==
    IF auth = "authenticated" /\ custody # "none" THEN user ELSE None
address == IF backend = "pollar" THEN pollarAddress ELSE kitAddress
pollarConnecting == backend = "pollar" /\ auth \in {"working", "unready"}
connecting == asking = "modal" \/ pollarConnecting
restoring ==
    /\ address = None
    /\ backend = "kit" \/ (backend = "pollar" /\ auth = "unready")

(* Until it is known whether a wallet is connected every page shows its    *)
(* skeleton, and the kit's modal covers the page.                          *)
walletsKnown == ~restoring

(* The effect on the Pollar session: sign-in, restore, expiry, first       *)
(* wallet.                                                                 *)
sync ==
    /\ ~told /\ told' = TRUE
    /\ IF backend # "pollar" \/ auth \in {"unready", "working"}
       THEN UNCHANGED <<backend, remembered, loggingIn, custody>>
       ELSE CASE auth = "authenticated" ->
                   /\ loggingIn' = FALSE /\ remembered' = "pollar"
                   /\ custody' = IF custody = "none" THEN "creating" ELSE custody
                   /\ UNCHANGED backend
              [] auth = "error" \/ (auth = "idle" /\ ~loggingIn) ->
                   /\ loggingIn' = FALSE /\ backend' = None
                   /\ remembered' = None /\ UNCHANGED custody
              [] OTHER -> UNCHANGED <<backend, remembered, loggingIn, custody>>
    /\ UNCHANGED <<kitAddress, kitSide, asking, auth, session, user, sig, wanted,
                   stranded, acts>>

quietly == UNCHANGED <<kitSide, sig, wanted, stranded, acts>>

(* getAddress on mount: the kit's account, none, or an error.              *)
restored ==
    /\ asking = "restore" /\ told /\ asking' = None
    /\ \/ /\ kitHeld # None /\ kitAddress' = kitHeld
          /\ UNCHANGED <<backend, remembered>>
       \/ backend' = None /\ remembered' = None /\ UNCHANGED kitAddress
    /\ Effects /\ UNCHANGED <<loggingIn, pollarSide>> /\ quietly

(* client.ready(): a remembered session, or none.                          *)
ready ==
    /\ auth = "unready" /\ told
    /\ auth' = IF session THEN "authenticated" ELSE "idle"
    /\ Effects /\ UNCHANGED <<page, custody, session, user>> /\ quietly

connect ==
    /\ address = None /\ ~connecting /\ walletsKnown /\ told /\ Act
    /\ backend' = "kit" /\ asking' = "modal" /\ wanted' = "in"
    /\ Effects
    /\ UNCHANGED <<remembered, kitAddress, kitSide, loggingIn, pollarSide, sig,
                   stranded>>

(* authModal: an account, which the kit keeps, or dismissed.               *)
chosen ==
    /\ asking = "modal" /\ told /\ asking' = None
    /\ \/ /\ kitHeld' \in Accounts /\ kitAddress' = kitHeld' /\ remembered' = "kit"
          /\ UNCHANGED backend
       \/ backend' = None /\ UNCHANGED <<kitAddress, kitHeld, remembered>>
    /\ Effects
    /\ UNCHANGED <<dropping, loggingIn, pollarSide, sig, wanted, stranded, acts>>

(* PollarSignIn offers the providers while nothing is under way.           *)
offered == auth \in {"idle", "error"}

startPollar ==
    /\ address = None /\ ~connecting /\ walletsKnown /\ offered /\ told /\ Act
    /\ loggingIn' = TRUE /\ backend' = "pollar" /\ auth' = "working"
    /\ wanted' = "in" /\ Effects
    /\ UNCHANGED <<remembered, kitAddress, kitSide, asking, custody, session, user, sig,
                   stranded>>

(* Popup, e-mail and code, as one: signed in as some user, or an error.    *)
signedIn ==
    /\ auth = "working" /\ told
    /\ \/ auth' = "authenticated" /\ session' = TRUE /\ user' \in Accounts
       \/ auth' = "error" /\ UNCHANGED <<session, user>>
    /\ custody' \in {"none", "ready"}
    /\ Effects /\ UNCHANGED page /\ quietly

cancel ==
    /\ auth = "working" /\ told /\ Act
    /\ loggingIn' = FALSE /\ auth' = "idle" /\ Effects
    /\ UNCHANGED <<backend, remembered, kitAddress, kitSide, asking, custody, session,
                   user, sig, wanted, stranded>>

(* createWallet; a failed one is tried again only if Pollar reports a      *)
(* change of the wallet.                                                   *)
createWallet ==
    /\ custody = "creating" /\ told
    /\ \/ custody' = "ready" /\ Effects
       \/ custody' = "none" /\ told' \in BOOLEAN
    /\ stranded' = (stranded \/ custody' = "none")
    /\ UNCHANGED <<page, kitSide, auth, session, user, sig, wanted, acts>>

forget == None

(* Neither the kit's disconnect nor the logout is waited for, and both may *)
(* fail.                                                                   *)
disconnect ==
    /\ address # None /\ told /\ Act
    /\ kitAddress' = None /\ backend' = None /\ remembered' = forget
    /\ IF backend = "pollar"
       THEN /\ loggingIn' = FALSE
            /\ \/ auth' = "idle" /\ session' = FALSE /\ custody' = "none"
                  /\ UNCHANGED <<user, stranded>>
               \/ stranded' = TRUE /\ UNCHANGED pollarSide
            /\ UNCHANGED dropping
       ELSE /\ dropping' = dropping + 1
            /\ UNCHANGED <<loggingIn, pollarSide, stranded>>
    /\ Left /\ wanted' = "out" /\ Effects /\ UNCHANGED <<kitHeld, asking>>

(* The kit's own disconnect ends, when the user may be back already.       *)
kitDropped ==
    /\ dropping > 0 /\ dropping' = dropping - 1
    /\ kitHeld' \in {None, kitHeld}
    /\ UNCHANGED <<page, pollarSide, told, sig, wanted, stranded, acts>>

expires ==
    /\ session /\ session' = FALSE /\ told /\ Act
    /\ auth' = IF auth = "authenticated" THEN "idle" ELSE auth
    /\ custody' = "none" /\ (IF sig.by = "pollar" THEN Left ELSE UNCHANGED sig)
    /\ Effects /\ UNCHANGED <<page, kitSide, user, wanted, stranded>>

reload ==
    /\ told /\ Act /\ backend' = remembered /\ kitAddress' = None
    /\ asking' = IF remembered = "kit" THEN "restore" ELSE None
    /\ auth' = "unready" /\ loggingIn' = FALSE /\ told' = FALSE /\ sig' = NoSig
    /\ dropping' = 0
    /\ custody' = IF ~session THEN "none"
                  ELSE IF custody = "creating" THEN "none" ELSE custody
    /\ UNCHANGED <<remembered, kitHeld, session, user, wanted, stranded>>

-----------------------------------------------------------------------------
(* signTransaction and signMessage, with the backend and the Pollar        *)
(* session of the render the flow was started from. The account is read    *)
(* when the signature is asked for: the kit's active one, or the user      *)
(* behind Pollar's session.                                                *)

rest == <<page, kitSide, pollarSide, told, wanted, stranded>>

sign ==
    /\ address # None /\ told /\ sig.at # "prompt" /\ sig.at # "check" /\ Act
    /\ sig' = [NoSig EXCEPT !.at = "check", !.for = address, !.by = backend,
                            !.custody = custody]
    /\ UNCHANGED rest

signer ==
    CASE sig.by = "kit" -> kitHeld
      [] sig.by = "pollar" /\ session -> user
      [] OTHER -> None

Ended(e) == sig' = [sig EXCEPT !.at = "done", !.end = e]

(* assertNetwork and assertFunds before the kit's prompt, each skipped     *)
(* when it cannot be read; assertPollarWalletReady before Pollar's server. *)
preflightSign ==
    /\ sig.at = "check"
    /\ \/ /\ signer # None /\ (sig.by = "pollar" => sig.custody = "ready")
          /\ sig' = [sig EXCEPT !.at = "prompt", !.as = signer]
       \/ sig.by = "kit" /\ \E e \in {"wrong_network", "unfunded", "low_xlm"} : Ended(e)
       \/ sig.by = "pollar" /\ sig.custody # "ready" /\ Ended("not_ready")
       \/ signer = None /\ Ended("failed")
    /\ UNCHANGED <<rest, acts>>

(* What Pollar does not sponsor is checked for XLM after it signed.        *)
answered ==
    /\ sig.at = "prompt"
    /\ \/ Ended("signed") \/ Ended("rejected") \/ Ended("failed")
       \/ sig.by = "pollar" /\ \E e \in {"unfunded", "low_xlm"} : Ended(e)
    /\ UNCHANGED <<rest, acts>>

Next ==
    \/ sync \/ restored \/ ready \/ connect \/ chosen
    \/ startPollar \/ signedIn \/ cancel \/ createWallet
    \/ disconnect \/ kitDropped \/ expires \/ reload
    \/ sign \/ preflightSign \/ answered

Spec == Init /\ [][Next]_vars

-----------------------------------------------------------------------------
underway == asking # None \/ auth \in {"unready", "working"} \/ custody = "creating"

(* WalletProvider.tsx:218-232 and 114-174: a user who disconnected stays   *)
(* out, over late answers, lost logouts and reloads; the wallet the page   *)
(* shows is of the kind a reload asks for; and with no wallet and nothing  *)
(* under way the sign-in is offered again, unless a logout was lost or the *)
(* wallet could not be created: then the sheet waits for a wallet that is  *)
(* not being created.                                                      *)
SessionIsSteady ==
    /\ wanted = "out" => address = None
    /\ told /\ address # None => remembered = backend
    /\ told /\ address = None /\ ~underway /\ ~stranded => offered

(* WalletProvider.tsx:236-288: a signature is given by the account the     *)
(* flow was started for, unless the user disconnected, or lost the Pollar  *)
(* session, under it: the account is read when the signature is asked for, *)
(* and late ends of earlier disconnects, sign-ins and reloads move it.     *)
SignedByStarter == sig.end = "signed" /\ ~sig.left => sig.as = sig.for

=============================================================================
