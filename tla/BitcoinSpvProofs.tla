-------------------------- MODULE BitcoinSpvProofs --------------------------
(* Proofs about BitcoinSpv for every tree of headers, every batch and every   *)
(* limit: whose difficulty a header must carry, that the height index is the  *)
(* best chain within a difficulty period, and that deep blocks stay. Then, of *)
(* the parts MCBitcoin checks: that a Merkle proof passes for the transactions*)
(* of the block alone, that compact difficulty bits keep every target they    *)
(* can, and that the proof route serves proofs the contract accepts.          *)
EXTENDS MCBitcoin, NumberFacts, SequenceTheorems

-----------------------------------------------------------------------------
(* Trees of headers, grown from a checkpoint cp.                              *)

\* What set_checkpoint stores.
Root(cp) == [prev |-> NoBlock, height |-> cp.height, bits |-> cp.bits, time |-> cp.time,
             period_start_time |-> cp.period_start_time, chainwork |-> 0]

\* What submit_headers requires of a header and stores.
Child(hdrs, b) ==
    LET p == Header[b].prev IN
    /\ p \in Stored(hdrs)
    /\ hdrs[b] = entry(hdrs, b)
    /\ Header[b].bits = expected_bits(hdrs[p], hdrs[p].height + 1, pow_limit)

Tree(cp, hdrs) ==
    /\ hdrs = [b \in Blocks |-> hdrs[b]]
    /\ cp.block_hash \in Blocks /\ cp.height \in Heights
    /\ hdrs[cp.block_hash] = Root(cp)
    /\ \A b \in Stored(hdrs) :
         /\ hdrs[b].height \in cp.height..MaxHeight
         /\ b # cp.block_hash => Child(hdrs, b)

\* What the stored headers are like: a tree that grows up from the checkpoint.
LEMMA TreeFacts ==
    ASSUME NEW cp, NEW hdrs, Tree(cp, hdrs)
    PROVE  /\ cp.height \in Nat
           /\ cp.block_hash \in Stored(hdrs) /\ hdrs[cp.block_hash].height = cp.height
           /\ \A b \in Stored(hdrs) :
                /\ b \in Blocks /\ hdrs[b].height \in Nat
                /\ cp.height <= hdrs[b].height /\ hdrs[b].height <= MaxHeight
                /\ hdrs[b].height = cp.height => b = cp.block_hash
                /\ b # cp.block_hash =>
                     /\ hdrs[b].prev \in Stored(hdrs)
                     /\ hdrs[hdrs[b].prev].height = hdrs[b].height - 1
                     /\ cp.height < hdrs[b].height
<1>1. MaxHeight \in Nat /\ cp.height \in 0..MaxHeight /\ cp.block_hash \in Blocks
    BY SpvAssumption DEF Tree, Heights
<1>2. hdrs[cp.block_hash].height = cp.height
    BY DEF Tree, Root
<1>3. NotStored.height = -1
    BY DEF NotStored
<1>4. cp.block_hash \in Stored(hdrs)
    BY <1>1, <1>2, <1>3 DEF Stored
<1>5. ASSUME NEW b \in Stored(hdrs)
      PROVE  /\ b \in Blocks /\ hdrs[b].height \in Nat
             /\ cp.height <= hdrs[b].height /\ hdrs[b].height <= MaxHeight
    BY <1>1, <1>5 DEF Tree, Stored
<1>6. ASSUME NEW b \in Stored(hdrs), b # cp.block_hash
      PROVE  /\ hdrs[b].prev \in Stored(hdrs)
             /\ hdrs[hdrs[b].prev].height = hdrs[b].height - 1
             /\ cp.height < hdrs[b].height
  <2>1. Header[b].prev \in Stored(hdrs) /\ hdrs[b] = entry(hdrs, b)
      BY <1>6 DEF Tree, Child
  <2>2. entry(hdrs, b).prev = Header[b].prev /\ entry(hdrs, b).height = hdrs[Header[b].prev].height + 1
      BY DEF entry
  <2>3. hdrs[Header[b].prev].height \in Nat /\ cp.height <= hdrs[Header[b].prev].height
      BY <1>5, <2>1
  <2> QED
      BY <1>1, <2>1, <2>2, <2>3
<1>7. ASSUME NEW b \in Stored(hdrs), hdrs[b].height = cp.height PROVE b = cp.block_hash
    BY <1>1, <1>6, <1>7
<1> QED
    BY <1>1, <1>2, <1>4, <1>5, <1>6, <1>7

-----------------------------------------------------------------------------
(* Branches.                                                                  *)

\* The recursive function in Branch exists.
WalksBack(f, hdrs, b, c, n) == f = [i \in c..n |-> IF i = n THEN b ELSE hdrs[f[i + 1]].prev]

\* The walk from a header to its ancestors exists, down to any height.
LEMMA BranchExists ==
    ASSUME NEW hdrs, NEW b, NEW c \in Int, NEW n \in Int, c <= n
    PROVE  \E f : WalksBack(f, hdrs, b, c, n)
<1> DEFINE Fits(f, low) == WalksBack(f, hdrs, b, low, n)
           Some(low) == \E f : Fits(f, low)
           S == {low \in c..n : Some(low)}
<1>1. Some(n)
  <2> DEFINE g == [i \in n..n |-> b]
  <2>1. Fits(g, n)
      BY DEF WalksBack
  <2> HIDE DEF g
  <2> QED
      BY <2>1
<1>2. ASSUME NEW low \in (c + 1)..n, Some(low) PROVE Some(low - 1)
  <2>1. PICK f : Fits(f, low)
      BY <1>2
  <2> DEFINE g == [i \in (low - 1)..n |-> IF i = low - 1 THEN hdrs[f[low]].prev ELSE f[i]]
  <2>2. \A i \in low..n : g[i] = f[i]
      OBVIOUS
  <2>3. ASSUME NEW i \in (low - 1)..n PROVE g[i] = IF i = n THEN b ELSE hdrs[g[i + 1]].prev
    <3>1. CASE i = low - 1
        BY <2>2, <3>1
    <3>2. CASE i # low - 1
      <4>1. i \in low..n /\ g[i] = f[i]
          BY <2>2, <3>2
      <4>2. f[i] = IF i = n THEN b ELSE hdrs[f[i + 1]].prev
          BY <2>1, <4>1 DEF WalksBack
      <4>3. i # n => g[i + 1] = f[i + 1]
          BY <2>2, <4>1
      <4> QED
          BY <4>1, <4>2, <4>3
    <3> QED
        BY <3>1, <3>2
  <2>4. Fits(g, low - 1)
      BY <2>3 DEF WalksBack
  <2> HIDE DEF g
  <2> QED
      BY <2>4
<1> HIDE DEF Some
<1>3. n \in S /\ \A i \in (c + 1)..n : i \in S => i - 1 \in S
    BY <1>1, <1>2
<1>4. \A i \in c..n : i \in S
  <2> HIDE DEF S
  <2> QED
      BY <1>3, Downward
<1>5. Some(c)
    BY <1>4
<1> QED
    BY <1>5 DEF Some

\* Branch starts at the header itself and goes from each header to its parent.
LEMMA BranchSteps ==
    ASSUME NEW hdrs, NEW b, NEW c \in Int, hdrs[b].height \in Int, c <= hdrs[b].height
    PROVE  /\ Branch(c, hdrs, b)[hdrs[b].height] = b
           /\ \A i \in c..(hdrs[b].height - 1) :
                Branch(c, hdrs, b)[i] = hdrs[Branch(c, hdrs, b)[i + 1]].prev
<1> DEFINE n == hdrs[b].height
           up == Branch(c, hdrs, b)
<1>1. PICK f : WalksBack(f, hdrs, b, c, n)
    BY BranchExists
<1>2. up = [i \in c..n |-> IF i = n THEN b ELSE hdrs[up[i + 1]].prev]
    BY <1>1 DEF Branch, WalksBack
<1> HIDE DEF up
<1>3. up[n] = b
    BY <1>2
<1>4. \A i \in c..(n - 1) : up[i] = hdrs[up[i + 1]].prev
    BY <1>2
<1> QED
    BY <1>3, <1>4 DEF up

\* The ancestor at height h is a stored block of that height.
LEMMA AncestorsStored ==
    ASSUME NEW cp, NEW hdrs, Tree(cp, hdrs), NEW b \in Stored(hdrs)
    PROVE  \A h \in cp.height..hdrs[b].height :
             /\ Branch(cp.height, hdrs, b)[h] \in Stored(hdrs)
             /\ hdrs[Branch(cp.height, hdrs, b)[h]].height = h
<1> DEFINE c == cp.height
           n == hdrs[b].height
           up == Branch(cp.height, hdrs, b)
           S == {h \in c..n : up[h] \in Stored(hdrs) /\ hdrs[up[h]].height = h}
<1>1. c \in Nat /\ n \in Nat /\ c <= n
    BY TreeFacts
<1>2. up[n] = b /\ \A i \in c..(n - 1) : up[i] = hdrs[up[i + 1]].prev
    BY <1>1, BranchSteps
<1> HIDE DEF up
<1>3. n \in S
    BY <1>1, <1>2
<1>4. ASSUME NEW i \in (c + 1)..n, i \in S PROVE i - 1 \in S
  <2>1. i - 1 \in c..(n - 1) /\ (i - 1) + 1 = i
      BY <1>1
  <2>2. up[i - 1] = hdrs[up[i]].prev
      BY <1>2, <2>1
  <2>3. up[i] \in Stored(hdrs) /\ hdrs[up[i]].height = i /\ i # c
      BY <1>1, <1>4
  <2>4. up[i] # cp.block_hash
      BY <2>3, TreeFacts
  <2>5. hdrs[up[i]].prev \in Stored(hdrs) /\ hdrs[hdrs[up[i]].prev].height = i - 1
      BY <2>3, <2>4, TreeFacts
  <2> QED
      BY <1>1, <2>1, <2>2, <2>5
<1>5. \A i \in c..n : i \in S
  <2> HIDE DEF S, n, c
  <2> QED
      BY <1>1, <1>3, <1>4, Downward
<1> QED
    BY <1>5 DEF up

\* The ancestors of an ancestor are ancestors.
LEMMA AncestorsOfAncestor ==
    ASSUME NEW cp, NEW hdrs, Tree(cp, hdrs), NEW b \in Stored(hdrs),
           NEW h \in cp.height..hdrs[b].height
    PROVE  \A k \in cp.height..h :
             Branch(cp.height, hdrs, Branch(cp.height, hdrs, b)[h])[k] = Branch(cp.height, hdrs, b)[k]
<1> DEFINE c == cp.height
           n == hdrs[b].height
           up == Branch(cp.height, hdrs, b)
           a == up[h]
           via == Branch(cp.height, hdrs, a)
           S == {k \in c..h : via[k] = up[k]}
<1>1. c \in Nat /\ n \in Nat /\ c <= n
    BY TreeFacts
<1>2. a \in Stored(hdrs) /\ hdrs[a].height = h
    BY AncestorsStored
<1>3. \A i \in c..(n - 1) : up[i] = hdrs[up[i + 1]].prev
    BY <1>1, BranchSteps
<1>4. via[h] = a /\ \A i \in c..(h - 1) : via[i] = hdrs[via[i + 1]].prev
  <2>1. hdrs[a].height \in Int /\ c \in Int /\ c <= hdrs[a].height
      BY <1>1, <1>2
  <2> HIDE DEF a
  <2> QED
      BY <1>2, <2>1, BranchSteps
<1> HIDE DEF up, via
<1>5. h \in S
    BY <1>1, <1>4
<1>6. ASSUME NEW i \in (c + 1)..h, i \in S PROVE i - 1 \in S
  <2>1. i - 1 \in c..(h - 1) /\ i - 1 \in c..(n - 1) /\ (i - 1) + 1 = i
      BY <1>1
  <2>2. up[i - 1] = hdrs[up[i]].prev /\ via[i - 1] = hdrs[via[i]].prev
      BY <1>3, <1>4, <2>1
  <2> QED
      BY <1>1, <1>6, <2>1, <2>2
<1>7. \A i \in c..h : i \in S
  <2>1. h \in Int
      BY <1>1
  <2> HIDE DEF S, c
  <2> QED
      BY <1>1, <1>5, <1>6, <2>1, Downward
<1> QED
    BY <1>7 DEF up, via, a

\* Stored entries are never changed, so what was stored keeps its ancestors.
Kept(hdrs, new) == \A b \in Stored(hdrs) : b \in Stored(new) /\ new[b] = hdrs[b]

\* A tree that only gains headers keeps the ancestors of the old ones.
LEMMA AncestorsKept ==
    ASSUME NEW cp, NEW hdrs, NEW new, Tree(cp, hdrs), Kept(hdrs, new), NEW b \in Stored(hdrs)
    PROVE  /\ new[b].height = hdrs[b].height
           /\ \A h \in cp.height..hdrs[b].height :
                Branch(cp.height, new, b)[h] = Branch(cp.height, hdrs, b)[h]
<1> DEFINE c == cp.height
           n == hdrs[b].height
           up == Branch(cp.height, hdrs, b)
           on == Branch(cp.height, new, b)
           S == {k \in c..n : on[k] = up[k]}
<1>1. c \in Nat /\ n \in Nat /\ c <= n
    BY TreeFacts
<1>2. new[b].height = n
    BY DEF Kept
<1>3. /\ up[n] = b /\ \A i \in c..(n - 1) : up[i] = hdrs[up[i + 1]].prev
      /\ \A i \in c..n : up[i] \in Stored(hdrs)
    BY <1>1, BranchSteps, AncestorsStored
<1>4. on[n] = b /\ \A i \in c..(n - 1) : on[i] = new[on[i + 1]].prev
  <2>1. new[b].height \in Int /\ c <= new[b].height
      BY <1>1, <1>2
  <2> QED
      BY <1>1, <1>2, <2>1, BranchSteps
<1> HIDE DEF up, on
<1>5. n \in S
    BY <1>1, <1>3, <1>4
<1>6. ASSUME NEW i \in (c + 1)..n, i \in S PROVE i - 1 \in S
  <2>1. i - 1 \in c..(n - 1) /\ i \in c..n /\ (i - 1) + 1 = i
      BY <1>1
  <2>2. up[i - 1] = hdrs[up[i]].prev /\ on[i - 1] = new[on[i]].prev
      BY <1>3, <1>4, <2>1
  <2>3. on[i] = up[i] /\ new[up[i]] = hdrs[up[i]]
      BY <1>3, <1>6, <2>1 DEF Kept
  <2> QED
      BY <1>1, <2>1, <2>2, <2>3
<1>7. \A i \in c..n : i \in S
  <2> HIDE DEF S, c, n
  <2> QED
      BY <1>1, <1>5, <1>6, Downward
<1> QED
    BY <1>2, <1>7 DEF up, on

-----------------------------------------------------------------------------
(* Batches.                                                                   *)

\* A header that passes header_ok leaves a tree a tree and adds nothing else.
LEMMA HeaderGrowsTree ==
    ASSUME NEW cp, NEW hdrs, Tree(cp, hdrs), NEW b \in Blocks, header_ok(hdrs, b),
           NEW new, new = with_header(hdrs, b)
    PROVE  Tree(cp, new) /\ Kept(hdrs, new) /\ b \in Stored(new)
<1>1. CASE b \in Stored(hdrs)
  <2>1. new = hdrs
      BY <1>1 DEF with_header
  <2> QED
      BY <1>1, <2>1 DEF Kept
<1>2. CASE b \notin Stored(hdrs)
  <2> DEFINE p == Header[b].prev
  <2>1. new = [hdrs EXCEPT ![b] = entry(hdrs, b)] /\ hdrs = [x \in Blocks |-> hdrs[x]]
      BY <1>2 DEF with_header, Tree
  <2>2. new = [x \in Blocks |-> new[x]] /\ new[b] = entry(hdrs, b)
        /\ \A x \in Blocks : x # b => new[x] = hdrs[x]
    <3> HIDE DEF p
    <3> QED
        BY <2>1
  <2>3. /\ p \in Stored(hdrs) /\ p # b
        /\ Header[b].bits = expected_bits(hdrs[p], hdrs[p].height + 1, pow_limit)
        /\ hdrs[p].height < MaxHeight
      BY <1>2 DEF header_ok
  <2>4. cp.block_hash # b /\ cp.height \in Nat
      BY <1>2, TreeFacts
  <2>5. MaxHeight \in Nat /\ hdrs[p].height \in cp.height..MaxHeight
      BY <2>3, SpvAssumption DEF Tree
  <2>6. new[b].height = hdrs[p].height + 1 /\ new[b].height \in cp.height..MaxHeight
    <3>1. entry(hdrs, b).height = hdrs[p].height + 1
        BY DEF entry
    <3> QED
        BY <2>2, <2>3, <2>4, <2>5, <3>1
  <2>7. b \in Stored(new)
    <3>1. new[b].height # -1
        BY <2>4, <2>6
    <3>2. new[b] # NotStored
        BY <3>1 DEF NotStored
    <3> QED
        BY <3>2 DEF Stored
  <2>8. \A x \in Blocks : x \in Stored(new) => x = b \/ x \in Stored(hdrs)
      BY <2>2 DEF Stored
  <2>9. Kept(hdrs, new)
      BY <1>2, <2>2 DEF Kept, Stored
  <2>10. ASSUME NEW x \in Blocks, Header[x].prev \in Stored(hdrs)
         PROVE  entry(new, x) = entry(hdrs, x) /\ new[Header[x].prev] = hdrs[Header[x].prev]
    <3>1. new[Header[x].prev] = hdrs[Header[x].prev]
        BY <2>9, <2>10 DEF Kept
    <3> QED
        BY <3>1 DEF entry
  <2>11. Child(new, b)
    <3>1. p \in Stored(new) /\ new[p] = hdrs[p] /\ new[b] = entry(new, b)
        BY <2>2, <2>3, <2>9, <2>10 DEF Kept
    <3> QED
        BY <2>3, <3>1 DEF Child
  <2>12. ASSUME NEW x \in Stored(hdrs), x # cp.block_hash PROVE Child(new, x)
    <3>1. Child(hdrs, x) /\ x \in Blocks
        BY <2>12 DEF Tree, Stored
    <3>2. /\ Header[x].prev \in Stored(hdrs) /\ hdrs[x] = entry(hdrs, x)
          /\ Header[x].bits = expected_bits(hdrs[Header[x].prev], hdrs[Header[x].prev].height + 1, pow_limit)
        BY <3>1 DEF Child
    <3>3. /\ Header[x].prev \in Stored(new) /\ new[Header[x].prev] = hdrs[Header[x].prev]
          /\ new[x] = entry(new, x)
        BY <2>9, <2>10, <3>1, <3>2 DEF Kept
    <3> QED
        BY <3>2, <3>3 DEF Child
  <2>13. ASSUME NEW x \in Stored(new)
         PROVE  new[x].height \in cp.height..MaxHeight /\ (x # cp.block_hash => Child(new, x))
    <3>1. x \in Blocks
        BY DEF Stored
    <3>2. CASE x = b
        BY <2>6, <2>11, <3>2
    <3>3. CASE x \in Stored(hdrs)
        BY <2>9, <2>12, <3>3 DEF Kept, Tree
    <3> QED
        BY <2>8, <3>1, <3>2, <3>3
  <2>14. cp.block_hash \in Blocks /\ cp.height \in Heights /\ new[cp.block_hash] = Root(cp)
      BY <2>2, <2>4 DEF Tree
  <2>15. Tree(cp, new)
      BY <2>2, <2>13, <2>14 DEF Tree
  <2> QED
      BY <2>7, <2>9, <2>15
<1> QED
    BY <1>1, <1>2

\* The recursive function in Ingest exists.
StoresInTurn(f, hdrs, batch, n) ==
    f = [i \in 0..n |-> IF i = 0 THEN hdrs ELSE with_header(f[i - 1], batch[i])]

\* Storing a batch header by header is possible for any batch.
LEMMA IngestExists ==
    ASSUME NEW hdrs, NEW batch, NEW n \in Nat
    PROVE  \E f : StoresInTurn(f, hdrs, batch, n)
<1> DEFINE Some(k) == \E f : StoresInTurn(f, hdrs, batch, k)
           S == {k \in 0..n : Some(k)}
<1>1. Some(0)
  <2> DEFINE g == [i \in 0..0 |-> hdrs]
  <2>1. StoresInTurn(g, hdrs, batch, 0)
      BY DEF StoresInTurn
  <2> HIDE DEF g
  <2> QED
      BY <2>1
<1>2. ASSUME NEW k \in 0..(n - 1), Some(k) PROVE Some(k + 1)
  <2>1. PICK f : StoresInTurn(f, hdrs, batch, k)
      BY <1>2
  <2> DEFINE g == [i \in 0..(k + 1) |-> IF i = k + 1 THEN with_header(f[k], batch[k + 1]) ELSE f[i]]
  <2>2. \A i \in 0..k : g[i] = f[i]
      OBVIOUS
  <2>3. ASSUME NEW i \in 0..(k + 1)
        PROVE  g[i] = IF i = 0 THEN hdrs ELSE with_header(g[i - 1], batch[i])
    <3>1. CASE i = k + 1
      <4>1. g[i] = with_header(f[k], batch[k + 1]) /\ g[i - 1] = f[k] /\ i # 0
          BY <2>2, <3>1
      <4> QED
          BY <3>1, <4>1
    <3>2. CASE i # k + 1
      <4>1. i \in 0..k /\ g[i] = f[i]
          BY <2>2, <3>2
      <4>2. f[i] = IF i = 0 THEN hdrs ELSE with_header(f[i - 1], batch[i])
          BY <2>1, <4>1 DEF StoresInTurn
      <4>3. i # 0 => g[i - 1] = f[i - 1]
          BY <2>2, <4>1
      <4> QED
          BY <4>1, <4>2, <4>3
    <3> QED
        BY <3>1, <3>2
  <2>4. StoresInTurn(g, hdrs, batch, k + 1)
      BY <2>3 DEF StoresInTurn
  <2> HIDE DEF g
  <2> QED
      BY <2>4
<1> HIDE DEF Some
<1>3. 0 \in S /\ \A i \in 0..(n - 1) : i \in S => i + 1 \in S
    BY <1>1, <1>2
<1>4. \A i \in 0..n : i \in S
  <2> HIDE DEF S
  <2> QED
      BY <1>3, Upward
<1>5. Some(n)
    BY <1>4
<1> QED
    BY <1>5 DEF Some

\* Ingest starts from the stored headers and adds one of the batch at a time.
LEMMA IngestSteps ==
    ASSUME NEW batch, Len(batch) \in Nat
    PROVE  /\ Ingest(batch)[0] = headers
           /\ \A i \in 1..Len(batch) : Ingest(batch)[i] = with_header(Ingest(batch)[i - 1], batch[i])
<1> DEFINE n == Len(batch)
           after == Ingest(batch)
<1>1. PICK f : StoresInTurn(f, headers, batch, n)
    BY IngestExists
<1>2. after = [i \in 0..n |-> IF i = 0 THEN headers ELSE with_header(after[i - 1], batch[i])]
    BY <1>1 DEF Ingest, StoresInTurn
<1> HIDE DEF after
<1>3. after[0] = headers /\ \A i \in 1..n : after[i] = with_header(after[i - 1], batch[i])
    BY <1>2
<1> QED
    BY <1>3 DEF after

\* A batch that passes the checks of submit_headers leaves a larger tree, with its
\* last header stored.
LEMMA BatchGrowsTree ==
    ASSUME Tree(checkpoint, headers), NEW batch \in Seq(Blocks), Len(batch) >= 1,
           \A i \in 1..Len(batch) : header_ok(Ingest(batch)[i - 1], batch[i]),
           NEW new, new = Ingest(batch)[Len(batch)]
    PROVE  Tree(checkpoint, new) /\ Kept(headers, new) /\ batch[Len(batch)] \in Stored(new)
<1> DEFINE n == Len(batch)
           after == Ingest(batch)
           Sound(hdrs) == Tree(checkpoint, hdrs) /\ Kept(headers, hdrs)
           S == {i \in 0..n : Sound(after[i])}
<1>1. n \in Nat /\ \A i \in 1..n : batch[i] \in Blocks
    OBVIOUS
<1>2. after[0] = headers /\ \A i \in 1..n : after[i] = with_header(after[i - 1], batch[i])
    BY <1>1, IngestSteps
<1> HIDE DEF after
<1>3. 0 \in S
    BY <1>1, <1>2 DEF Kept
<1>4. ASSUME NEW i \in 1..n, Sound(after[i - 1])
      PROVE  Sound(after[i]) /\ batch[i] \in Stored(after[i])
  <2>1. Tree(checkpoint, after[i]) /\ Kept(after[i - 1], after[i]) /\ batch[i] \in Stored(after[i])
    <3>1. header_ok(after[i - 1], batch[i])
        BY DEF after
    <3> QED
        BY <1>1, <1>2, <1>4, <3>1, HeaderGrowsTree
  <2>2. Kept(headers, after[i])
      BY <1>4, <2>1 DEF Kept
  <2> QED
      BY <2>1, <2>2
<1>5. \A i \in 0..(n - 1) : i \in S => i + 1 \in S
  <2>1. ASSUME NEW i \in 0..(n - 1), i \in S PROVE i + 1 \in S
    <3>1. i + 1 \in 1..n /\ (i + 1) - 1 = i
        BY <1>1
    <3>2. Sound(after[i + 1])
        BY <1>4, <2>1, <3>1
    <3> QED
        BY <3>1, <3>2
  <2> QED
      BY <2>1
<1>6. \A i \in 0..n : i \in S
  <2> HIDE DEF S, n
  <2> QED
      BY <1>1, <1>3, <1>5, Upward
<1>7. n \in 1..n /\ n - 1 \in 0..n
    BY <1>1
<1>8. Sound(after[n]) /\ batch[n] \in Stored(after[n])
    BY <1>4, <1>6, <1>7
<1> QED
    BY <1>8 DEF after

-----------------------------------------------------------------------------
(* Difficulty periods.                                                        *)

\* Quotient and remainder are unique, stated by multiplication.
LEMMA QuotientUnique ==
    ASSUME NEW R \in Nat \ {0}, NEW p \in Nat, NEW q \in Nat, NEW r \in 0..(R - 1), NEW s \in 0..(R - 1),
           R * p + r = R * q + s
    PROVE  p = q /\ r = s
OBVIOUS

\* Two heights in a row that are not on a boundary share their period's first height.
LEMMA PeriodsStart ==
    ASSUME NEW R \in Nat \ {0}, NEW n \in Nat, (n + 1) % R # 0
    PROVE  (n + 1) - ((n + 1) % R) = n - (n % R)
<1> DEFINE p == (n + 1) \div R
           q == n \div R
           r == (n + 1) % R
           s == n % R
<1>1. p \in Nat /\ q \in Nat /\ r \in 1..(R - 1) /\ s \in 0..(R - 1)
    OBVIOUS
<1>2. n + 1 = R * p + r /\ n = R * q + s
    OBVIOUS
<1> HIDE DEF p, q, r, s
<1>3. r - 1 \in 0..(R - 1) /\ R * p + (r - 1) = R * q + s
    BY <1>1, <1>2
<1>4. r - 1 = s
    BY <1>1, <1>3, QuotientUnique
<1>5. (n + 1) - r = n - s
    BY <1>1, <1>4
<1> QED
    BY <1>5 DEF r, s

\* PeriodStart for any checkpoint and any tree.
FirstOfPeriod(n) == n - (n % RETARGET_INTERVAL)

StartOf(cp, hdrs, b) ==
    IF FirstOfPeriod(hdrs[b].height) > cp.height
    THEN hdrs[Branch(cp.height, hdrs, b)[FirstOfPeriod(hdrs[b].height)]].time
    ELSE cp.period_start_time

\* PeriodStart written out as a function of the headers it reads.
LEMMA PeriodStartIs ==
    \A b : PeriodStart(b) = StartOf(checkpoint, headers, b)
BY DEF PeriodStart, StartOf, FirstOfPeriod, Ancestor

\* The first height of a difficulty period: at a multiple of the interval, kept until the next.
LEMMA FirstOfPeriodIs ==
    ASSUME NEW n \in Nat
    PROVE  /\ FirstOfPeriod(n) \in Nat /\ FirstOfPeriod(n) <= n
           /\ n % RETARGET_INTERVAL = 0 => FirstOfPeriod(n) = n
           /\ (n + 1) % RETARGET_INTERVAL # 0 => FirstOfPeriod(n + 1) = FirstOfPeriod(n)
<1> DEFINE R == RETARGET_INTERVAL
<1>1. R \in Nat \ {0}
    BY DifficultyAssumption
<1>2. n % R \in 0..(R - 1) /\ n - (n % R) \in Nat /\ n - (n % R) <= n
  <2> HIDE DEF R
  <2>1. n % R \in 0..(R - 1) /\ n = R * (n \div R) + (n % R) /\ n \div R \in Nat
      BY <1>1
  <2>2. R * (n \div R) \in Nat
      BY <1>1, <2>1
  <2> QED
      BY <1>1, <2>1, <2>2
<1>3. (n + 1) % R # 0 => (n + 1) - ((n + 1) % R) = n - (n % R)
  <2> HIDE DEF R
  <2> QED
      BY <1>1, PeriodsStart
<1>4. n % R = 0 => n - (n % R) = n
    BY <1>2
<1> QED
    BY <1>2, <1>3, <1>4 DEF FirstOfPeriod

\* Every entry carries the start of its own branch's period.
LEMMA PeriodFollowsBranch ==
    ASSUME NEW cp, NEW hdrs, Tree(cp, hdrs)
    PROVE  \A b \in Stored(hdrs) : hdrs[b].period_start_time = StartOf(cp, hdrs, b)
<1> DEFINE c == cp.height
           At(k) == \A b \in Stored(hdrs) :
                      hdrs[b].height = c + k => hdrs[b].period_start_time = StartOf(cp, hdrs, b)
           S == {k \in Nat : At(k)}
<1>1. c \in Nat
    BY TreeFacts
<1>2. At(0)
  <2>1. SUFFICES ASSUME NEW b \in Stored(hdrs), hdrs[b].height = c + 0
                 PROVE  hdrs[b].period_start_time = StartOf(cp, hdrs, b)
      OBVIOUS
  <2>2. hdrs[b].height = c /\ b = cp.block_hash
      BY <1>1, <2>1, TreeFacts
  <2>3. hdrs[b].period_start_time = cp.period_start_time
      BY <2>2 DEF Tree, Root
  <2>4. ~(FirstOfPeriod(hdrs[b].height) > c)
      BY <1>1, <2>2, FirstOfPeriodIs
  <2> QED
      BY <2>3, <2>4 DEF StartOf
<1>3. ASSUME NEW k \in Nat, At(k) PROVE At(k + 1)
  <2>1. SUFFICES ASSUME NEW b \in Stored(hdrs), hdrs[b].height = c + (k + 1)
                 PROVE  hdrs[b].period_start_time = StartOf(cp, hdrs, b)
      OBVIOUS
  <2> DEFINE p == hdrs[b].prev
             n == c + k
             up == Branch(c, hdrs, b)
             first == FirstOfPeriod(n + 1)
  <2>2. n \in Nat /\ hdrs[b].height = n + 1 /\ n >= c /\ b # cp.block_hash
      BY <1>1, <2>1, TreeFacts
  <2>3. p \in Stored(hdrs) /\ hdrs[p].height = n
      BY <1>1, <2>2, TreeFacts
  <2>4. /\ p = Header[b].prev /\ hdrs[b].time = Header[b].time
        /\ hdrs[b].period_start_time = IF (n + 1) % RETARGET_INTERVAL = 0
                                       THEN Header[b].time ELSE hdrs[p].period_start_time
    <3>1. hdrs[b] = entry(hdrs, b)
        BY <2>2 DEF Tree, Child
    <3>2. /\ entry(hdrs, b).prev = Header[b].prev /\ entry(hdrs, b).time = Header[b].time
          /\ entry(hdrs, b).period_start_time =
                 IF (hdrs[Header[b].prev].height + 1) % RETARGET_INTERVAL = 0
                 THEN Header[b].time ELSE hdrs[Header[b].prev].period_start_time
        BY DEF entry
    <3> QED
        BY <2>3, <3>1, <3>2
  <2>5. up[n + 1] = b /\ up[n] = p
    <3>1. hdrs[b].height \in Int /\ c \in Int /\ c <= hdrs[b].height
        BY <1>1, <2>2
    <3>2. up[hdrs[b].height] = b /\ \A i \in c..(hdrs[b].height - 1) : up[i] = hdrs[up[i + 1]].prev
        BY <3>1, BranchSteps
    <3> HIDE DEF up
    <3>3. n \in c..((n + 1) - 1)
        BY <1>1, <2>2
    <3> QED
        BY <2>2, <3>2, <3>3
  <2>6. n + 1 \in Nat /\ first \in Nat /\ first <= n + 1
    <3>1. n + 1 \in Nat
        BY <2>2
    <3> HIDE DEF n
    <3> QED
        BY <3>1, FirstOfPeriodIs
  <2>7. StartOf(cp, hdrs, b) = IF first > c THEN hdrs[up[first]].time ELSE cp.period_start_time
      BY <2>2 DEF StartOf
  <2>8. CASE (n + 1) % RETARGET_INTERVAL = 0
    <3>1. first = n + 1
      <4> HIDE DEF n
      <4> QED
          BY <2>6, <2>8, FirstOfPeriodIs
    <3>2. first > c
        BY <1>1, <2>2, <3>1
    <3> QED
        BY <2>4, <2>5, <2>7, <2>8, <3>1, <3>2
  <2>9. CASE (n + 1) % RETARGET_INTERVAL # 0
    <3>1. first = FirstOfPeriod(n) /\ first <= n
      <4> HIDE DEF n
      <4> QED
          BY <2>2, <2>9, FirstOfPeriodIs
    <3>2. hdrs[p].period_start_time = StartOf(cp, hdrs, p)
        BY <1>3, <2>3
    <3>3. StartOf(cp, hdrs, p) =
              IF first > c THEN hdrs[Branch(c, hdrs, p)[first]].time ELSE cp.period_start_time
        BY <2>3, <3>1 DEF StartOf
    <3>4. first > c => Branch(c, hdrs, p)[first] = up[first]
      <4>1. n \in cp.height..hdrs[b].height
          BY <1>1, <2>2
      <4>2. \A i \in cp.height..n : Branch(cp.height, hdrs, Branch(cp.height, hdrs, b)[n])[i] = Branch(cp.height, hdrs, b)[i]
        <5> HIDE DEF n
        <5> QED
            BY <4>1, AncestorsOfAncestor
      <4>3. first > c => first \in cp.height..n
          BY <1>1, <2>2, <2>6, <3>1
      <4> QED
          BY <2>5, <4>2, <4>3
    <3> QED
        BY <2>4, <2>7, <2>9, <3>2, <3>3, <3>4
  <2> QED
      BY <2>8, <2>9
<1>4. S = Nat
  <2>1. S \in SUBSET Nat /\ 0 \in S /\ \A k \in S : k + 1 \in S
    <3> HIDE DEF At
    <3> QED
        BY <1>2, <1>3
  <2> HIDE DEF S
  <2> QED
      BY <2>1, InSteps
<1>5. ASSUME NEW b \in Stored(hdrs) PROVE hdrs[b].period_start_time = StartOf(cp, hdrs, b)
  <2>1. hdrs[b].height - c \in Nat /\ hdrs[b].height = c + (hdrs[b].height - c)
      BY <1>1, TreeFacts
  <2>2. At(hdrs[b].height - c)
    <3> HIDE DEF At
    <3> QED
        BY <1>4, <2>1
  <2> QED
      BY <2>1, <2>2
<1> QED
    BY <1>5

-----------------------------------------------------------------------------
(* Chain work.                                                                *)

\* OneDifficulty for any checkpoint and any tree.
Same(cp, hdrs) == \A b \in Stored(hdrs) : hdrs[b].bits = cp.bits

\* More headers of equal work weigh more.
LEMMA WorkGrows ==
    ASSUME NEW W \in Nat \ {0}, NEW j \in Nat, NEW k \in Nat
    PROVE  /\ j * W \in Nat /\ (j + 1) * W = j * W + W
           /\ j * W > k * W <=> j > k
OBVIOUS

\* A header weighs at least one unit of work.
LEMMA WorkIsPositive ==
    ASSUME NEW t \in 0..pow_limit
    PROVE  work_from_target(t) \in Nat \ {0}
<1> DEFINE most == U256_MAX
<1>1. most \in Nat /\ t \in Nat /\ t <= most
    BY SpvAssumption DEF pow_limit
<1> HIDE DEF most
<1>2. (most - t) \div (t + 1) + 1 \in Nat \ {0}
    BY <1>1
<1> QED
    BY <1>2 DEF work_from_target, most

\* While blocks weigh the same, work is height.
LEMMA WorkIsHeight ==
    ASSUME NEW cp, NEW hdrs, Tree(cp, hdrs), Same(cp, hdrs), bits_to_target(cp.bits) \in 0..pow_limit
    PROVE  \A b \in Stored(hdrs) :
             hdrs[b].chainwork = (hdrs[b].height - cp.height) * work_from_target(bits_to_target(cp.bits))
<1> DEFINE c == cp.height
           W == work_from_target(bits_to_target(cp.bits))
           At(k) == \A b \in Stored(hdrs) : hdrs[b].height = c + k => hdrs[b].chainwork = k * W
           S == {k \in Nat : At(k)}
<1>1. c \in Nat /\ W \in Nat \ {0}
    BY TreeFacts, WorkIsPositive
<1> HIDE DEF W
<1>2. At(0)
  <2>1. SUFFICES ASSUME NEW b \in Stored(hdrs), hdrs[b].height = c + 0
                 PROVE  hdrs[b].chainwork = 0 * W
      OBVIOUS
  <2>2. b = cp.block_hash
      BY <1>1, <2>1, TreeFacts
  <2>3. hdrs[b].chainwork = 0
      BY <2>2 DEF Tree, Root
  <2> QED
      BY <1>1, <2>3
<1>3. ASSUME NEW k \in Nat, At(k) PROVE At(k + 1)
  <2>1. SUFFICES ASSUME NEW b \in Stored(hdrs), hdrs[b].height = c + (k + 1)
                 PROVE  hdrs[b].chainwork = (k + 1) * W
      OBVIOUS
  <2> DEFINE p == hdrs[b].prev
  <2>2. b # cp.block_hash
      BY <1>1, <2>1, TreeFacts
  <2>3. p \in Stored(hdrs) /\ hdrs[p].height = c + k
      BY <1>1, <2>1, <2>2, TreeFacts
  <2>4. hdrs[p].chainwork = k * W
      BY <1>3, <2>3
  <2>5. hdrs[b].chainwork = hdrs[p].chainwork + W
    <3>1. hdrs[b] = entry(hdrs, b) /\ hdrs[b].bits = cp.bits
        BY <2>2 DEF Tree, Child, Same
    <3>2. /\ entry(hdrs, b).prev = Header[b].prev /\ entry(hdrs, b).bits = Header[b].bits
          /\ entry(hdrs, b).chainwork =
                 hdrs[Header[b].prev].chainwork + work_from_target(bits_to_target(Header[b].bits))
        BY DEF entry
    <3> QED
        BY <3>1, <3>2 DEF W
  <2> QED
      BY <1>1, <2>4, <2>5, WorkGrows
<1>4. S = Nat
  <2>1. S \in SUBSET Nat /\ 0 \in S /\ \A k \in S : k + 1 \in S
    <3> HIDE DEF At
    <3> QED
        BY <1>2, <1>3
  <2> HIDE DEF S
  <2> QED
      BY <2>1, InSteps
<1>5. ASSUME NEW b \in Stored(hdrs) PROVE hdrs[b].chainwork = (hdrs[b].height - c) * W
  <2>1. hdrs[b].height - c \in Nat /\ hdrs[b].height = c + (hdrs[b].height - c)
      BY <1>1, TreeFacts
  <2>2. At(hdrs[b].height - c)
    <3> HIDE DEF At
    <3> QED
        BY <1>4, <2>1
  <2> QED
      BY <2>1, <2>2
<1> QED
    BY <1>5 DEF W

\* At one difficulty the heavier of two stored chains is the higher one.
LEMMA HeavierIsHigher ==
    ASSUME NEW cp, NEW hdrs, Tree(cp, hdrs), Same(cp, hdrs), bits_to_target(cp.bits) \in 0..pow_limit,
           NEW a \in Stored(hdrs), NEW b \in Stored(hdrs)
    PROVE  hdrs[a].chainwork > hdrs[b].chainwork <=> hdrs[a].height > hdrs[b].height
<1> DEFINE W == work_from_target(bits_to_target(cp.bits))
           j == hdrs[a].height - cp.height
           k == hdrs[b].height - cp.height
<1>1. hdrs[a].height \in Nat /\ hdrs[b].height \in Nat /\ cp.height \in Nat /\ j \in Nat /\ k \in Nat
    BY TreeFacts
<1>2. W \in Nat \ {0}
    BY WorkIsPositive
<1>3. hdrs[a].chainwork = j * W /\ hdrs[b].chainwork = k * W
    BY WorkIsHeight
<1>4. j * W > k * W <=> j > k
  <2> HIDE DEF j, k, W
  <2> QED
      BY <1>1, <1>2, WorkGrows
<1>5. j > k <=> hdrs[a].height > hdrs[b].height
    BY <1>1
<1> QED
    BY <1>3, <1>4, <1>5

-----------------------------------------------------------------------------
(* The index.                                                                 *)

\* The index is the tip's chain and nothing above it.
Indexed(cp, hdrs, can, tip) ==
    /\ \A h \in cp.height..tip.height : can[h] = Branch(cp.height, hdrs, tip.hash)[h]
    /\ \A h \in Heights : h > tip.height => can[h] = NoBlock

TipStored(hdrs, tip) ==
    /\ tip.hash \in Stored(hdrs)
    /\ tip.height = hdrs[tip.hash].height /\ tip.chainwork = hdrs[tip.hash].chainwork

\* What fork_height finds: the block where b leaves the best chain.
ForkOf(cp, hdrs, can, b) ==
    Max({h \in cp.height..hdrs[b].height : can[h] = Branch(cp.height, hdrs, b)[h]})

\* The walk back from a stored header stops at the last height it shares with the
\* indexed chain.
LEMMA ForkIs ==
    ASSUME NEW cp, NEW hdrs, NEW can, NEW tip, Tree(cp, hdrs), TipStored(hdrs, tip),
           Indexed(cp, hdrs, can, tip), NEW b \in Stored(hdrs)
    PROVE  /\ ForkOf(cp, hdrs, can, b) \in cp.height..hdrs[b].height
           /\ ForkOf(cp, hdrs, can, b) <= tip.height
           /\ \A h \in cp.height..ForkOf(cp, hdrs, can, b) :
                can[h] = Branch(cp.height, hdrs, b)[h]
           /\ \A h \in cp.height..hdrs[b].height :
                can[h] = Branch(cp.height, hdrs, b)[h] => h <= ForkOf(cp, hdrs, can, b)
<1> DEFINE c == cp.height
           n == hdrs[b].height
           up == Branch(c, hdrs, b)
           best_up == Branch(c, hdrs, tip.hash)
           M == {h \in c..n : can[h] = up[h]}
           f == Max(M)
<1>1. c \in Nat /\ n \in Nat /\ c <= n /\ n <= MaxHeight /\ MaxHeight \in Nat
    BY TreeFacts, SpvAssumption
<1>2. tip.height \in Nat /\ c <= tip.height
    BY TreeFacts DEF TipStored
<1>3. \A h \in c..n : up[h] \in Stored(hdrs) /\ hdrs[up[h]].height = h
    BY AncestorsStored
<1>4. \A h \in c..tip.height : best_up[h] \in Stored(hdrs) /\ hdrs[best_up[h]].height = h
    BY AncestorsStored DEF TipStored
<1>5. \A h \in c..tip.height : can[h] = best_up[h]
    BY DEF Indexed
<1> HIDE DEF up, best_up
<1>6. c \in M
  <2>1. c \in c..n /\ c \in c..tip.height
      BY <1>1, <1>2
  <2>2. up[c] = cp.block_hash /\ best_up[c] = cp.block_hash
      BY <1>3, <1>4, <2>1, TreeFacts
  <2> QED
      BY <1>5, <2>1, <2>2
<1>7. f \in M /\ \A h \in M : h <= f
  <2>1. M \in SUBSET Int /\ M # {} /\ \A h \in M : h <= n
      BY <1>1, <1>6
  <2>2. n \in Int
      BY <1>1
  <2> HIDE DEF M, n
  <2> QED
      BY <2>1, <2>2, MaxIs
<1> HIDE DEF f
<1>8. f \in c..n /\ can[f] = up[f]
    BY <1>7
<1>9. f <= tip.height
  <2>1. SUFFICES ASSUME f > tip.height PROVE FALSE
      BY <1>1, <1>2, <1>8
  <2>2. f \in Heights
      BY <1>1, <1>8 DEF Heights
  <2>3. can[f] = NoBlock
      BY <2>1, <2>2 DEF Indexed
  <2>4. up[f] \in Blocks
      BY <1>3, <1>8 DEF Stored
  <2> QED
      BY <1>8, <2>3, <2>4, SpvAssumption
<1>10. ASSUME NEW h \in c..f PROVE can[h] = up[h]
  <2>1. Branch(c, hdrs, up[f])[h] = up[h]
      BY <1>8, <1>10, AncestorsOfAncestor DEF up
  <2>2. f \in c..tip.height /\ h \in c..tip.height
      BY <1>1, <1>2, <1>8, <1>9
  <2>3. Branch(c, hdrs, best_up[f])[h] = best_up[h]
      BY <1>10, <2>2, AncestorsOfAncestor DEF best_up, TipStored
  <2>4. up[f] = best_up[f]
      BY <1>5, <1>8, <2>2
  <2> QED
      BY <1>5, <2>1, <2>2, <2>3, <2>4
<1>11. f = ForkOf(cp, hdrs, can, b)
    BY DEF f, ForkOf, up
<1> QED
    BY <1>7, <1>8, <1>9, <1>10, <1>11 DEF up

\* The index stays right when headers are added and the tip does not move.
LEMMA IndexKept ==
    ASSUME NEW cp, NEW hdrs, NEW can, NEW tip, NEW new, Tree(cp, hdrs), Kept(hdrs, new),
           TipStored(hdrs, tip), Indexed(cp, hdrs, can, tip)
    PROVE  TipStored(new, tip) /\ Indexed(cp, new, can, tip)
<1>1. tip.hash \in Stored(hdrs) /\ tip.height = hdrs[tip.hash].height
    BY DEF TipStored
<1>2. TipStored(new, tip)
    BY DEF TipStored, Kept
<1>3. \A h \in cp.height..tip.height : Branch(cp.height, new, tip.hash)[h] = Branch(cp.height, hdrs, tip.hash)[h]
    BY <1>1, AncestorsKept
<1> QED
    BY <1>2, <1>3 DEF Indexed

\* The index after a higher tip b has been adopted.
LEMMA IndexMoves ==
    ASSUME NEW cp, NEW hdrs, NEW can, NEW tip, Tree(cp, hdrs), TipStored(hdrs, tip),
           Indexed(cp, hdrs, can, tip), NEW b \in Stored(hdrs), hdrs[b].height > tip.height,
           NEW can2, NEW tip2,
           can2 = [h \in Heights |-> IF h \in (ForkOf(cp, hdrs, can, b) + 1)..hdrs[b].height
                                     THEN Branch(cp.height, hdrs, b)[h] ELSE can[h]],
           tip2.hash = b, tip2.height = hdrs[b].height
    PROVE  Indexed(cp, hdrs, can2, tip2)
<1> DEFINE c == cp.height
           n == hdrs[b].height
           up == Branch(c, hdrs, b)
           f == ForkOf(cp, hdrs, can, b)
<1>1. c \in Nat /\ n \in Nat /\ n <= MaxHeight /\ MaxHeight \in Nat
    BY TreeFacts, SpvAssumption
<1>2. f \in c..n /\ f <= tip.height /\ \A h \in c..f : can[h] = up[h]
    BY ForkIs
<1>3. tip.height \in Nat
    BY TreeFacts DEF TipStored
<1> HIDE DEF up, f
<1>4. \A h \in Heights : can2[h] = IF h \in (f + 1)..n THEN up[h] ELSE can[h]
    BY DEF up, f
<1>5. ASSUME NEW h \in c..n PROVE can2[h] = up[h]
  <2>1. h \in Heights
      BY <1>1 DEF Heights
  <2>2. CASE h <= f
      BY <1>1, <1>2, <1>4, <2>1, <2>2
  <2>3. CASE h > f
      BY <1>1, <1>2, <1>4, <2>1, <2>3
  <2> QED
      BY <1>1, <1>2, <2>2, <2>3
<1>6. ASSUME NEW h \in Heights, h > n PROVE can2[h] = NoBlock
  <2>1. h \in Nat
      BY <1>1 DEF Heights
  <2>2. can2[h] = can[h] /\ h > tip.height
      BY <1>1, <1>3, <1>4, <1>6, <2>1
  <2> QED
      BY <2>2 DEF Indexed
<1> QED
    BY <1>5, <1>6 DEF Indexed, up

-----------------------------------------------------------------------------
(* The inductive invariant.                                                   *)

Sound(cp, hdrs, can, tip) ==
    /\ bits_to_target(cp.bits) \in 0..pow_limit
    /\ Tree(cp, hdrs) /\ TipStored(hdrs, tip)
    /\ can = [h \in Heights |-> can[h]]
    /\ Same(cp, hdrs) => Indexed(cp, hdrs, can, tip)

Empty ==
    /\ ~HasCheckpoint
    /\ headers = [b \in Blocks |-> NotStored] /\ canonical = [h \in Heights |-> NoBlock]

Inv ==
    \/ Empty
    \/ /\ HasCheckpoint
       /\ Sound(checkpoint, headers, canonical, best)

\* A newly deployed contract has no headers: the invariant holds.
LEMMA InitInv == Init => Inv
BY DEF Init, Inv, Empty, HasCheckpoint

\* set_checkpoint stores the root of a tree.
LEMMA RootIsSound ==
    ASSUME NEW args \in CheckpointArgs, bits_to_target(args.bits) \in 0..pow_limit,
           NEW hdrs, hdrs = [b \in Blocks |-> IF b = args.block_hash THEN Root(args) ELSE NotStored],
           NEW can, can = [h \in Heights |-> IF h = args.height THEN args.block_hash ELSE NoBlock],
           NEW tip, tip = [hash |-> args.block_hash, height |-> args.height, chainwork |-> 0]
    PROVE  Sound(args, hdrs, can, tip) /\ args # NoCheckpoint
<1> DEFINE b == args.block_hash
           c == args.height
<1>1. b \in Blocks /\ c \in Heights /\ MaxHeight \in Nat
    BY SpvAssumption
<1>2. c \in Nat /\ c <= MaxHeight
    BY <1>1 DEF Heights
<1>3. hdrs[b] = Root(args) /\ \A x \in Blocks : x # b => hdrs[x] = NotStored
  <2> HIDE DEF b
  <2> QED
      BY <1>1 DEF b
<1>4. Root(args).height = c /\ Root(args).chainwork = 0
    BY DEF Root
<1>5. Stored(hdrs) = {b}
  <2>1. hdrs[b] # NotStored
      BY <1>2, <1>3, <1>4 DEF NotStored
  <2> HIDE DEF b
  <2> QED
      BY <1>1, <1>3, <2>1 DEF Stored
<1>6. Tree(args, hdrs)
    BY <1>1, <1>2, <1>3, <1>4, <1>5 DEF Tree
<1>7. TipStored(hdrs, tip)
    BY <1>3, <1>4, <1>5 DEF TipStored
<1>8. Indexed(args, hdrs, can, tip)
  <2>1. Branch(c, hdrs, b)[c] = b
    <3>1. hdrs[b].height = c /\ c \in Int /\ c <= hdrs[b].height
        BY <1>2, <1>3, <1>4
    <3> QED
        BY <3>1, BranchSteps
  <2>2. \A h \in c..c : h = c
      BY <1>2
  <2>3. can[c] = b
      BY <1>1
  <2>4. \A h \in Heights : h > c => can[h] = NoBlock
      BY <1>2
  <2> QED
      BY <2>1, <2>2, <2>3, <2>4 DEF Indexed
<1>9. args # NoCheckpoint
    BY <1>2 DEF NoCheckpoint
<1> QED
    BY <1>6, <1>7, <1>8, <1>9 DEF Sound

\* A batch of accepted headers leaves everything sound.
LEMMA BatchIsSound ==
    ASSUME NEW cp, NEW hdrs, NEW can, NEW tip, Sound(cp, hdrs, can, tip),
           NEW new, Tree(cp, new), Kept(hdrs, new), NEW b \in Stored(new),
           NEW can2, NEW tip2,
           \/ can2 = can /\ tip2 = tip
           \/ /\ new[b].chainwork > tip.chainwork
              /\ can2 = [h \in Heights |-> IF h \in (ForkOf(cp, new, can, b) + 1)..new[b].height
                                           THEN Branch(cp.height, new, b)[h] ELSE can[h]]
              /\ tip2 = [hash |-> b, height |-> new[b].height, chainwork |-> new[b].chainwork]
    PROVE  /\ Sound(cp, new, can2, tip2)
           /\ Same(cp, new) => (Indexed(cp, new, can, tip) /\ TipStored(new, tip))
<1>1. Same(cp, new) => Same(cp, hdrs)
    BY DEF Same, Kept
<1>2. TipStored(new, tip)
    BY DEF Sound, TipStored, Kept
<1>3. Same(cp, new) => Indexed(cp, new, can, tip)
    BY <1>1, IndexKept DEF Sound
<1>4. TipStored(new, tip2)
    BY <1>2 DEF TipStored
<1>5. can2 = [h \in Heights |-> can2[h]]
    BY DEF Sound
<1>6. ASSUME Same(cp, new) PROVE Indexed(cp, new, can2, tip2)
  <2>1. CASE can2 = can /\ tip2 = tip
      BY <1>3, <1>6, <2>1
  <2>2. CASE /\ new[b].chainwork > tip.chainwork
             /\ can2 = [h \in Heights |-> IF h \in (ForkOf(cp, new, can, b) + 1)..new[b].height
                                          THEN Branch(cp.height, new, b)[h] ELSE can[h]]
             /\ tip2 = [hash |-> b, height |-> new[b].height, chainwork |-> new[b].chainwork]
    <3>1. new[b].chainwork > new[tip.hash].chainwork /\ tip.hash \in Stored(new)
          /\ tip.height = new[tip.hash].height
        BY <1>2, <2>2 DEF TipStored
    <3>2. new[b].height > tip.height
        BY <1>6, <3>1, HeavierIsHigher DEF Sound
    <3>3. tip2.hash = b /\ tip2.height = new[b].height
        BY <2>2
    <3> QED
        BY <1>2, <1>3, <1>6, <2>2, <3>2, <3>3, IndexMoves
  <2> QED
      BY <2>1, <2>2
<1> QED
    BY <1>2, <1>3, <1>4, <1>5, <1>6 DEF Sound

\* A batch is a sequence of blocks.
LEMMA BatchesAreSequences ==
    ASSUME NEW batch \in Batches
    PROVE  batch \in Seq(Blocks)
BY DEF Batches, BoundedSeq, SeqOf

\* What a successful submit_headers does, in terms of trees.
LEMMA SubmitFacts ==
    ASSUME NEW caller, NEW batch \in Batches, submit_headers(caller, batch),
           Sound(checkpoint, headers, canonical, best)
    PROVE  /\ HasCheckpoint /\ checkpoint' = checkpoint
           /\ Tree(checkpoint, headers') /\ Kept(headers, headers')
           /\ \E b \in Stored(headers') :
                \/ canonical' = canonical /\ best' = best
                \/ /\ headers'[b].chainwork > best.chainwork
                   /\ reorg_allowed(headers'[b].height - ForkOf(checkpoint, headers', canonical, b))
                   /\ canonical' = [h \in Heights |->
                          IF h \in (ForkOf(checkpoint, headers', canonical, b) + 1)..headers'[b].height
                          THEN Branch(checkpoint.height, headers', b)[h] ELSE canonical[h]]
                   /\ best' = [hash |-> b, height |-> headers'[b].height, chainwork |-> headers'[b].chainwork]
<1> DEFINE b == batch[Len(batch)]
<1>1. /\ HasCheckpoint /\ checkpoint' = checkpoint /\ Len(batch) >= 1
      /\ \A i \in 1..Len(batch) : header_ok(Ingest(batch)[i - 1], batch[i])
      /\ headers' = Ingest(batch)[Len(batch)]
      /\ adopt(Ingest(batch)[Len(batch)], b)
    BY SpvAssumption DEF submit_headers
<1>2. adopt(headers', b)
    BY <1>1
<1>3. Tree(checkpoint, headers') /\ Kept(headers, headers') /\ b \in Stored(headers')
    BY <1>1, BatchesAreSequences, BatchGrowsTree DEF Sound
<1>4. fork_height(headers', b) = ForkOf(checkpoint, headers', canonical, b)
    BY DEF fork_height, ForkOf, Ancestor
<1> HIDE DEF b
<1>5. \/ canonical' = canonical /\ best' = best
      \/ /\ headers'[b].chainwork > best.chainwork
         /\ reorg_allowed(headers'[b].height - ForkOf(checkpoint, headers', canonical, b))
         /\ canonical' = [h \in Heights |->
                IF h \in (ForkOf(checkpoint, headers', canonical, b) + 1)..headers'[b].height
                THEN Branch(checkpoint.height, headers', b)[h] ELSE canonical[h]]
         /\ best' = [hash |-> b, height |-> headers'[b].height, chainwork |-> headers'[b].chainwork]
    BY <1>2, <1>4 DEF adopt, heavier, reindex, Ancestor
<1> QED
    BY <1>1, <1>3, <1>5

\* set_checkpoint starts the tree with one header.
LEMMA CheckpointInv ==
    ASSUME Inv, NEW caller, NEW args \in CheckpointArgs, set_checkpoint(caller, args)
    PROVE  Inv'
<1>1. /\ Empty /\ bits_to_target(args.bits) \in 0..pow_limit
      /\ checkpoint' = args
      /\ headers' = [headers EXCEPT ![args.block_hash] = Root(args)]
      /\ canonical' = [canonical EXCEPT ![args.height] = args.block_hash]
      /\ best' = [hash |-> args.block_hash, height |-> args.height, chainwork |-> 0]
    BY DEF Inv, set_checkpoint, Root
<1>2. /\ headers' = [b \in Blocks |-> IF b = args.block_hash THEN Root(args) ELSE NotStored]
      /\ canonical' = [h \in Heights |-> IF h = args.height THEN args.block_hash ELSE NoBlock]
    BY <1>1 DEF Empty
<1>3. Sound(args, headers', canonical', best') /\ args # NoCheckpoint
    BY <1>1, <1>2, RootIsSound
<1> QED
    BY <1>1, <1>3 DEF Inv, HasCheckpoint

\* submit_headers keeps the invariant, whether the tip moves or not.
LEMMA SubmitInv ==
    ASSUME Inv, NEW caller, NEW batch \in Batches, submit_headers(caller, batch)
    PROVE  Inv'
<1>1. HasCheckpoint
    BY DEF submit_headers
<1>2. Sound(checkpoint, headers, canonical, best)
    BY <1>1 DEF Inv, Empty
<1>3. /\ checkpoint' = checkpoint
      /\ Tree(checkpoint, headers') /\ Kept(headers, headers')
      /\ \E b \in Stored(headers') :
           \/ canonical' = canonical /\ best' = best
           \/ /\ headers'[b].chainwork > best.chainwork
              /\ canonical' = [h \in Heights |->
                     IF h \in (ForkOf(checkpoint, headers', canonical, b) + 1)..headers'[b].height
                     THEN Branch(checkpoint.height, headers', b)[h] ELSE canonical[h]]
              /\ best' = [hash |-> b, height |-> headers'[b].height, chainwork |-> headers'[b].chainwork]
    BY <1>2, SubmitFacts
<1>4. Sound(checkpoint, headers', canonical', best')
    BY <1>2, <1>3, BatchIsSound
<1> QED
    BY <1>1, <1>3, <1>4 DEF Inv, HasCheckpoint

\* The other calls leave headers, index and tip alone.
LEMMA ChainUnchanged ==
    ASSUME Inv, UNCHANGED chain
    PROVE  Inv'
BY DEF Inv, Empty, HasCheckpoint, chain

\* Every step keeps the invariant.
LEMMA NextInv == Inv /\ [Next]_vars => Inv'
<1> SUFFICES ASSUME Inv, [Next]_vars PROVE Inv'
    OBVIOUS
<1>1. CASE AdminStep
  <2>1. PICK caller \in Addresses :
            \/ \E args \in CheckpointArgs : set_checkpoint(caller, args)
            \/ \E a \in Addresses : set_admin(caller, a)
            \/ \E a \in Addresses \union {NoAddress} : set_submitter(caller, a)
            \/ \E h, c \in TtlWindows : set_ttls(caller, h, c)
            \/ \E a \in Addresses, allowed \in BOOLEAN : set_consumer(caller, a, allowed)
      BY <1>1 DEF AdminStep
  <2>2. CASE \E args \in CheckpointArgs : set_checkpoint(caller, args)
      BY <2>2, CheckpointInv
  <2>3. CASE ~\E args \in CheckpointArgs : set_checkpoint(caller, args)
    <3>1. UNCHANGED chain
        BY <2>1, <2>3 DEF set_admin, set_submitter, set_ttls, set_consumer, SetConfig
    <3> QED
        BY <3>1, ChainUnchanged
  <2> QED
      BY <2>2, <2>3
<1>2. CASE \E a \in Addresses, t \in Txids : consume_deposit(a, t)
  <2>1. UNCHANGED chain
      BY <1>2 DEF consume_deposit
  <2> QED
      BY <2>1, ChainUnchanged
<1>3. CASE \E a \in Addresses, batch \in Batches : submit_headers(a, batch)
    BY <1>3, SubmitInv
<1>4. CASE TimePasses \/ UNCHANGED vars
  <2>1. UNCHANGED chain
      BY <1>4 DEF TimePasses, vars
  <2> QED
      BY <2>1, ChainUnchanged
<1> QED
    BY <1>1, <1>2, <1>3, <1>4 DEF Next

\* Headers form a tree from the checkpoint with their own difficulty, and at one
\* difficulty the index is the best tip's chain, after any calls of lib.rs.
THEOREM Invariance == Spec => []Inv
BY InitInv, NextInv, PTL DEF Spec

-----------------------------------------------------------------------------
(* What the contract promises.                                                *)

\* Inside one period the headers weigh the same, which is what the invariant asks for.
LEMMA InvCanonical == Inv => CanonicalWithinPeriod
<1> SUFFICES ASSUME Inv, OneDifficulty, HasCheckpoint PROVE CanonicalIsBestChain
    BY DEF CanonicalWithinPeriod, CanonicalIsBestChain
<1>1. Indexed(checkpoint, headers, canonical, best)
    BY DEF Inv, Empty, Sound, OneDifficulty, Same
<1> QED
    BY <1>1 DEF CanonicalIsBestChain, Indexed, Ancestor

\* The invariant's period starts are the ones the property walks to.
LEMMA InvDifficulty == Inv => DifficultyFollowsOwnBranch
<1> SUFFICES ASSUME Inv, NEW b \in Stored(headers), b # checkpoint.block_hash
             PROVE  LET p == headers[b].prev IN
                    /\ headers[b].period_start_time = PeriodStart(b)
                    /\ headers[b].bits = expected_bits([headers[p] EXCEPT !.period_start_time = PeriodStart(p)],
                                                       headers[b].height, pow_limit)
    BY DEF DifficultyFollowsOwnBranch
<1> DEFINE p == headers[b].prev
<1>1. Tree(checkpoint, headers)
  <2>1. ~Empty
      BY DEF Empty, Stored
  <2> QED
      BY <2>1 DEF Inv, Sound
<1>2. /\ p = Header[b].prev /\ headers[b].bits = Header[b].bits /\ p \in Stored(headers)
      /\ headers[b].height = headers[p].height + 1
      /\ Header[b].bits = expected_bits(headers[p], headers[p].height + 1, pow_limit)
  <2>1. Child(headers, b)
      BY <1>1 DEF Tree
  <2>2. /\ entry(headers, b).prev = Header[b].prev /\ entry(headers, b).bits = Header[b].bits
        /\ entry(headers, b).height = headers[Header[b].prev].height + 1
      BY DEF entry
  <2> QED
      BY <2>1, <2>2 DEF Child
<1>3. \A x \in Stored(headers) : headers[x].period_start_time = PeriodStart(x)
    BY <1>1, PeriodFollowsBranch, PeriodStartIs
<1> HIDE DEF p
<1>4. expected_bits([headers[p] EXCEPT !.period_start_time = PeriodStart(p)], headers[b].height, pow_limit)
        = expected_bits(headers[p], headers[b].height, pow_limit)
  <2> DEFINE e == headers[p]
             u == [headers[p] EXCEPT !.period_start_time = PeriodStart(p)]
  <2>1. u.bits = e.bits /\ u.time = e.time /\ u.period_start_time = e.period_start_time
      BY <1>2, <1>3
  <2> HIDE DEF e, u
  <2>2. expected_bits(u, headers[b].height, pow_limit) = expected_bits(e, headers[b].height, pow_limit)
      BY <2>1 DEF expected_bits
  <2> QED
      BY <2>2 DEF e, u
<1>5. headers[b].period_start_time = PeriodStart(b)
    BY <1>3
<1> QED
    BY <1>2, <1>4, <1>5 DEF p

\* The header to resubmit is the one just above the best tip.
LEMMA InvShallow == Inv => ShallowForkNotStuck
<1> SUFFICES ASSUME Inv, HasCheckpoint, OneDifficulty, NEW b \in Stored(headers),
                    heavier(headers[b]), best.height - ForkPoint(best.hash, b) < MAX_REORG_DEPTH
             PROVE  \E h \in ForkPoint(best.hash, b)..headers[b].height :
                      LET a == Ancestor(headers, b, h)
                      IN  heavier(headers[a]) /\ reorg_allowed(h - fork_height(headers, a))
    BY DEF ShallowForkNotStuck
<1> DEFINE c == checkpoint.height
           n == headers[b].height
           t == best.height
           up == Branch(c, headers, b)
           best_up == Branch(c, headers, best.hash)
           M == {h \in c..(IF t < n THEN t ELSE n) : best_up[h] = up[h]}
           fp == ForkPoint(best.hash, b)
           a == up[t + 1]
           f == ForkOf(checkpoint, headers, canonical, a)
<1>1. /\ Tree(checkpoint, headers) /\ Same(checkpoint, headers) /\ TipStored(headers, best)
      /\ Indexed(checkpoint, headers, canonical, best)
      /\ bits_to_target(checkpoint.bits) \in 0..pow_limit
    BY DEF Inv, Empty, Sound, OneDifficulty, Same
<1>2. /\ c \in Nat /\ n \in Nat /\ t \in Nat /\ c <= t /\ best.hash \in Stored(headers)
      /\ headers[best.hash].height = t /\ headers[best.hash].chainwork = best.chainwork
    BY <1>1, TreeFacts DEF TipStored
<1>3. n > t
    BY <1>1, <1>2, HeavierIsHigher DEF heavier
<1>4. /\ \A h \in c..n : up[h] \in Stored(headers) /\ headers[up[h]].height = h
      /\ \A h \in c..t : best_up[h] \in Stored(headers) /\ headers[best_up[h]].height = h
    BY <1>1, <1>2, AncestorsStored
<1>5. fp = Max(M)
    BY <1>2 DEF ForkPoint, Ancestor
<1> HIDE DEF up, best_up, fp
<1>6. fp \in c..t /\ best_up[fp] = up[fp]
  <2>1. c \in M
    <3>1. c \in c..n /\ c \in c..t
        BY <1>2, <1>3
    <3>2. up[c] = checkpoint.block_hash /\ best_up[c] = checkpoint.block_hash
        BY <1>1, <1>4, <3>1, TreeFacts
    <3> QED
        BY <1>3, <3>1, <3>2
  <2>2. M \in SUBSET Int /\ M # {} /\ \A h \in M : h <= t
      BY <1>2, <1>3, <2>1
  <2>3. fp \in M
    <3>1. t \in Int
        BY <1>2
    <3> HIDE DEF M, t
    <3> QED
        BY <1>5, <2>2, <3>1, MaxIs
  <2> QED
      BY <1>2, <1>3, <2>3
<1>7. a \in Stored(headers) /\ headers[a].height = t + 1
    BY <1>2, <1>3, <1>4
<1>8. heavier(headers[a])
    BY <1>1, <1>2, <1>7, HeavierIsHigher DEF heavier
<1>9. fork_height(headers, a) = f
    BY DEF fork_height, ForkOf, Ancestor
<1> HIDE DEF a
<1>10. fp <= f /\ f \in c..(t + 1)
  <2>1. \A k \in c..(t + 1) : Branch(c, headers, a)[k] = up[k]
    <3>1. t + 1 \in c..n
        BY <1>2, <1>3
    <3> QED
        BY <1>1, <3>1, AncestorsOfAncestor DEF a, up
  <2>2. fp \in c..(t + 1) /\ canonical[fp] = Branch(c, headers, a)[fp]
      BY <1>1, <1>2, <1>6, <2>1 DEF Indexed, best_up
  <2> QED
      BY <1>1, <1>2, <1>7, <2>2, ForkIs
<1>11. reorg_allowed((t + 1) - f)
  <2>1. t - fp < MAX_REORG_DEPTH /\ MAX_REORG_DEPTH \in Nat
      BY SpvAssumption DEF fp
  <2> HIDE DEF f
  <2> QED
      BY <1>2, <1>6, <1>10, <2>1 DEF reorg_allowed
<1>12. t + 1 \in fp..n
    BY <1>2, <1>3, <1>6
<1>13. Ancestor(headers, b, t + 1) = a
    BY DEF Ancestor, a, up
<1> QED
    BY <1>8, <1>9, <1>11, <1>12, <1>13 DEF fp

\* How a deep block survives a batch.
LEMMA DeepBlockStays ==
    ASSUME NEW batch \in Batches, NEW caller, submit_headers(caller, batch),
           Sound(checkpoint, headers, canonical, best),
           NEW b \in Stored(headers), verify_transaction(b, MAX_REORG_DEPTH), OneDifficulty'
    PROVE  verify_transaction(b, MAX_REORG_DEPTH)'
<1> DEFINE h == headers[b].height
           c == checkpoint.height
<1>1. /\ HasCheckpoint /\ checkpoint' = checkpoint
      /\ Tree(checkpoint, headers') /\ Kept(headers, headers')
    BY SubmitFacts
<1>2. PICK d \in Stored(headers') :
           \/ canonical' = canonical /\ best' = best
           \/ /\ headers'[d].chainwork > best.chainwork
              /\ reorg_allowed(headers'[d].height - ForkOf(checkpoint, headers', canonical, d))
              /\ canonical' = [i \in Heights |->
                     IF i \in (ForkOf(checkpoint, headers', canonical, d) + 1)..headers'[d].height
                     THEN Branch(checkpoint.height, headers', d)[i] ELSE canonical[i]]
              /\ best' = [hash |-> d, height |-> headers'[d].height, chainwork |-> headers'[d].chainwork]
    BY SubmitFacts
<1>3. Same(checkpoint, headers')
    BY <1>1 DEF OneDifficulty, Same
<1>4. Indexed(checkpoint, headers', canonical, best) /\ TipStored(headers', best)
    BY <1>1, <1>2, <1>3, BatchIsSound
<1>5. b \in Stored(headers') /\ headers'[b] = headers[b]
    BY <1>1 DEF Kept
<1>6. /\ MAX_REORG_DEPTH > 0 /\ h > c /\ h <= best.height /\ canonical[h] = b
      /\ best.height - h + 1 >= MAX_REORG_DEPTH
    BY DEF verify_transaction
<1>7. /\ best.height \in Nat /\ h \in Nat /\ c \in Nat /\ MAX_REORG_DEPTH \in Nat
      /\ h \in Heights
  <2>1. best.height \in Nat /\ c \in Nat
      BY <1>1, <1>4, TreeFacts DEF TipStored
  <2>2. headers'[b].height \in Nat /\ headers'[b].height <= MaxHeight /\ MaxHeight \in Nat
      BY <1>1, <1>5, TreeFacts, SpvAssumption
  <2> QED
      BY <1>5, <2>1, <2>2, SpvAssumption DEF Heights
<1>8. h <= best'.height /\ canonical'[h] = b /\ best'.height - h + 1 >= MAX_REORG_DEPTH
  <2>1. CASE canonical' = canonical /\ best' = best
      BY <1>6, <2>1
  <2>2. CASE /\ headers'[d].chainwork > best.chainwork
             /\ reorg_allowed(headers'[d].height - ForkOf(checkpoint, headers', canonical, d))
             /\ canonical' = [i \in Heights |->
                    IF i \in (ForkOf(checkpoint, headers', canonical, d) + 1)..headers'[d].height
                    THEN Branch(checkpoint.height, headers', d)[i] ELSE canonical[i]]
             /\ best' = [hash |-> d, height |-> headers'[d].height, chainwork |-> headers'[d].chainwork]
    <3> DEFINE f == ForkOf(checkpoint, headers', canonical, d)
               m == headers'[d].height
    <3>1. m > best.height /\ m \in Nat
      <4>1. /\ best.hash \in Stored(headers') /\ headers'[best.hash].height = best.height
            /\ headers'[best.hash].chainwork = best.chainwork
          BY <1>4 DEF TipStored
      <4>2. bits_to_target(checkpoint.bits) \in 0..pow_limit
          BY DEF Sound
      <4>3. headers'[d].chainwork > headers'[best.hash].chainwork
          BY <2>2, <4>1
      <4>4. headers'[d].height > headers'[best.hash].height
          BY <1>1, <1>3, <4>1, <4>2, <4>3, HeavierIsHigher
      <4> QED
          BY <1>1, <4>1, <4>4, TreeFacts
    <3>2. f \in c..m /\ m - f <= MAX_REORG_DEPTH
        BY <1>1, <1>4, <2>2, ForkIs DEF reorg_allowed
    <3>3. canonical'[h] = IF h \in (f + 1)..m THEN Branch(checkpoint.height, headers', d)[h] ELSE canonical[h]
        BY <1>7, <2>2
    <3>4. best'.height = m
        BY <2>2
    <3> HIDE DEF f, m
    <3>5. h <= f
        BY <1>6, <1>7, <3>1, <3>2
    <3>6. canonical'[h] = b
        BY <1>6, <1>7, <3>2, <3>3, <3>5
    <3> QED
        BY <1>6, <1>7, <3>1, <3>4, <3>6
  <2> QED
      BY <1>2, <2>1, <2>2
<1>9. HasCheckpoint'
    BY <1>1 DEF HasCheckpoint
<1> HIDE DEF h
<1>10. headers'[b].height = h /\ checkpoint'.height = c
    BY <1>1, <1>5 DEF h
<1> QED
    BY <1>5, <1>6, <1>8, <1>9, <1>10 DEF verify_transaction

\* lib.rs, verify_transaction needs the block on the indexed chain, and
\* get_canonical_hash: "Returns the most-work chain's block hash".  Inside a
\* difficulty period the index is the best tip's own chain.
THEOREM IndexIsBestChain == Spec => []CanonicalWithinPeriod
BY Invariance, InvCanonical, PTL

\* submit_headers derives a header's difficulty from the parent's entry alone:
\* on every branch that is the start and the bits of its own period.
THEOREM DifficultyIsItsOwn == Spec => []DifficultyFollowsOwnBranch
BY Invariance, InvDifficulty, PTL

\* ReorgTooDeep never locks the contract on the lighter of two branches that
\* part close to the tip, while blocks weigh the same.
THEOREM ShallowForksResolve == Spec => []ShallowForkNotStuck
BY Invariance, InvShallow, PTL

\* A deposit MAX_REORG_DEPTH deep stays verifiable, while blocks weigh the same.
THEOREM DeepBlocksAreFinal == Spec => DeepBlocksStay
<1> DEFINE Stays == \A b \in Stored(headers) :
                      verify_transaction(b, MAX_REORG_DEPTH) /\ OneDifficulty'
                        => verify_transaction(b, MAX_REORG_DEPTH)'
<1>1. ASSUME Inv, [Next]_vars PROVE Stays \/ UNCHANGED vars
  <2>1. SUFFICES ASSUME Next, NEW b \in Stored(headers),
                        verify_transaction(b, MAX_REORG_DEPTH), OneDifficulty'
                 PROVE  verify_transaction(b, MAX_REORG_DEPTH)'
      BY <1>1
  <2>2. HasCheckpoint /\ Sound(checkpoint, headers, canonical, best)
      BY <1>1, <2>1 DEF verify_transaction, Inv, Empty
  <2>3. CASE UNCHANGED chain
      BY <2>1, <2>3 DEF verify_transaction, HasCheckpoint, chain, Stored
  <2>4. CASE \E a \in Addresses, batch \in Batches : submit_headers(a, batch)
      BY <2>1, <2>2, <2>4, DeepBlockStays
  <2>5. UNCHANGED chain \/ \E a \in Addresses, batch \in Batches : submit_headers(a, batch)
    <3>1. CASE AdminStep
        BY <2>2, <3>1 DEF AdminStep, set_checkpoint, set_admin, set_submitter, set_ttls, set_consumer, SetConfig
    <3>2. CASE \E a \in Addresses, t \in Txids : consume_deposit(a, t)
        BY <3>2 DEF consume_deposit
    <3>3. CASE TimePasses
        BY <3>3 DEF TimePasses
    <3> QED
        BY <2>1, <3>1, <3>2, <3>3 DEF Next
  <2> QED
      BY <2>3, <2>4, <2>5
<1>2. Inv /\ [Next]_vars => [Stays]_vars
  <2> HIDE DEF Stays
  <2> QED
      BY <1>1
<1>3. [][Stays]_vars => DeepBlocksStay
    BY PTL DEF DeepBlocksStay
<1> HIDE DEF Stays
<1> QED
    BY Invariance, <1>2, <1>3, PTL DEF Spec

-----------------------------------------------------------------------------
(* The Merkle tree of a block.                                              *)

\* F goes up from level b for m levels.
Builds(F, b, m) == F = [k \in 0..m |-> IF k = 0 THEN b ELSE Algorithms!LevelAbove(F[k - 1])]

\* The levels above a block can be built one by one.
LEMMA LevelsExist ==
    ASSUME NEW b, NEW n \in Nat
    PROVE  \E F : Builds(F, b, n)
<1> DEFINE S == {m \in Nat : \E F : Builds(F, b, m)}
<1>1. 0 \in S
  <2>1. PICK F : F = [k \in 0..0 |-> b]
      OBVIOUS
  <2>2. Builds(F, b, 0)
      BY <2>1 DEF Builds
  <2> QED
      BY <2>2
<1>2. ASSUME NEW m \in S PROVE m + 1 \in S
  <2>1. PICK F : Builds(F, b, m)
      OBVIOUS
  <2>2. PICK G : G = [k \in 0..(m + 1) |->
                        IF k = m + 1 THEN Algorithms!LevelAbove(F[m]) ELSE F[k]]
      OBVIOUS
  <2>3. ASSUME NEW k \in 0..(m + 1)
        PROVE  G[k] = IF k = 0 THEN b ELSE Algorithms!LevelAbove(G[k - 1])
    <3>1. CASE k = m + 1
      <4>1. G[k] = Algorithms!LevelAbove(F[m]) /\ G[k - 1] = F[m] /\ k # 0
          BY <2>2, <3>1
      <4> QED
          BY <4>1
    <3>2. CASE k \in 0..m
      <4>1. G[k] = F[k] /\ (k # 0 => G[k - 1] = F[k - 1])
          BY <2>2, <3>2
      <4>2. F[k] = IF k = 0 THEN b ELSE Algorithms!LevelAbove(F[k - 1])
          BY <2>1, <3>2 DEF Builds
      <4> QED
          BY <4>1, <4>2
    <3> QED
        BY <3>1, <3>2
  <2>4. Builds(G, b, m + 1)
      BY <2>2, <2>3 DEF Builds
  <2> QED
      BY <2>4
<1> HIDE DEF S
<1>3. S \in SUBSET Nat
    BY DEF S
<1>4. S = Nat
    BY <1>1, <1>2, <1>3, InSteps
<1> QED
    BY <1>4 DEF S

\* Levels is that sequence of levels, up to the block's length.
LEMMA LevelsBuild ==
    ASSUME NEW b, Len(b) \in Nat
    PROVE  Builds(Algorithms!Levels(b), b, Len(b))
<1>1. \E F : Builds(F, b, Len(b))
    BY LevelsExist
<1>2. Algorithms!Levels(b) = CHOOSE F : Builds(F, b, Len(b))
    BY DEF Algorithms!Levels, Builds
<1> QED
    BY <1>1, <1>2

\* F halves p for m levels.
Halves(F, p, m) == F = [k \in 0..m |-> IF k = 0 THEN p ELSE F[k - 1] \div 2]

\* A position can be halved as often as one likes.
LEMMA HalvesExist ==
    ASSUME NEW p, NEW n \in Nat
    PROVE  \E F : Halves(F, p, n)
<1> DEFINE S == {m \in Nat : \E F : Halves(F, p, m)}
<1>1. 0 \in S
  <2>1. PICK F : F = [k \in 0..0 |-> p]
      OBVIOUS
  <2>2. Halves(F, p, 0)
      BY <2>1 DEF Halves
  <2> QED
      BY <2>2
<1>2. ASSUME NEW m \in S PROVE m + 1 \in S
  <2>1. PICK F : Halves(F, p, m)
      OBVIOUS
  <2>2. PICK h : h = F[m] \div 2
      OBVIOUS
  <2>3. PICK G : G = [k \in 0..(m + 1) |-> IF k = m + 1 THEN h ELSE F[k]]
      OBVIOUS
  <2>4. ASSUME NEW k \in 0..(m + 1)
        PROVE  G[k] = IF k = 0 THEN p ELSE G[k - 1] \div 2
    <3>1. CASE k = m + 1
      <4>1. G[k] = h /\ G[k - 1] = F[m] /\ k # 0
          BY <2>3, <3>1
      <4> QED
          BY <2>2, <4>1
    <3>2. CASE k \in 0..m
      <4>1. G[k] = F[k] /\ (k # 0 => G[k - 1] = F[k - 1])
          BY <2>3, <3>2
      <4>2. F[k] = IF k = 0 THEN p ELSE F[k - 1] \div 2
          BY <2>1, <3>2 DEF Halves
      <4> QED
          BY <4>1, <4>2
    <3> QED
        BY <3>1, <3>2
  <2>5. Halves(G, p, m + 1)
      BY <2>3, <2>4 DEF Halves
  <2> QED
      BY <2>5
<1> HIDE DEF S
<1>3. S \in SUBSET Nat
    BY DEF S
<1>4. S = Nat
    BY <1>1, <1>2, <1>3, InSteps
<1> QED
    BY <1>4 DEF S

\* Ancestors halves the position, up to the block's length.
LEMMA AncestorsHalve ==
    ASSUME NEW b, Len(b) \in Nat, NEW p
    PROVE  Halves(Algorithms!Ancestors(b, p), p, Len(b))
<1>1. \E F : Halves(F, p, Len(b))
    BY HalvesExist
<1>2. Algorithms!Ancestors(b, p) = CHOOSE F : Halves(F, p, Len(b))
    BY DEF Algorithms!Ancestors, Halves
<1> QED
    BY <1>1, <1>2

\* A list of n nodes.
IsLevel(low, n) == n \in Nat \ {0} /\ DOMAIN low = 1..n /\ Len(low) = n

\* Two neighbours, or the last of an odd level and itself, have one parent.
LEMMA AboveIsLevel ==
    ASSUME NEW low, NEW n, IsLevel(low, n)
    PROVE  /\ IsLevel(Algorithms!LevelAbove(low), (n + 1) \div 2)
           /\ \A j \in 1..((n + 1) \div 2) :
                /\ 2 * j - 1 \in 1..n
                /\ Algorithms!LevelAbove(low)[j] =
                     <<low[2 * j - 1], low[IF 2 * j <= n THEN 2 * j ELSE 2 * j - 1]>>
<1>1. n \in Nat \ {0} /\ Len(low) = n
    BY DEF IsLevel
<1>2. PICK q \in Nat \ {0} : q = (n + 1) \div 2
    BY <1>1
<1>3. PICK up : up = [j \in 1..q |->
                        <<low[2 * j - 1], low[IF 2 * j <= n THEN 2 * j ELSE 2 * j - 1]>>]
    OBVIOUS
<1>4. Algorithms!LevelAbove(low) = up
  <2>1. Algorithms!LevelAbove(low) =
           [j \in 1..q |-> <<low[2 * j - 1], IF 2 * j <= n THEN low[2 * j] ELSE low[2 * j - 1]>>]
      BY <1>1, <1>2 DEF Algorithms!LevelAbove, Algorithms!hash_merkle_pair
  <2> QED
      BY <1>3, <2>1
<1>5. \A j \in 1..q : 2 * j - 1 \in 1..n
    BY <1>1, <1>2
<1>6. IsLevel(up, q)
  <2>1. DOMAIN up = 1..q
      BY <1>3
  <2>2. Len(up) = q
      BY <1>3
  <2> QED
      BY <2>1, <2>2 DEF IsLevel
<1> QED
    BY <1>2, <1>3, <1>4, <1>5, <1>6

\* Each level is the one above the level below, and one of them is the root alone.
LEMMA LevelsShrink ==
    ASSUME NEW b, NEW n, IsLevel(b, n)
    PROVE  LET L == Algorithms!Levels(b)
           IN  /\ L[0] = b
               /\ \A k \in 1..n : L[k] = Algorithms!LevelAbove(L[k - 1])
               /\ \A k \in 0..n : IsLevel(L[k], Len(L[k]))
               /\ Algorithms!Depth(b) \in 0..n
               /\ Len(L[Algorithms!Depth(b)]) = 1
<1> DEFINE L == Algorithms!Levels(b)
<1>1. n \in Nat \ {0} /\ Len(b) = n
    BY DEF IsLevel
<1>2. L = [k \in 0..n |-> IF k = 0 THEN b ELSE Algorithms!LevelAbove(L[k - 1])]
    BY <1>1, LevelsBuild DEF Builds
<1>3. L[0] = b /\ \A k \in 1..n : L[k] = Algorithms!LevelAbove(L[k - 1])
  <2> HIDE DEF L
  <2>1. \A k \in 0..n : L[k] = IF k = 0 THEN b ELSE Algorithms!LevelAbove(L[k - 1])
      BY <1>2
  <2> QED
      BY <1>1, <2>1
<1> HIDE DEF L
<1>4. \A k \in 0..n : IsLevel(L[k], Len(L[k]))
  <2> DEFINE S == {k \in 0..n : IsLevel(L[k], Len(L[k]))}
  <2>1. 0 \in S
      BY <1>1, <1>3
  <2>2. ASSUME NEW k \in 0..(n - 1), k \in S PROVE k + 1 \in S
    <3>1. k + 1 \in 1..n /\ L[k + 1] = Algorithms!LevelAbove(L[k])
        BY <1>1, <1>3
    <3>2. IsLevel(L[k + 1], (Len(L[k]) + 1) \div 2)
        BY <2>2, <3>1, AboveIsLevel
    <3>3. IsLevel(L[k + 1], Len(L[k + 1]))
        BY <3>2 DEF IsLevel
    <3> QED
        BY <3>1, <3>3
  <2> HIDE DEF S
  <2>3. \A k \in 0..n : k \in S
      BY <1>1, <2>1, <2>2, Upward
  <2> QED
      BY <2>3 DEF S
<1>5. \E k \in 0..n : Len(L[k]) = 1
  <2> SUFFICES ASSUME \A k \in 0..n : Len(L[k]) # 1 PROVE FALSE
      OBVIOUS
  <2> DEFINE S == {k \in 0..n : Len(L[k]) <= n - k}
  <2>1. 0 \in S
      BY <1>1, <1>3
  <2>2. ASSUME NEW k \in 0..(n - 1), k \in S PROVE k + 1 \in S
    <3>1. k + 1 \in 1..n /\ L[k + 1] = Algorithms!LevelAbove(L[k]) /\ k \in 0..n
        BY <1>1, <1>3
    <3>2. PICK x \in Nat : x = Len(L[k]) /\ x # 0 /\ x # 1
        BY <1>4, <3>1 DEF IsLevel
    <3>3. IsLevel(L[k + 1], (x + 1) \div 2)
        BY <1>4, <3>1, <3>2, AboveIsLevel
    <3>4. PICK y : y = (x + 1) \div 2
        OBVIOUS
    <3>5. x \in Nat /\ x >= 2 /\ x + 1 \in Int
      <4>1. x \in Nat /\ x # 0 /\ x # 1
          BY <3>2
      <4> HIDE <3>2
      <4> QED
          BY <4>1
    <3>10. y \in Int /\ 2 * y <= x + 1
        BY <3>4, <3>5, DivBounds
    <3>6. y <= x - 1
        BY <3>5, <3>10
    <3>7. Len(L[k + 1]) = y
        BY <3>3, <3>4 DEF IsLevel
    <3>8. x <= n - k
        BY <2>2, <3>2
    <3>9. y <= n - (k + 1) /\ k + 1 \in 0..n
        BY <1>1, <3>1, <3>5, <3>6, <3>8, <3>10
    <3> QED
        BY <3>7, <3>9
  <2> HIDE DEF S
  <2>3. \A k \in 0..n : k \in S
      BY <1>1, <2>1, <2>2, Upward
  <2>4. n \in S
      BY <1>1, <2>3
  <2>5. Len(L[n]) <= 0 /\ Len(L[n]) \in Nat \ {0}
      BY <1>1, <1>4, <2>4 DEF S, IsLevel
  <2> QED
      BY <2>5
<1>6. PICK d \in 0..n : Len(L[d]) = 1 /\ \A j \in 0..(d - 1) : Len(L[j]) > 1
  <2> DEFINE S == {k \in 0..n : Len(L[k]) = 1}
  <2>1. PICK d \in S : \A x \in S : d <= x
    <3>1. S \in SUBSET Nat /\ S # {}
        BY <1>1, <1>5
    <3> HIDE DEF S
    <3> QED
        BY <3>1, LeastIs
  <2>2. ASSUME NEW j \in 0..(d - 1) PROVE Len(L[j]) > 1
    <3>1. j \in 0..n /\ j < d
        BY <1>1, <2>1
    <3>2. PICK x \in Nat \ {0} : x = Len(L[j])
        BY <1>4, <3>1 DEF IsLevel
    <3>3. x # 1
      <4> SUFFICES ASSUME x = 1 PROVE FALSE
          OBVIOUS
      <4>1. j \in S /\ d \in Nat
          BY <1>1, <3>1, <3>2
      <4> QED
          BY <2>1, <3>1, <4>1
    <3>4. x > 1
        BY <3>3
    <3> QED
        BY <3>2, <3>4
  <2> QED
      BY <2>1, <2>2
<1>7. Algorithms!Depth(b) \in 0..n /\ Len(L[Algorithms!Depth(b)]) = 1
    BY <1>1, <1>6, Zenon DEF Algorithms!Depth, L
<1> QED
    BY <1>3, <1>4, <1>7 DEF L

\* Hashing is taken as free of collisions: the id of a transaction that is not 64
\* bytes long is not the hash of two nodes, which are 64 bytes.  The ids in Short
\* are of transactions that are, and may be pairs.
LeavesAreNoPairs == \A l, r : <<l, r>> \notin Txs \cup {Foreign}

\* A block of n transactions.
IsBlock(b, n) == IsLevel(b, n) /\ \A q \in 1..n : b[q] \in Txs \cup Short

\* A block without a transaction of 64 bytes.
NoShort(b) == Algorithms!Range(b) \cap Short = {}

\* The blocks the model checks are blocks of transactions.
LEMMA ListIsBlock ==
    ASSUME NEW b \in Algorithms!TxLists
    PROVE  \E n : IsBlock(b, n)
<1>1. PICK n \in 1..MaxTxs : b \in [1..n -> Txs \cup Short]
    BY DEF Algorithms!TxLists
<1>2. n \in Nat \ {0}
    BY BoundsAssumption
<1>3. b \in Seq(Txs \cup Short)
    BY <1>1, <1>2
<1>4. Len(b) \in Nat /\ DOMAIN b = 1..Len(b) /\ DOMAIN b = 1..n
    BY <1>1, <1>3, LenProperties
<1>5. PICK m \in Nat : m = Len(b) /\ 1..m = 1..n
    BY <1>4
<1>6. n \in 1..m
    BY <1>2, <1>5
<1>7. m \in 1..n
  <2>1. m \in 1..m
      BY <1>5, <1>6
  <2> QED
      BY <1>5, <2>1
<1>8. Len(b) = n
    BY <1>2, <1>5, <1>6, <1>7
<1> QED
    BY <1>1, <1>2, <1>4, <1>8 DEF IsBlock, IsLevel

\* A node of a level above is a pair of nodes of the level below it.
LEMMA NodeIsPair ==
    ASSUME NEW b, NEW n, IsBlock(b, n), NEW k \in 1..n,
           NEW x \in Algorithms!Range(Algorithms!Levels(b)[k])
    PROVE  \E l, r \in Algorithms!Range(Algorithms!Levels(b)[k - 1]) : x = <<l, r>>
<1> DEFINE L == Algorithms!Levels(b)
<1>1. n \in Nat /\ IsLevel(b, n)
    BY DEF IsBlock, IsLevel
<1>2. L[k] = Algorithms!LevelAbove(L[k - 1]) /\ IsLevel(L[k - 1], Len(L[k - 1]))
  <2>1. k - 1 \in 0..n
      BY <1>1
  <2> QED
      BY <1>1, <2>1, LevelsShrink
<1> HIDE DEF L
<1>3. PICK m \in Nat \ {0} : m = Len(L[k - 1]) /\ DOMAIN L[k - 1] = 1..m
    BY <1>2 DEF IsLevel
<1>4. /\ DOMAIN L[k] = 1..((m + 1) \div 2)
      /\ \A j \in 1..((m + 1) \div 2) :
           /\ 2 * j - 1 \in 1..m
           /\ L[k][j] = <<L[k - 1][2 * j - 1],
                          L[k - 1][IF 2 * j <= m THEN 2 * j ELSE 2 * j - 1]>>
    BY <1>2, <1>3, AboveIsLevel DEF IsLevel
<1>5. PICK j \in 1..((m + 1) \div 2) : x = L[k][j]
    BY <1>4 DEF Algorithms!Range, L
<1>6. PICK g : g = IF 2 * j <= m THEN 2 * j ELSE 2 * j - 1
    OBVIOUS
<1>7. 2 * j - 1 \in 1..m /\ g \in 1..m
  <2>1. 2 * j - 1 \in 1..m
      BY <1>4, <1>5
  <2>2. j \in Int /\ m \in Nat
      BY <1>3, DivNat
  <2>3. 2 * j <= m => 2 * j \in 1..m
      BY <2>1, <2>2
  <2> QED
      BY <1>6, <2>1, <2>3
<1>8. x = <<L[k - 1][2 * j - 1], L[k - 1][g]>>
    BY <1>4, <1>5, <1>6
<1>9. /\ L[k - 1][2 * j - 1] \in Algorithms!Range(L[k - 1])
      /\ L[k - 1][g] \in Algorithms!Range(L[k - 1])
    BY <1>3, <1>7 DEF Algorithms!Range
<1> QED
    BY <1>8, <1>9 DEF L

\* So a leaf is on the lowest level only, and a pair only above nodes of its own.
LEMMA LeafIsLowest ==
    ASSUME LeavesAreNoPairs, NEW b, NEW n, IsBlock(b, n), NEW k \in 0..n,
           NEW x \in Txs \cup {Foreign}, x \in Algorithms!Range(Algorithms!Levels(b)[k])
    PROVE  k = 0 /\ x \in Algorithms!Range(b)
<1>1. n \in Nat /\ IsLevel(b, n)
    BY DEF IsBlock, IsLevel
<1>2. k \notin 1..n
    BY NodeIsPair DEF LeavesAreNoPairs
<1>3. k = 0
    BY <1>1, <1>2
<1>4. Algorithms!Levels(b)[0] = b
    BY <1>1, LevelsShrink
<1> QED
    BY <1>3, <1>4

\* Without one, a pair in a level was put together from two nodes of the level
\* below it.
LEMMA PairIsAbove ==
    ASSUME LeavesAreNoPairs, NEW b, NEW n, IsBlock(b, n), NoShort(b), NEW k \in 0..n, NEW x, NEW y,
           <<x, y>> \in Algorithms!Range(Algorithms!Levels(b)[k])
    PROVE  /\ k \in 1..n
           /\ x \in Algorithms!Range(Algorithms!Levels(b)[k - 1])
           /\ y \in Algorithms!Range(Algorithms!Levels(b)[k - 1])
<1>1. n \in Nat /\ IsLevel(b, n) /\ DOMAIN b = 1..n
    BY DEF IsBlock, IsLevel
<1>2. Algorithms!Levels(b)[0] = b
    BY <1>1, LevelsShrink
<1>3. k # 0
  <2> SUFFICES ASSUME k = 0 PROVE FALSE
      OBVIOUS
  <2>1. <<x, y>> \in Algorithms!Range(b)
      BY <1>2
  <2>2. PICK q \in 1..n : <<x, y>> = b[q]
      BY <1>1, <2>1 DEF Algorithms!Range
  <2> QED
      BY <2>1, <2>2 DEF IsBlock, NoShort, LeavesAreNoPairs
<1>4. k \in 1..n
    BY <1>1, <1>3
<1>5. PICK l, r \in Algorithms!Range(Algorithms!Levels(b)[k - 1]) : <<x, y>> = <<l, r>>
    BY <1>4, NodeIsPair
<1>6. x = l /\ y = r
    BY <1>5
<1> QED
    BY <1>4, <1>5, <1>6

\* Hashing the node an honest proof stands on with the sibling it names gives the
\* node above.
LEMMA SiblingsLeadUp ==
    ASSUME NEW b, NEW n, IsBlock(b, n), NEW q, NEW k \in 0..(Algorithms!Depth(b) - 1),
           NEW at \in Nat, at = Algorithms!Ancestors(b, q)[k],
           at < Len(Algorithms!Levels(b)[k])
    PROVE  LET low == Algorithms!Levels(b)[k]
               up == Algorithms!Levels(b)[k + 1]
               sibling == Algorithms!Siblings(b, q)[k + 1]
               half == Algorithms!Ancestors(b, q)[k + 1]
           IN  /\ half = at \div 2 /\ half \in Nat /\ half < Len(up)
               /\ up[half + 1] = IF at % 2 = 1 THEN <<sibling, low[at + 1]>>
                                 ELSE <<low[at + 1], sibling>>
<1> DEFINE L == Algorithms!Levels(b)
           A == Algorithms!Ancestors(b, q)
           D == Algorithms!Depth(b)
<1>1. n \in Nat /\ IsLevel(b, n) /\ Len(b) = n
    BY DEF IsBlock, IsLevel
<1>2. D \in 0..n
    BY <1>1, LevelsShrink
<1>3. k \in 0..n /\ k + 1 \in 1..n /\ k + 1 \in 1..D /\ k + 1 \in 0..n
    BY <1>1, <1>2
<1>4. L[k + 1] = Algorithms!LevelAbove(L[k + 1 - 1]) /\ IsLevel(L[k], Len(L[k]))
  <2>1. \A j \in 1..n : L[j] = Algorithms!LevelAbove(L[j - 1])
      BY <1>1, LevelsShrink
  <2>2. \A j \in 0..n : IsLevel(L[j], Len(L[j]))
      BY <1>1, LevelsShrink
  <2> QED
      BY <1>3, <2>1, <2>2
<1>5. k + 1 - 1 = k /\ k + 1 # 0
    BY <1>3
<1>6. A = [j \in 0..n |-> IF j = 0 THEN q ELSE A[j - 1] \div 2]
    BY <1>1, AncestorsHalve DEF Halves
<1> HIDE DEF L, A
<1>7. A[k + 1] = at \div 2
  <2>1. \A j \in 0..n : A[j] = IF j = 0 THEN q ELSE A[j - 1] \div 2
      BY <1>6
  <2>2. A[k + 1] = A[k + 1 - 1] \div 2
      BY <1>3, <1>5, <2>1
  <2> QED
      BY <1>5, <2>2 DEF A
<1>8. PICK m \in Nat \ {0} : m = Len(L[k]) /\ IsLevel(L[k], m)
    BY <1>4 DEF IsLevel
<1>9. PICK s : s = IF at % 2 = 1 THEN at - 1 ELSE at + 1
    OBVIOUS
<1>10. Algorithms!Siblings(b, q)[k + 1] = L[k][(IF s < m THEN s ELSE at) + 1]
  <2>1. Algorithms!Siblings(b, q)[k + 1] =
           LET low == L[k + 1 - 1]
               y == A[k + 1 - 1]
               z == IF y % 2 = 1 THEN y - 1 ELSE y + 1
           IN  low[(IF z < Len(low) THEN z ELSE y) + 1]
      BY <1>3 DEF Algorithms!Siblings, L, A, D
  <2>2. A[k + 1 - 1] = at
      BY <1>5 DEF A
  <2> QED
      BY <1>5, <1>8, <1>9, <2>1, <2>2
<1>11. PICK h \in Nat : /\ h = at \div 2
                        /\ (at % 2 = 1 /\ at = 2 * h + 1) \/ (at % 2 # 1 /\ at = 2 * h)
  <2>1. at \div 2 \in Nat /\ ((at % 2 = 1 /\ at = 2 * (at \div 2) + 1)
                              \/ (at % 2 # 1 /\ at = 2 * (at \div 2)))
      OBVIOUS
  <2> QED
      BY <2>1
<1>12. at < m
    BY <1>8 DEF L
<1>13. PICK w \in Nat : w = (m + 1) \div 2 /\ 2 * w <= m + 1 /\ m + 1 < 2 * w + 2
  <2>1. m + 1 \in Nat
      BY <1>8
  <2> QED
      BY <2>1, DivBounds, DivNat
<1>14. h + 1 \in 1..w
  <2>1. 2 * h < m
    <3>1. at = 2 * h \/ at = 2 * h + 1
        BY <1>11
    <3>2. 2 * h <= at /\ h \in Nat /\ m \in Nat
        BY <1>8, <1>11, <3>1
    <3> HIDE <1>11
    <3> QED
        BY <1>12, <3>2
  <2>2. m + 1 < 2 * w + 2
      BY <1>13
  <2>3. m \in Nat /\ h \in Nat /\ w \in Nat
      BY <1>8, <1>11, <1>13
  <2> HIDE <1>11, <1>13
  <2> QED
      BY <2>1, <2>2, <2>3
<1>15. /\ Len(L[k + 1]) = w
       /\ L[k + 1][h + 1] = <<L[k][2 * (h + 1) - 1],
                              L[k][IF 2 * (h + 1) <= m THEN 2 * (h + 1) ELSE 2 * (h + 1) - 1]>>
  <2>1. L[k + 1] = Algorithms!LevelAbove(L[k])
      BY <1>4, <1>5
  <2> QED
      BY <1>8, <1>13, <1>14, <2>1, AboveIsLevel DEF IsLevel
<1>16. h < Len(L[k + 1])
    BY <1>11, <1>13, <1>14, <1>15
<1>17. L[k + 1][h + 1] = IF at % 2 = 1
                         THEN <<L[k][(IF s < m THEN s ELSE at) + 1], L[k][at + 1]>>
                         ELSE <<L[k][at + 1], L[k][(IF s < m THEN s ELSE at) + 1]>>
  <2>1. CASE at % 2 = 1 /\ at = 2 * h + 1
    <3>1. /\ s = 2 * h /\ s < m /\ 2 * (h + 1) - 1 = s + 1 /\ 2 * (h + 1) = at + 1
          /\ 2 * (h + 1) <= m
        BY <1>8, <1>9, <1>12, <2>1
    <3> QED
        BY <1>15, <2>1, <3>1
  <2>2. CASE at % 2 # 1 /\ at = 2 * h
    <3>1. /\ s = 2 * h + 1 /\ 2 * (h + 1) - 1 = at + 1 /\ 2 * (h + 1) = s + 1
          /\ (2 * (h + 1) <= m <=> s < m)
        BY <1>8, <1>9, <1>12, <2>2
    <3>2. CASE s < m
        BY <1>15, <2>2, <3>1, <3>2
    <3>3. CASE ~(s < m)
        BY <1>15, <2>2, <3>1, <3>3
    <3> QED
        BY <3>2, <3>3
  <2> QED
      BY <1>11, <2>1, <2>2
<1> QED
    BY <1>7, <1>10, <1>11, <1>16, <1>17 DEF L, A

-----------------------------------------------------------------------------
(* verify_merkle_inclusion.                                                 *)

Level(k) == Algorithms!Levels(txs)[k]
Top == Algorithms!Depth(txs)

\* The claim is about a block and a list of siblings.
ClaimRuns ==
    /\ \E n : IsBlock(txs, n)
    /\ Len(proof) \in Nat /\ climbed \in 0..Len(proof)
    /\ result \in {"running", "Ok", "MerkleProofInvalid", "AmbiguousTransactionLength"}

\* A node of the tree that the loop stands on has the transaction below it.
Stands ==
    NoShort(txs) /\ result \in {"running", "Ok"} =>
        /\ txid \in Txs \cup {Foreign}
        /\ \A k \in 0..Top : current \in Algorithms!Range(Level(k)) =>
               climbed <= k /\ txid \in Algorithms!Range(Level(k - climbed))

Honest(q) == txid = txs[q + 1] /\ tx_index = q /\ proof = Algorithms!Siblings(txs, q)

\* An honest proof goes up from ancestor to ancestor.
OnPath ==
    \A q \in 0..(Len(txs) - 1) : Honest(q) =>
        /\ result # "MerkleProofInvalid"
        /\ result = "running" =>
              /\ index = Algorithms!Ancestors(txs, q)[climbed]
              /\ index \in Nat /\ index < Len(Level(climbed))
              /\ current = Level(climbed)[index + 1]

ClaimInv ==
    \/ Algorithms!Idle
    \/ /\ ClaimRuns /\ Stands /\ OnPath
       /\ result = "Ok" => current = Algorithms!merkle_root(txs)

\* The sizes of a block's tree.
LEMMA TreeOfClaim ==
    ASSUME NEW n, IsBlock(txs, n)
    PROVE  /\ n \in Nat \ {0} /\ Len(txs) = n /\ Top \in 0..n
           /\ Level(0) = txs /\ Len(Level(Top)) = 1
           /\ \A k \in 0..n : IsLevel(Level(k), Len(Level(k)))
<1>1. IsLevel(txs, n) /\ n \in Nat \ {0} /\ Len(txs) = n
    BY DEF IsBlock, IsLevel
<1> QED
    BY <1>1, LevelsShrink DEF Level, Top

\* A served path has one sibling per level below the root.
LEMMA SiblingsAreMany ==
    ASSUME NEW n, IsBlock(txs, n), NEW q, Len(proof) \in Nat,
           proof = Algorithms!Siblings(txs, q)
    PROVE  Len(proof) = Top
<1>1. Top \in Nat
    BY TreeOfClaim
<1>2. Len(Algorithms!Siblings(txs, q)) = Top
    BY <1>1 DEF Algorithms!Siblings, Top
<1> QED
    BY <1>2

\* The claim's invariant holds at the start.
LEMMA ClaimStarts ==
    ASSUME Algorithms!Init
    PROVE  ClaimInv
<1>1. PICK n : IsBlock(txs, n)
    BY ListIsBlock DEF Algorithms!Init
<1>2. /\ current = txid /\ index = tx_index /\ climbed = 0
      /\ result = IF Algorithms!length_ok(txid) THEN "running" ELSE "AmbiguousTransactionLength"
      /\ proof \in Algorithms!BoundedSeq(Algorithms!Nodes(txs) \cup {Foreign}, Top + 1)
    BY DEF Algorithms!Init, Top
<1>3. /\ n \in Nat \ {0} /\ Len(txs) = n /\ Top \in 0..n
      /\ Level(0) = txs /\ IsLevel(txs, n)
    BY <1>1, TreeOfClaim DEF IsBlock
<1>4. Len(proof) \in Nat
  <2>1. PICK m \in 0..(Top + 1) : proof \in [1..m -> Algorithms!Nodes(txs) \cup {Foreign}]
      BY <1>2 DEF Algorithms!BoundedSeq, Algorithms!SeqOf
  <2>2. m \in Nat
      BY <1>3
  <2>3. proof \in Seq(Algorithms!Nodes(txs) \cup {Foreign})
      BY <2>1, <2>2
  <2> QED
      BY <2>3, LenProperties
<1>5. ClaimRuns
    BY <1>1, <1>2, <1>4 DEF ClaimRuns
<1>6. Stands
  <2> SUFFICES ASSUME NoShort(txs), result \in {"running", "Ok"}
               PROVE  /\ txid \in Txs \cup {Foreign}
                      /\ \A k \in 0..Top : current \in Algorithms!Range(Level(k)) =>
                             climbed <= k /\ txid \in Algorithms!Range(Level(k - climbed))
      BY DEF Stands
  <2>1. txid \in Txs \cup {Foreign}
      BY <1>2 DEF Algorithms!length_ok, Algorithms!IsInnerNode
  <2>2. \A k \in 0..Top : 0 <= k /\ k - 0 = k
      BY <1>3
  <2> QED
      BY <1>2, <2>1, <2>2
<1>7. OnPath
  <2> SUFFICES ASSUME NEW q \in 0..(Len(txs) - 1), Honest(q)
               PROVE  /\ result # "MerkleProofInvalid"
                      /\ index = Algorithms!Ancestors(txs, q)[0]
                      /\ index \in Nat /\ index < Len(Level(0))
                      /\ current = Level(0)[index + 1]
      BY <1>2 DEF OnPath
  <2>1. q \in 0..(n - 1) /\ q \in Nat /\ q < n
      BY <1>3
  <2>2. Halves(Algorithms!Ancestors(txs, q), q, n)
      BY <1>3, AncestorsHalve
  <2>3. Algorithms!Ancestors(txs, q)[0] = q
    <3>1. PICK A : A = Algorithms!Ancestors(txs, q)
        OBVIOUS
    <3>2. A = [k \in 0..n |-> IF k = 0 THEN q ELSE A[k - 1] \div 2]
        BY <2>2, <3>1 DEF Halves
    <3>3. \A k \in 0..n : A[k] = IF k = 0 THEN q ELSE A[k - 1] \div 2
        BY <3>2
    <3>4. 0 \in 0..n
        BY <1>3
    <3> QED
        BY <3>1, <3>3, <3>4
  <2>4. txid = txs[q + 1] /\ tx_index = q
      BY DEF Honest
  <2> QED
      BY <1>2, <1>3, <2>1, <2>3, <2>4
<1>8. result # "Ok"
    BY <1>2
<1> QED
    BY <1>5, <1>6, <1>7, <1>8 DEF ClaimInv

\* One sibling is hashed.
LEMMA ClaimClimbs ==
    ASSUME LeavesAreNoPairs, ClaimInv, Algorithms!Climb
    PROVE  ClaimInv'
<1>1. /\ result = "running" /\ climbed < Len(proof) /\ climbed' = climbed + 1
      /\ current' = Algorithms!combine(proof[climbed + 1]) /\ index' = index \div 2
      /\ txs' = txs /\ txid' = txid /\ tx_index' = tx_index /\ proof' = proof /\ result' = result
    BY DEF Algorithms!Climb, Algorithms!claim
<1>2. ClaimRuns /\ Stands /\ OnPath
    BY <1>1 DEF ClaimInv, Algorithms!Idle
<1>3. PICK n : IsBlock(txs, n)
    BY <1>2 DEF ClaimRuns
<1>4. /\ n \in Nat \ {0} /\ Len(txs) = n /\ Top \in 0..n
      /\ \A k \in 0..n : IsLevel(Level(k), Len(Level(k)))
    BY <1>3, TreeOfClaim
<1>5. climbed \in Nat /\ Len(proof) \in Nat /\ climbed + 1 \in 0..Len(proof)
    BY <1>1, <1>2 DEF ClaimRuns
<1>6. Top' = Top /\ \A k : Level(k)' = Level(k)
    BY <1>1 DEF Top, Level
<1>7. ClaimRuns'
    BY <1>1, <1>2, <1>5 DEF ClaimRuns
<1>8. PICK s : s = proof[climbed + 1]
    OBVIOUS
<1>9. \/ index % 2 = 1 /\ current' = <<s, current>>
      \/ index % 2 # 1 /\ current' = <<current, s>>
    BY <1>1, <1>8 DEF Algorithms!combine, Algorithms!hash_merkle_pair
<1>10. Stands'
  <2> SUFFICES ASSUME NoShort(txs)
               PROVE  /\ txid' \in Txs \cup {Foreign}
                      /\ \A k \in 0..Top : current' \in Algorithms!Range(Level(k)) =>
                             climbed' <= k /\ txid \in Algorithms!Range(Level(k - climbed'))
    <3>1. NoShort(txs)' => NoShort(txs)
        BY <1>1 DEF NoShort
    <3> QED
        BY <1>1, <1>6, <3>1 DEF Stands
  <2>1. txid' \in Txs \cup {Foreign}
      BY <1>1, <1>2 DEF Stands
  <2>2. ASSUME NEW k \in 0..Top, current' \in Algorithms!Range(Level(k))
        PROVE  climbed' <= k /\ txid \in Algorithms!Range(Level(k - climbed'))
    <3>1. k \in 0..n
        BY <1>4
    <3>2. k \in 1..n /\ current \in Algorithms!Range(Level(k - 1))
        BY <1>3, <1>9, <2>2, <3>1, PairIsAbove DEF Level
    <3>3. k - 1 \in 0..Top
        BY <1>4, <3>2
    <3>4. climbed <= k - 1 /\ txid \in Algorithms!Range(Level(k - 1 - climbed))
        BY <1>1, <1>2, <3>2, <3>3 DEF Stands
    <3>5. k - 1 - climbed = k - climbed' /\ climbed' <= k
        BY <1>1, <1>5, <3>2, <3>4
    <3> QED
        BY <3>4, <3>5
  <2> QED
      BY <2>1, <2>2
<1>11. OnPath'
  <2>1. ASSUME NEW q \in 0..(Len(txs) - 1), Honest(q)
        PROVE  /\ index' = Algorithms!Ancestors(txs, q)[climbed']
               /\ index' \in Nat /\ index' < Len(Level(climbed'))
               /\ current' = Level(climbed')[index' + 1]
    <3>1. /\ index = Algorithms!Ancestors(txs, q)[climbed]
          /\ index \in Nat /\ index < Len(Level(climbed))
          /\ current = Level(climbed)[index + 1]
        BY <1>1, <1>2, <2>1 DEF OnPath
    <3>2. proof = Algorithms!Siblings(txs, q)
        BY <2>1 DEF Honest
    <3>3. Len(proof) = Top
        BY <1>3, <1>5, <3>2, SiblingsAreMany
    <3>4. climbed \in 0..(Algorithms!Depth(txs) - 1)
        BY <1>1, <1>4, <1>5, <3>3 DEF Top
    <3>5. PICK at \in Nat : at = index
        BY <3>1
    <3>6. PICK k \in 0..(Algorithms!Depth(txs) - 1) : k = climbed
        BY <3>4
    <3>7. at = Algorithms!Ancestors(txs, q)[k] /\ at < Len(Algorithms!Levels(txs)[k])
        BY <3>1, <3>5, <3>6 DEF Level
    <3>8. PICK half : half = Algorithms!Ancestors(txs, q)[k + 1]
        OBVIOUS
    <3>9. /\ half = at \div 2 /\ half \in Nat /\ half < Len(Level(k + 1))
          /\ Level(k + 1)[half + 1] = IF at % 2 = 1 THEN <<s, Level(k)[at + 1]>>
                                      ELSE <<Level(k)[at + 1], s>>
        BY <1>3, <1>8, <3>2, <3>6, <3>7, <3>8, SiblingsLeadUp DEF Level
    <3>10. current = Level(k)[at + 1]
        BY <3>1, <3>5, <3>6
    <3>11. current' = Level(k + 1)[half + 1]
        BY <1>9, <3>5, <3>9, <3>10
    <3>12. index' = half /\ climbed' = k + 1
        BY <1>1, <3>5, <3>6, <3>9
    <3> QED
        BY <3>8, <3>9, <3>11, <3>12
  <2>2. \A q : Honest(q)' <=> Honest(q)
      BY <1>1 DEF Honest
  <2>3. result' # "MerkleProofInvalid"
      BY <1>1
  <2> QED
      BY <1>1, <1>6, <2>1, <2>2, <2>3 DEF OnPath
<1> QED
    BY <1>1, <1>7, <1>10, <1>11 DEF ClaimInv

\* The node reached is compared with the root.
LEMMA ClaimCompares ==
    ASSUME ClaimInv, Algorithms!Compare
    PROVE  ClaimInv'
<1>1. /\ result = "running" /\ climbed = Len(proof) /\ climbed' = climbed
      /\ current' = current /\ index' = index
      /\ txs' = txs /\ txid' = txid /\ tx_index' = tx_index /\ proof' = proof
      /\ result' = IF current = Algorithms!merkle_root(txs) THEN "Ok" ELSE "MerkleProofInvalid"
    BY DEF Algorithms!Compare, Algorithms!claim
<1>2. ClaimRuns /\ Stands /\ OnPath
    BY <1>1 DEF ClaimInv, Algorithms!Idle
<1>3. PICK n : IsBlock(txs, n)
    BY <1>2 DEF ClaimRuns
<1>4. Top' = Top /\ (\A k : Level(k)' = Level(k)) /\ (\A q : Honest(q)' <=> Honest(q))
    BY <1>1 DEF Top, Level, Honest
<1>5. ClaimRuns'
    BY <1>1, <1>2 DEF ClaimRuns
<1>6. Stands'
    BY <1>1, <1>2, <1>4 DEF Stands, NoShort
<1>7. ASSUME NEW q \in 0..(Len(txs) - 1), Honest(q)
      PROVE  current = Algorithms!merkle_root(txs)
  <2>1. /\ index \in Nat /\ index < Len(Level(climbed))
        /\ current = Level(climbed)[index + 1]
      BY <1>1, <1>2, <1>7 DEF OnPath
  <2>2. Len(proof) = Top
      BY <1>2, <1>3, <1>7, SiblingsAreMany DEF ClaimRuns, Honest
  <2>3. Len(Level(Top)) = 1
      BY <1>3, TreeOfClaim
  <2>4. index = 0
      BY <1>1, <2>1, <2>2, <2>3
  <2> QED
      BY <1>1, <2>1, <2>2, <2>4 DEF Algorithms!merkle_root, Level, Top
<1>8. OnPath'
  <2>1. result' # "running"
      BY <1>1
  <2>2. \A q \in 0..(Len(txs) - 1) : Honest(q) => result' # "MerkleProofInvalid"
      BY <1>1, <1>7
  <2> QED
      BY <1>1, <1>4, <2>1, <2>2 DEF OnPath
<1>9. result' = "Ok" => current' = Algorithms!merkle_root(txs)'
    BY <1>1 DEF Algorithms!merkle_root, Algorithms!Levels, Algorithms!Depth
<1> QED
    BY <1>5, <1>6, <1>8, <1>9 DEF ClaimInv

\* What the loop ends with is right.
LEMMA ClaimsAreExact ==
    ASSUME LeavesAreNoPairs, ClaimInv
    PROVE  Algorithms!AcceptedIsInBlock /\ Algorithms!GenuineProofAccepted
<1>1. CASE Algorithms!Idle
  <2>1. result = "MerkleProofInvalid" /\ txs = << >>
      BY <1>1 DEF Algorithms!Idle
  <2>2. \A q \in 0..(Len(txs) - 1) : FALSE
      BY <2>1
  <2> QED
      BY <2>1, <2>2 DEF Algorithms!AcceptedIsInBlock, Algorithms!GenuineProofAccepted
<1>2. CASE /\ ClaimRuns /\ Stands /\ OnPath
           /\ result = "Ok" => current = Algorithms!merkle_root(txs)
  <2>1. PICK n : IsBlock(txs, n)
      BY <1>2 DEF ClaimRuns
  <2>2. /\ n \in Nat \ {0} /\ Top \in 0..n /\ Len(Level(Top)) = 1
        /\ \A k \in 0..n : IsLevel(Level(k), Len(Level(k)))
      BY <2>1, TreeOfClaim
  <2>3. ASSUME result = "Ok", NoShort(txs) PROVE txid \in Algorithms!Range(txs)
    <3>1. current = Level(Top)[1] /\ txid \in Txs \cup {Foreign}
        BY <1>2, <2>3 DEF Algorithms!merkle_root, Level, Top, Stands
    <3>2. DOMAIN Level(Top) = 1..1
        BY <2>2 DEF IsLevel
    <3>3. current \in Algorithms!Range(Level(Top))
        BY <3>1, <3>2 DEF Algorithms!Range
    <3>4. Top \in 0..Top
        BY <2>2
    <3>5. climbed <= Top /\ txid \in Algorithms!Range(Level(Top - climbed)) /\ climbed \in Nat
        BY <1>2, <2>3, <3>3, <3>4 DEF Stands, ClaimRuns
    <3>6. Top - climbed \in 0..n
        BY <2>2, <3>5
    <3> QED
        BY <2>1, <3>1, <3>5, <3>6, LeafIsLowest DEF Level
  <2>4. Algorithms!GenuineProofAccepted
      BY <1>2 DEF OnPath, Honest, Algorithms!GenuineProofAccepted
  <2> QED
      BY <2>3, <2>4 DEF Algorithms!AcceptedIsInBlock, NoShort
<1> QED
    BY <1>1, <1>2 DEF ClaimInv

\* One step of the algorithms' component, whichever it is.
LEMMA ClaimStep ==
    ASSUME LeavesAreNoPairs, ClaimInv, Algorithms!MCNext
    PROVE  ClaimInv'
<1>1. CASE Algorithms!Next
    BY <1>1, ClaimClimbs, ClaimCompares DEF Algorithms!Next
<1>2. CASE Algorithms!Retarget
  <2>1. Algorithms!Idle /\ UNCHANGED Algorithms!vars
      BY <1>2 DEF Algorithms!Retarget
  <2>2. Algorithms!Idle'
      BY <2>1 DEF Algorithms!Idle, Algorithms!vars, Algorithms!claim
  <2> QED
      BY <2>2 DEF ClaimInv
<1> QED
    BY <1>1, <1>2 DEF Algorithms!MCNext

MCClaimInv == part = "algorithms" => ClaimInv

\* Merkle, verify_transaction and verify_merkle_inclusion: whatever siblings and
\* index a caller sends for a block of any size that holds no transaction of 64
\* bytes, an accepted txid is one of its transactions; and every honest proof,
\* for any block, is accepted.
THEOREM InclusionStaysExact ==
    ASSUME LeavesAreNoPairs
    PROVE  MCSpec => []InclusionIsExact
<1>1. MCInit => MCClaimInv
    BY ClaimStarts DEF MCInit, MCClaimInv, Algorithms!MCInit, ClaimInv, NoAlgorithms
<1>2. MCClaimInv /\ [MCNext]_all => MCClaimInv'
  <2> SUFFICES ASSUME MCClaimInv, [MCNext]_all, part' = "algorithms" PROVE ClaimInv'
      BY DEF MCClaimInv
  <2>1. CASE SpvNext
      BY <2>1 DEF SpvNext
  <2>2. CASE AlgorithmsNext
      BY <2>2, ClaimStep DEF AlgorithmsNext, MCClaimInv
  <2>3. CASE ProofNext
      BY <2>3 DEF ProofNext
  <2>4. CASE UNCHANGED all
    <3>1. /\ part' = part /\ txs' = txs /\ txid' = txid /\ tx_index' = tx_index
          /\ proof' = proof /\ current' = current /\ index' = index /\ climbed' = climbed
          /\ result' = result
        BY <2>4 DEF all, algorithmsVars
    <3>2. ClaimInv
        BY <3>1 DEF MCClaimInv
    <3>3. (ClaimRuns' <=> ClaimRuns) /\ (Stands' <=> Stands) /\ (OnPath' <=> OnPath)
        BY <3>1 DEF ClaimRuns, Stands, NoShort, OnPath, Honest, Level, Top
    <3>4. (Algorithms!Idle' <=> Algorithms!Idle)
          /\ Algorithms!merkle_root(txs)' = Algorithms!merkle_root(txs)
        BY <3>1 DEF Algorithms!Idle, Algorithms!merkle_root
    <3> QED
        BY <3>1, <3>2, <3>3, <3>4 DEF ClaimInv
  <2> QED
      BY <2>1, <2>2, <2>3, <2>4 DEF MCNext
<1>3. MCClaimInv => InclusionIsExact
    BY ClaimsAreExact DEF MCClaimInv, InclusionIsExact
<1> QED
    BY <1>1, <1>2, <1>3, PTL DEF MCSpec

-----------------------------------------------------------------------------
(* Powers of the base.                                                      *)

Power(n) == Algorithms!POWER[n]

PowersTo(f, m) == f = [n \in 0..m |-> IF n = 0 THEN 1 ELSE BASE * f[n - 1]]

\* Powers can be counted up to any exponent.
LEMMA PowersToExist ==
    ASSUME NEW n \in Nat
    PROVE  \E f : PowersTo(f, n)
<1> DEFINE S == {m \in Nat : \E f : PowersTo(f, m)}
<1>1. 0 \in S
  <2>1. PICK f : f = [k \in 0..0 |-> 1]
      OBVIOUS
  <2>2. PowersTo(f, 0)
      BY <2>1 DEF PowersTo
  <2> QED
      BY <2>2
<1>2. ASSUME NEW m \in S PROVE m + 1 \in S
  <2>1. PICK f : PowersTo(f, m)
      OBVIOUS
  <2>2. PICK x : x = BASE * f[m]
      OBVIOUS
  <2>3. PICK g : g = [k \in 0..(m + 1) |-> IF k = m + 1 THEN x ELSE f[k]]
      OBVIOUS
  <2>4. ASSUME NEW k \in 0..(m + 1)
        PROVE  g[k] = IF k = 0 THEN 1 ELSE BASE * g[k - 1]
    <3>1. CASE k = m + 1
      <4>1. g[k] = x /\ g[k - 1] = f[m] /\ k # 0
          BY <2>3, <3>1
      <4> QED
          BY <2>2, <4>1
    <3>2. CASE k \in 0..m
      <4>1. g[k] = f[k] /\ (k # 0 => g[k - 1] = f[k - 1])
          BY <2>3, <3>2
      <4>2. f[k] = IF k = 0 THEN 1 ELSE BASE * f[k - 1]
          BY <2>1, <3>2 DEF PowersTo
      <4> QED
          BY <4>1, <4>2
    <3> QED
        BY <3>1, <3>2
  <2>5. PowersTo(g, m + 1)
      BY <2>3, <2>4 DEF PowersTo
  <2> QED
      BY <2>5
<1> HIDE DEF S
<1>3. S \in SUBSET Nat
    BY DEF S
<1>4. S = Nat
    BY <1>1, <1>2, <1>3, InSteps
<1> QED
    BY <1>4 DEF S

\* Counting on changes no power counted already.
LEMMA PowersToAgree ==
    ASSUME NEW m \in Nat, NEW k \in Nat, k <= m, NEW f, PowersTo(f, k), NEW g, PowersTo(g, m)
    PROVE  \A n \in 0..k : f[n] = g[n]
<1> DEFINE S == {n \in 0..k : f[n] = g[n]}
<1>1. /\ \A n \in 0..k : f[n] = IF n = 0 THEN 1 ELSE BASE * f[n - 1]
      /\ \A n \in 0..m : g[n] = IF n = 0 THEN 1 ELSE BASE * g[n - 1]
    BY DEF PowersTo
<1>2. 0 \in S
    BY <1>1
<1>3. ASSUME NEW n \in 0..(k - 1), n \in S PROVE n + 1 \in S
  <2>1. n + 1 \in 0..k /\ n + 1 \in 0..m /\ n + 1 # 0 /\ n + 1 - 1 = n
      OBVIOUS
  <2>2. f[n + 1] = BASE * f[n] /\ g[n + 1] = BASE * g[n]
      BY <1>1, <2>1
  <2> QED
      BY <1>3, <2>1, <2>2
<1> HIDE DEF S
<1>4. \A n \in 0..k : n \in S
    BY <1>2, <1>3, Upward
<1> QED
    BY <1>4 DEF S

\* POWER is what its definition says.
LEMMA PowerSteps ==
    Power(0) = 1 /\ \A n \in Nat : Power(n + 1) = BASE * Power(n)
<1> DEFINE Defines(g) == g = [n \in Nat |-> IF n = 0 THEN 1 ELSE BASE * g[n - 1]]
<1>1. PICK h : h = [n \in Nat |-> CHOOSE f : PowersTo(f, n)]
    OBVIOUS
<1>2. \A n \in Nat : PowersTo(h[n], n)
    BY <1>1, PowersToExist
<1>3. PICK g : g = [n \in Nat |-> h[n][n]]
    OBVIOUS
<1>4. ASSUME NEW n \in Nat
      PROVE  g[n] = IF n = 0 THEN 1 ELSE BASE * g[n - 1]
  <2>1. n \in 0..n /\ h[n][n] = IF n = 0 THEN 1 ELSE BASE * h[n][n - 1]
    <3>1. PICK f : f = h[n] /\ f = [k \in 0..n |-> IF k = 0 THEN 1 ELSE BASE * f[k - 1]]
        BY <1>2 DEF PowersTo
    <3>2. \A k \in 0..n : f[k] = IF k = 0 THEN 1 ELSE BASE * f[k - 1]
        BY <3>1
    <3>3. n \in 0..n
        OBVIOUS
    <3> QED
        BY <3>1, <3>2, <3>3
  <2>2. CASE n = 0
      BY <1>3, <2>1, <2>2
  <2>3. CASE n # 0
    <3>1. n - 1 \in Nat /\ n - 1 <= n /\ n - 1 \in 0..(n - 1)
        BY <2>3
    <3>2. h[n - 1][n - 1] = h[n][n - 1]
        BY <1>2, <3>1, PowersToAgree
    <3> QED
        BY <1>3, <2>1, <2>3, <3>1, <3>2
  <2> QED
      BY <2>2, <2>3
<1>5. Defines(g)
    BY <1>3, <1>4
<1>6. Algorithms!POWER = CHOOSE f : Defines(f)
    BY DEF Algorithms!POWER
<1>7. Defines(Algorithms!POWER)
    BY <1>5, <1>6
<1>8. PICK p : p = Algorithms!POWER /\ Defines(p)
    BY <1>7
<1>9. \A n \in Nat : p[n] = IF n = 0 THEN 1 ELSE BASE * p[n - 1]
    BY <1>8
<1>10. p[0] = 1
    BY <1>9
<1>11. ASSUME NEW n \in Nat PROVE p[n + 1] = BASE * p[n]
  <2>1. n + 1 \in Nat /\ n + 1 # 0 /\ n + 1 - 1 = n
      OBVIOUS
  <2> QED
      BY <1>9, <2>1
<1> QED
    BY <1>8, <1>10, <1>11 DEF Power

\* A power is a positive number.
LEMMA PowerIsNat ==
    \A n \in Nat : Power(n) \in Nat \ {0}
<1> DEFINE S == {n \in Nat : Power(n) \in Nat \ {0}}
<1>1. 0 \in S
    BY PowerSteps
<1>2. ASSUME NEW n \in S PROVE n + 1 \in S
  <2>1. PICK x \in Nat \ {0} : x = Power(n)
      OBVIOUS
  <2>2. Power(n + 1) = BASE * x
      BY <2>1, PowerSteps
  <2>3. BASE * x \in Nat \ {0}
      BY DifficultyAssumption
  <2> QED
      BY <2>2, <2>3
<1> HIDE DEF S
<1>3. S \in SUBSET Nat
    BY DEF S
<1>4. S = Nat
    BY <1>1, <1>2, <1>3, InSteps
<1> QED
    BY <1>4 DEF S

\* Exponents add up.
LEMMA PowerAdds ==
    ASSUME NEW a \in Nat, NEW n \in Nat
    PROVE  Power(a + n) = Power(a) * Power(n)
<1> DEFINE S == {k \in Nat : Power(a + k) = Power(a) * Power(k)}
<1>1. 0 \in S
    BY PowerSteps, PowerIsNat
<1>2. ASSUME NEW k \in S PROVE k + 1 \in S
  <2>1. PICK x \in Nat, y \in Nat, z \in Nat :
            x = Power(a) /\ y = Power(k) /\ z = Power(a + k) /\ z = x * y
      BY PowerIsNat
  <2>2. a + (k + 1) = (a + k) + 1 /\ a + k \in Nat
      OBVIOUS
  <2>3. Power(a + (k + 1)) = BASE * z /\ Power(k + 1) = BASE * y
      BY <2>1, <2>2, PowerSteps
  <2>4. BASE \in Nat
      BY DifficultyAssumption
  <2>5. BASE * z = x * (BASE * y)
      BY <2>1, <2>4
  <2> QED
      BY <2>1, <2>3, <2>5
<1> HIDE DEF S
<1>3. S \in SUBSET Nat
    BY DEF S
<1>4. S = Nat
    BY <1>1, <1>2, <1>3, InSteps
<1> QED
    BY <1>4 DEF S

\* A power grows with its exponent.
LEMMA PowerGrows ==
    ASSUME NEW a \in Nat, NEW b \in Nat, a <= b
    PROVE  Power(a) <= Power(b)
<1>1. b - a \in Nat /\ a + (b - a) = b
    OBVIOUS
<1>2. PICK x \in Nat \ {0}, y \in Nat \ {0} : x = Power(a) /\ y = Power(b - a)
    BY <1>1, PowerIsNat
<1>3. Power(b) = x * y
    BY <1>1, <1>2, PowerAdds
<1>4. 1 * x <= y * x
    BY <1>2, TimesGrows
<1> QED
    BY <1>2, <1>3, <1>4

-----------------------------------------------------------------------------
(* Compact bits.                                                            *)

Field == Algorithms!FIELD
Sign == Algorithms!SIGN

\* Field is three digits, Sign half of that and a multiple of the base.
LEMMA FieldIs ==
    /\ BASE \in Nat \ {0} /\ BASE >= 2 /\ DIGITS \in Nat /\ DIGITS >= 3
    /\ Power(1) = BASE /\ Power(2) = BASE * BASE /\ Power(3) = Field
    /\ Field \in Nat \ {0} /\ Sign \in Nat \ {0} /\ Field = 2 * Sign
    /\ Power(2) <= Sign
    /\ \E half \in Nat : Sign = BASE * half
<1>1. PICK h \in Nat \ {0} : BASE = 2 * h
  <2>1. BASE \in Nat /\ BASE > 1 /\ BASE % 2 = 0
      BY DifficultyAssumption
  <2>2. BASE = 2 * (BASE \div 2) /\ BASE \div 2 \in Nat
      BY <2>1
  <2>3. BASE \div 2 # 0
      BY <2>1, <2>2
  <2> QED
      BY <2>2, <2>3
<1>2. Power(1) = BASE
  <2>1. Power(0 + 1) = BASE * Power(0) /\ Power(0) = 1
      BY PowerSteps
  <2> QED
      BY <1>1, <2>1
<1>3. Power(2) = BASE * BASE
  <2>1. Power(1 + 1) = BASE * Power(1)
      BY PowerSteps
  <2> QED
      BY <1>2, <2>1
<1>4. Power(3) = BASE * (BASE * BASE)
  <2>1. Power(2 + 1) = BASE * Power(2)
      BY PowerSteps
  <2> QED
      BY <1>3, <2>1
<1>5. Power(3) = Field
    BY DEF Power, Algorithms!FIELD, Field
<1>6. PICK q \in Nat \ {0} : q = BASE * BASE
    BY <1>1
<1>7. Field = 2 * (h * q)
    BY <1>1, <1>4, <1>5, <1>6
<1>8. PICK s \in Nat \ {0} : s = h * q
    BY <1>1, <1>6
<1>9. Sign = s
  <2>1. Sign = (s * 2) \div 2
      BY <1>7, <1>8 DEF Sign, Field, Algorithms!SIGN
  <2> QED
      BY <2>1, DivOfTimes
<1>10. 1 * q <= h * q
    BY <1>1, <1>6, TimesGrows
<1>11. s = BASE * (h * BASE)
    BY <1>1, <1>6, <1>8
<1>12. BASE \in Nat \ {0} /\ BASE >= 2 /\ DIGITS \in Nat /\ DIGITS >= 3
    BY DifficultyAssumption
<1>13. Field = 2 * s /\ Field \in Nat \ {0}
    BY <1>7, <1>8
<1>14. h * BASE \in Nat
    BY <1>1
<1> QED
    BY <1>2, <1>3, <1>5, <1>6, <1>8, <1>9, <1>10, <1>11, <1>12, <1>13, <1>14

Overflows(e, m) ==
    \/ e > DIGITS + 2
    \/ m > BASE - 1 /\ e > DIGITS + 1
    \/ m > BASE * BASE - 1 /\ e > DIGITS

\* What an exponent and a mantissa stand for.
Stood(e, m) == (m * Power(e)) \div Power(3)

\* Shifting the mantissa up or down by the digits the exponent is away from three.
LEMMA ShiftIs ==
    ASSUME NEW e \in Nat, NEW m \in Nat
    PROVE  /\ e <= 3 => Stood(e, m) = m \div Algorithms!POWER[3 - e]
           /\ e > 3 => Stood(e, m) = m * Algorithms!POWER[e - 3]
           /\ e >= 3 => m * Power(e) = Stood(e, m) * Power(3)
<1>1. CASE e <= 3
  <2>1. 3 - e \in Nat /\ (3 - e) + e = 3
      BY <1>1
  <2>2. PICK x \in Nat \ {0}, y \in Nat \ {0} : x = Power(3 - e) /\ y = Power(e)
      BY <2>1, PowerIsNat
  <2>3. Power(3) = x * y
      BY <2>1, <2>2, PowerAdds
  <2>4. (m * y) \div (x * y) = m \div x
      BY DivCancels
  <2> QED
    <3>1. Stood(e, m) = m \div Algorithms!POWER[3 - e]
        BY <2>2, <2>3, <2>4 DEF Stood, Power
    <3>2. e >= 3 => m * Power(e) = Stood(e, m) * Power(3)
      <4> SUFFICES ASSUME e = 3 PROVE m * Power(3) = Stood(3, m) * Power(3)
          BY <1>1
      <4>1. PICK z \in Nat \ {0} : z = Power(3)
          BY PowerIsNat
      <4>2. (m * z) \div z = m
          BY DivOfTimes
      <4> QED
          BY <4>1, <4>2 DEF Stood
    <3> QED
        BY <1>1, <3>1, <3>2
<1>2. CASE e > 3
  <2>1. e - 3 \in Nat /\ (e - 3) + 3 = e
      BY <1>2
  <2>2. PICK x \in Nat \ {0}, y \in Nat \ {0} : x = Power(e - 3) /\ y = Power(3)
      BY <2>1, PowerIsNat
  <2>3. Power(e) = x * y
      BY <2>1, <2>2, PowerAdds
  <2>4. m * (x * y) = (m * x) * y /\ m * x \in Nat
      BY <2>2
  <2>5. ((m * x) * y) \div y = m * x
      BY <2>2, <2>4, DivOfTimes
  <2> QED
      BY <1>2, <2>2, <2>3, <2>4, <2>5 DEF Stood, Power
<1> QED
    BY <1>1, <1>2

\* Any bits split into an exponent and a mantissa.
LEMMA DecodingIs ==
    ASSUME NEW b \in Nat, Algorithms!bits_to_target(b) # Algorithms!InvalidDifficultyBits
    PROVE  \E e \in Nat, m \in 0..(Sign - 1) : Algorithms!bits_to_target(b) = Stood(e, m)
<1>1. PICK e \in Nat : e = b \div Field
    BY FieldIs, DivNat
<1>2. PICK m \in 0..(Sign - 1) : m = b % Sign
    BY FieldIs
<1>3. CASE m = 0
  <2>1. Algorithms!bits_to_target(b) = 0
      BY <1>2, <1>3 DEF Algorithms!bits_to_target, Sign
  <2>2. PICK x \in Nat \ {0}, y \in Nat \ {0} : x = Power(e) /\ y = Power(3)
      BY PowerIsNat
  <2>3. 0 * x = 0 * y /\ (0 * y) \div y = 0
      BY <2>2, DivOfTimes
  <2>4. Stood(e, m) = 0
      BY <1>3, <2>2, <2>3 DEF Stood
  <2> QED
      BY <2>1, <2>4
<1>4. CASE m # 0
  <2>1. Algorithms!bits_to_target(b) = IF e <= 3 THEN m \div Algorithms!POWER[3 - e]
                                       ELSE m * Algorithms!POWER[e - 3]
      BY <1>1, <1>2, <1>4 DEF Algorithms!bits_to_target, Sign, Field
  <2>2. m \in Nat
      BY FieldIs
  <2> QED
      BY <2>1, <2>2, ShiftIs
<1> QED
    BY <1>3, <1>4

\* Bits put together decode to what they were put together from.
LEMMA CompactDecodes ==
    ASSUME NEW e \in Nat, NEW m \in 1..(Sign - 1), ~Overflows(e, m)
    PROVE  /\ e * Field + m \in Nat
           /\ Algorithms!bits_to_target(e * Field + m) = Stood(e, m)
<1>1. PICK s \in Nat \ {0} : s = Sign /\ Field = 2 * s
    BY FieldIs
<1>2. m \in Nat /\ m < s /\ m # 0
    BY <1>1
<1>3. PICK b \in Nat : b = e * Field + m
    BY <1>1, <1>2
<1>4. PICK x \in Nat : x = e * s
    BY <1>1
<1>5. b = 2 * x + m /\ b = s * (2 * e) + m /\ b = Field * e + m
    BY <1>1, <1>2, <1>3, <1>4
<1>6. b \div Field = e
  <2>1. Field * e <= b /\ b < Field * e + Field
    <3>1. Field * e \in Nat
        BY <1>1
    <3> QED
        BY <1>1, <1>2, <1>5, <3>1
  <2> QED
      BY <1>1, <2>1, DivIs
<1>7. b \div s = 2 * e
  <2>1. s * (2 * e) <= b /\ b < s * (2 * e) + s
    <3>1. s * (2 * e) \in Nat
        OBVIOUS
    <3> QED
        BY <1>1, <1>2, <1>5, <3>1
  <2>2. 2 * e \in Nat
      OBVIOUS
  <2> QED
      BY <2>1, <2>2, DivIs
<1>8. b % s = m
  <2>1. b % s = b - s * (b \div s)
      BY Z3
  <2>2. s * (2 * e) \in Nat
      OBVIOUS
  <2> QED
      BY <1>2, <1>5, <1>7, <2>1, <2>2
<1>9. (2 * e) % 2 = 0
    OBVIOUS
<1>10. Algorithms!bits_to_target(b) = IF e <= 3 THEN m \div Algorithms!POWER[3 - e]
                                      ELSE m * Algorithms!POWER[e - 3]
  <2>1. /\ b \div Algorithms!FIELD = e /\ b % Algorithms!SIGN = m
        /\ ~((b \div Algorithms!SIGN) % 2 = 1)
      BY <1>1, <1>6, <1>7, <1>8, <1>9 DEF Field, Sign
  <2> QED
      BY <1>2, <2>1 DEF Algorithms!bits_to_target, Overflows
<1> QED
    BY <1>2, <1>3, <1>10, ShiftIs

\* The compact bits with exponent e of target t, and what they stand for.
Leading(t, e) == (t * Power(3)) \div Power(e)

\* The leading digits of a target stand for a target no larger, and no more digits do.
LEMMA LeadingFits ==
    ASSUME NEW t \in Nat, NEW e \in Nat
    PROVE  /\ Leading(t, e) \in Nat /\ Leading(t, e) * Power(e) <= t * Power(3)
           /\ Stood(e, Leading(t, e)) \in Nat /\ Stood(e, Leading(t, e)) <= t
           /\ \A k \in Nat : k * Power(e) <= t * Power(3) => k <= Leading(t, e)
           /\ e <= 3 => Stood(e, Leading(t, e)) = t
<1>1. PICK x \in Nat \ {0}, y \in Nat \ {0} : x = Power(e) /\ y = Power(3)
    BY PowerIsNat
<1>2. PICK v \in Nat : v = t * y
    BY <1>1
<1>3. PICK m \in Nat : m = v \div x /\ x * m <= v
  <2>1. v \div x \in Nat
      BY DivNat
  <2>2. x * (v \div x) <= v
      BY DivBounds
  <2> QED
      BY <2>1, <2>2
<1>4. Leading(t, e) = m /\ m * x = x * m
    BY <1>1, <1>2, <1>3 DEF Leading
<1>5. Stood(e, m) = (m * x) \div y
    BY <1>1 DEF Stood
<1>6. (m * x) \div y \in Nat /\ (m * x) \div y <= t
  <2>1. m * x \in Nat /\ (m * x) \div y <= v \div y
      BY <1>1, <1>3, <1>4, DivGrows
  <2>2. v \div y = t
      BY <1>1, <1>2, DivOfTimes
  <2>3. (m * x) \div y \in Nat
      BY <2>1, DivNat
  <2> QED
      BY <2>1, <2>2, <2>3
<1>7. ASSUME NEW k \in Nat, k * x <= v PROVE k <= m
  <2>1. x * k <= v
      BY <1>7
  <2> QED
      BY <1>1, <1>3, <2>1, DivLargest
<1>8. e <= 3 => Stood(e, m) = t
  <2> SUFFICES ASSUME e <= 3 PROVE Stood(e, m) = t
      OBVIOUS
  <2>1. 3 - e \in Nat /\ (3 - e) + e = 3
      OBVIOUS
  <2>2. PICK z \in Nat \ {0} : z = Power(3 - e) /\ y = z * x
      BY <1>1, <2>1, PowerIsNat, PowerAdds
  <2>3. v = (t * z) * x /\ t * z \in Nat
      BY <1>2, <2>2
  <2>4. m = t * z
      BY <1>1, <1>3, <2>3, DivOfTimes
  <2>5. m * x = v
      BY <2>3, <2>4
  <2> QED
      BY <1>1, <1>2, <1>5, <2>5, DivOfTimes
<1> QED
    BY <1>1, <1>2, <1>3, <1>4, <1>5, <1>6, <1>7, <1>8

\* No representable target lies between, when the mantissa keeps enough digits.
LEMMA NoneBetween ==
    ASSUME NEW t \in Nat, NEW e \in Nat \ {0}, Sign * Power(e - 1) <= Leading(t, e) * Power(e),
           NEW f \in Nat, NEW k \in 0..(Sign - 1), Stood(f, k) <= t
    PROVE  Stood(f, k) <= Stood(e, Leading(t, e))
<1>1. PICK m \in Nat : m = Leading(t, e)
    BY LeadingFits
<1>2. PICK x \in Nat \ {0}, y \in Nat \ {0}, z \in Nat \ {0} :
          x = Power(e) /\ y = Power(3) /\ z = Power(f)
    BY PowerIsNat
<1>3. k \in Nat /\ Sign \in Nat /\ k <= Sign /\ k * z \in Nat /\ m * x \in Nat
    BY <1>1, <1>2, FieldIs
<1>4. SUFFICES k * z <= m * x \/ e <= 3
  <2>1. CASE k * z <= m * x
      BY <1>1, <1>2, <1>3, <2>1, DivGrows DEF Stood
  <2>2. CASE e <= 3
      BY <2>2, LeadingFits
  <2> QED
      BY <1>4, <2>1, <2>2
<1>5. CASE f < e
  <2>1. e - 1 \in Nat /\ f <= e - 1
      BY <1>5
  <2>2. PICK w \in Nat \ {0} : w = Power(e - 1) /\ z <= w
      BY <1>2, <2>1, PowerGrows, PowerIsNat
  <2>3. z * k <= w * k /\ k * w <= Sign * w
      BY <1>3, <2>2, TimesGrows
  <2>4. z * k = k * z /\ w * k = k * w
      BY <1>3, <2>2
  <2>5. Sign * w <= m * x /\ k * w \in Nat /\ Sign * w \in Nat
      BY <1>1, <1>2, <1>3, <2>2
  <2> QED
      BY <1>3, <2>3, <2>4, <2>5
<1>6. CASE f >= e /\ e > 3
  <2>1. f - e \in Nat /\ (f - e) + e = f /\ f >= 3
      BY <1>6
  <2>2. PICK w \in Nat \ {0} : w = Power(f - e) /\ z = w * x
    <3>1. Power((f - e) + e) = Power(f - e) * Power(e)
        BY <2>1, PowerAdds
    <3>2. Power(f - e) \in Nat \ {0}
        BY <2>1, PowerIsNat
    <3> QED
        BY <1>2, <2>1, <3>1, <3>2
  <2>3. PICK r \in Nat : r = Stood(f, k)
      BY <1>2, <1>3, DivNat DEF Stood
  <2>4. k * z = r * y
      BY <1>2, <1>3, <2>1, <2>3, ShiftIs
  <2>5. r * y <= t * y
      BY <1>2, <2>3, TimesGrows
  <2>6. PICK n \in Nat : n = k * w /\ n * x = k * z
      BY <1>2, <1>3, <2>2
  <2>7. n <= m
      BY <1>1, <1>2, <2>4, <2>5, <2>6, LeadingFits
  <2>8. n * x <= m * x
      BY <1>2, <2>6, <2>7, TimesGrows
  <2> QED
      BY <2>6, <2>8
<1> QED
    BY <1>5, <1>6

\* A digit count that is just enough for the target.
Counts(size, t) == size \in 1..DIGITS /\ Power(size - 1) <= t /\ t < Power(size)

\* digit_count finds the number of digits of every target that is not 0.
LEMMA DigitsCount ==
    ASSUME NEW t \in 1..Algorithms!U256_MAX
    PROVE  Counts(Algorithms!digit_count(t), t)
<1> DEFINE S == {n \in 0..DIGITS : t < Algorithms!POWER[n]}
<1>1. DIGITS \in Nat
    BY FieldIs
<1>2. PICK x \in Nat \ {0} : x = Power(DIGITS)
    BY <1>1, PowerIsNat
<1>3. t \in Nat /\ t # 0 /\ t < Power(DIGITS)
  <2>1. Algorithms!U256_MAX = x - 1
      BY <1>2 DEF Algorithms!U256_MAX, Power
  <2> QED
      BY <1>2, <2>1
<1>4. S \in SUBSET Nat /\ DIGITS \in S
    BY <1>1, <1>3 DEF Power
<1> HIDE DEF S
<1>5. PICK s \in S : \A y \in S : s <= y
    BY <1>4, LeastIs
<1>6. PICK z : z = Algorithms!digit_count(t)
    OBVIOUS
<1>7. z \in S /\ \A y \in S : z <= y
  <2>1. z = CHOOSE a \in S : \A y \in S : a <= y
      BY <1>6 DEF Algorithms!digit_count, Algorithms!Min, S
  <2> QED
      BY <1>5, <2>1
<1>8. z \in 0..DIGITS /\ t < Power(z)
    BY <1>7 DEF S, Power
<1>9. z # 0
    BY <1>3, <1>8, PowerSteps
<1>10. z \in 1..DIGITS /\ z - 1 \in 0..DIGITS /\ z - 1 < z /\ z - 1 \in Nat
    BY <1>1, <1>8, <1>9
<1>11. z - 1 \notin S
    BY <1>7, <1>10
<1>12. ~(t < Power(z - 1))
    BY <1>10, <1>11 DEF S, Power
<1>13. Power(z - 1) <= t
  <2>1. PICK w \in Nat : w = Power(z - 1)
      BY <1>10, PowerIsNat
  <2> QED
      BY <1>3, <1>12, <2>1
<1> QED
    BY <1>6, <1>8, <1>10, <1>13 DEF Counts

\* What compact is: the three leading digits of the target.
LEMMA CompactIs ==
    ASSUME NEW t \in Nat, NEW size, Counts(size, t)
    PROVE  /\ Leading(t, size) = IF size <= 3 THEN t * Algorithms!POWER[3 - size]
                                 ELSE t \div Algorithms!POWER[size - 3]
           /\ Leading(t, size) \in Nat
           /\ Power(2) <= Leading(t, size) /\ Leading(t, size) < Field
           /\ Leading(t, size + 1) = Leading(t, size) \div BASE
<1>1. size \in Nat \ {0} /\ size - 1 \in Nat /\ size + 1 \in Nat /\ BASE \in Nat \ {0}
    BY FieldIs DEF Counts
<1>2. PICK x \in Nat \ {0}, y \in Nat \ {0}, w \in Nat \ {0}, u \in Nat \ {0} :
          x = Power(size) /\ y = Power(3) /\ w = Power(size - 1) /\ u = Power(2)
    BY <1>1, PowerIsNat
<1>3. w <= t /\ t < x
    BY <1>2 DEF Counts
<1>4. x = BASE * w /\ y = BASE * u /\ Power(size + 1) = BASE * x
  <2>1. Power((size - 1) + 1) = BASE * Power(size - 1) /\ (size - 1) + 1 = size
      BY <1>1, PowerSteps
  <2>2. Power(2 + 1) = BASE * Power(2) /\ Power(size + 1) = BASE * Power(size)
      BY <1>1, PowerSteps
  <2> QED
      BY <1>2, <2>1, <2>2
<1>5. PICK m \in Nat : m = Leading(t, size) /\ m = (t * y) \div x /\ m * x <= t * y
    BY <1>1, <1>2, LeadingFits DEF Leading
<1>6. u <= m
  <2>1. w * y <= t * y
      BY <1>2, <1>3, TimesGrows
  <2>2. w * y = u * x
      BY <1>1, <1>2, <1>4
  <2>3. u * Power(size) <= t * Power(3)
      BY <1>2, <2>1, <2>2
  <2>4. \A k \in Nat : k * Power(size) <= t * Power(3) => k <= Leading(t, size)
      BY <1>1, LeadingFits
  <2> QED
      BY <1>2, <1>5, <2>3, <2>4
<1>7. m < y
  <2> SUFFICES ASSUME y <= m PROVE FALSE
      BY <1>2, <1>5
  <2>1. y * x <= m * x
      BY <1>2, <1>5, TimesGrows
  <2>2. (t + 1) * y <= x * y
      BY <1>2, <1>3, TimesGrows
  <2>3. (t + 1) * y = t * y + y /\ x * y = y * x
      BY <1>2
  <2>4. t * y \in Nat /\ y * x \in Nat /\ m * x \in Nat /\ y >= 1
      BY <1>2, <1>5
  <2> QED
      BY <1>5, <2>1, <2>2, <2>3, <2>4
<1>8. m = IF size <= 3 THEN t * Algorithms!POWER[3 - size]
          ELSE t \div Algorithms!POWER[size - 3]
  <2>1. CASE size <= 3
    <3>1. 3 - size \in Nat /\ (3 - size) + size = 3
        BY <1>1, <2>1
    <3>2. PICK z \in Nat \ {0} : z = Power(3 - size) /\ y = z * x
        BY <1>1, <1>2, <3>1, PowerIsNat, PowerAdds
    <3>3. t * y = (t * z) * x /\ t * z \in Nat
        BY <1>2, <3>2
    <3>4. m = t * z
        BY <1>2, <1>5, <3>3, DivOfTimes
    <3> QED
        BY <2>1, <3>2, <3>4 DEF Power
  <2>2. CASE ~(size <= 3)
    <3>1. size - 3 \in Nat /\ (size - 3) + 3 = size
        BY <1>1, <2>2
    <3>2. PICK z \in Nat \ {0} : z = Power(size - 3) /\ x = z * y
        BY <1>2, <3>1, PowerIsNat, PowerAdds
    <3>3. m = t \div z
        BY <1>2, <1>5, <3>2, DivCancels
    <3> QED
        BY <2>2, <3>2, <3>3 DEF Power
  <2> QED
      BY <2>1, <2>2
<1>9. Leading(t, size + 1) = m \div BASE
  <2>1. BASE * x = x * BASE /\ t * y \in Nat
      BY <1>1, <1>2
  <2>2. ((t * y) \div x) \div BASE = (t * y) \div (x * BASE)
      BY <1>1, <1>2, <2>1, DivOfDiv
  <2> QED
      BY <1>2, <1>4, <1>5, <2>1, <2>2 DEF Leading
<1> QED
    BY <1>2, <1>5, <1>6, <1>7, <1>8, <1>9, FieldIs

\* The bits a target is encoded in are its leading digits with an exponent that
\* the format has, and no digit that fits is lost.
Encodes(t, e) ==
    LET m == Leading(t, e)
    IN  /\ m \in 1..(Sign - 1) /\ ~Overflows(e, m)
        /\ Sign * Power(e - 1) <= m * Power(e)

\* target_to_bits puts an exponent that fits before the target's leading digits.
LEMMA EncodingIs ==
    ASSUME NEW t \in 1..Algorithms!U256_MAX
    PROVE  \E e \in 1..(DIGITS + 1) :
              Encodes(t, e) /\ Algorithms!target_to_bits(t) = e * Field + Leading(t, e)
<1>1. PICK size : size = Algorithms!digit_count(t) /\ Counts(size, t)
    BY DigitsCount
<1>2. /\ BASE \in Nat \ {0} /\ BASE >= 2 /\ DIGITS \in Nat /\ Sign \in Nat \ {0}
      /\ Field = 2 * Sign /\ Power(2) <= Sign /\ Power(2) = BASE * BASE /\ Power(3) = Field
    BY FieldIs
<1>3. /\ size \in 1..DIGITS /\ size \in Nat /\ size - 1 \in Nat /\ size + 1 \in Nat
      /\ size + 1 - 1 = size
    BY <1>1, <1>2 DEF Counts
<1>4. t \in Nat /\ t # 0
  <2>1. t \in Int /\ t >= 1
    <3>1. PICK x \in Nat \ {0} : x = Power(DIGITS)
        BY <1>2, PowerIsNat
    <3>2. Algorithms!U256_MAX = x - 1
        BY <3>1 DEF Algorithms!U256_MAX, Power
    <3> QED
        BY <3>2
  <2> QED
      BY <2>1
<1>5. PICK c \in Nat : /\ c = Leading(t, size) /\ Power(2) <= c /\ c < Field
                       /\ c = IF size <= 3 THEN t * Algorithms!POWER[3 - size]
                              ELSE t \div Algorithms!POWER[size - 3]
                       /\ Leading(t, size + 1) = c \div BASE
    BY <1>1, <1>4, CompactIs
<1>6. Algorithms!target_to_bits(t) =
          IF c >= Sign THEN (size + 1) * Field + c \div BASE ELSE size * Field + c
    BY <1>1, <1>4, <1>5 DEF Algorithms!target_to_bits, Sign, Field
<1>7. PICK x \in Nat \ {0}, w \in Nat \ {0}, u \in Nat \ {0} :
          x = Power(size) /\ w = Power(size - 1) /\ u = Power(2)
    BY <1>3, PowerIsNat
<1>8. x = BASE * w /\ Power(size + 1) = BASE * x /\ Field = BASE * u
  <2>1. Power((size - 1) + 1) = BASE * Power(size - 1) /\ (size - 1) + 1 = size
      BY <1>3, PowerSteps
  <2>2. Power(2 + 1) = BASE * Power(2) /\ Power(size + 1) = BASE * Power(size)
      BY <1>3, PowerSteps
  <2> QED
      BY <1>2, <1>7, <2>1, <2>2
<1>9. CASE c < Sign
  <2>1. c \in 1..(Sign - 1)
    <3>1. c >= u
        BY <1>5, <1>7
    <3> QED
        BY <1>2, <1>5, <1>7, <1>9, <3>1
  <2>2. ~Overflows(size, c)
      BY <1>2, <1>3 DEF Overflows
  <2>3. Sign * Power(size - 1) <= c * Power(size)
    <3>1. u * x <= c * x /\ Sign * w <= Field * w
        BY <1>2, <1>5, <1>7, TimesGrows
    <3>2. u * x = Field * w
        BY <1>2, <1>7, <1>8
    <3>3. Sign * w \in Nat /\ u * x \in Nat /\ c * x \in Nat
        BY <1>2, <1>7
    <3> QED
        BY <1>7, <3>1, <3>2, <3>3
  <2>4. Algorithms!target_to_bits(t) = size * Field + c
      BY <1>2, <1>6, <1>9
  <2>5. size \in 1..(DIGITS + 1)
      BY <1>2, <1>3
  <2>6. Encodes(t, size)
      BY <1>5, <2>1, <2>2, <2>3 DEF Encodes
  <2> QED
      BY <1>5, <2>4, <2>5, <2>6
<1>10. CASE c >= Sign
  <2>1. PICK m \in Nat : m = c \div BASE /\ BASE * m <= c
    <3>1. c \div BASE \in Nat
        BY <1>2, DivNat
    <3>2. BASE * (c \div BASE) <= c
        BY <1>2, DivBounds
    <3> QED
        BY <3>1, <3>2
  <2>2. m < u
    <3> SUFFICES ASSUME u <= m PROVE FALSE
        BY <1>7, <2>1
    <3>1. u * BASE <= m * BASE
        BY <1>2, <1>7, <2>1, TimesGrows
    <3>2. u * BASE = Field /\ m * BASE = BASE * m /\ BASE * m \in Nat
        BY <1>2, <1>7, <1>8, <2>1
    <3>3. c \in Nat /\ c < Field /\ Field \in Nat
        BY <1>2, <1>5
    <3> QED
        BY <2>1, <3>1, <3>2, <3>3
  <2>3. PICK half \in Nat : Sign = BASE * half
      BY FieldIs
  <2>4. half <= m
    <3>1. BASE * half <= c
        BY <1>2, <1>5, <1>10, <2>3
    <3> QED
        BY <1>2, <2>1, <3>1, DivLargest
  <2>5. half # 0
      BY <1>2, <2>3
  <2>6. m \in 1..(Sign - 1)
    <3>1. u <= Sign /\ Sign \in Nat
        BY <1>2, <1>7
    <3> QED
        BY <1>7, <2>1, <2>2, <2>4, <2>5, <3>1
  <2>7. ~Overflows(size + 1, m)
    <3>1. ~(m > BASE * BASE - 1)
      <4>1. m < BASE * BASE /\ BASE * BASE \in Nat
          BY <1>2, <1>7, <2>2
      <4> QED
          BY <2>1, <4>1
    <3>2. ~(size + 1 > DIGITS + 1) /\ ~(size + 1 > DIGITS + 2)
        BY <1>2, <1>3
    <3> QED
        BY <3>1, <3>2 DEF Overflows
  <2>8. Sign * Power(size + 1 - 1) <= m * Power(size + 1)
    <3>1. PICK y \in Nat : y = BASE * x
        BY <1>2, <1>7
    <3>2. half * y <= m * y
        BY <2>1, <2>4, <3>1, TimesGrows
    <3>3. half * y = Sign * x
        BY <1>2, <1>7, <2>3, <3>1
    <3> QED
        BY <1>3, <1>7, <1>8, <3>1, <3>2, <3>3
  <2>9. Algorithms!target_to_bits(t) = (size + 1) * Field + m
      BY <1>6, <1>10, <2>1
  <2>10. size + 1 \in 1..(DIGITS + 1)
      BY <1>2, <1>3
  <2>11. Leading(t, size + 1) = m
      BY <1>5, <2>1
  <2>12. Encodes(t, size + 1)
    <3>1. PICK e : e = size + 1
        OBVIOUS
    <3>2. Leading(t, e) = m /\ ~Overflows(e, m) /\ Sign * Power(e - 1) <= m * Power(e)
      <4>1. Leading(t, e) = m
          BY <2>11, <3>1
      <4>2. ~Overflows(e, m)
          BY <2>7, <3>1
      <4>3. Sign * Power(e - 1) <= m * Power(e)
        <5>1. Power(e - 1) = Power(size + 1 - 1) /\ Power(e) = Power(size + 1)
          <6>1. size \in Nat /\ e = size + 1
              BY <1>3, <3>1
          <6>2. e - 1 = size + 1 - 1
              BY <6>1
          <6> QED
              BY <6>1, <6>2, Zenon
        <5> QED
            BY <2>8, <5>1, Zenon
      <4> QED
          BY <4>1, <4>2, <4>3
    <3>3. Encodes(t, e)
        BY <2>6, <3>2 DEF Encodes
    <3> QED
        BY <3>1, <3>3
  <2> QED
      BY <2>9, <2>10, <2>11, <2>12
<1> QED
    BY <1>2, <1>5, <1>9, <1>10

\* Encoding a target and decoding it again gives the largest target with bits of
\* its own that is not above it.
FromBelow(t, d) ==
    /\ d \in Nat /\ d <= t /\ d \in Algorithms!Representable
    /\ \A r \in Algorithms!Representable : r <= t => r <= d

\* A representable target is a mantissa below the sign bit at some exponent.
LEMMA RepresentableIs ==
    ASSUME NEW r \in Algorithms!Representable
    PROVE  \E e \in Nat, m \in 0..(Sign - 1) : r = Stood(e, m)
<1>1. PICK b \in 0..((DIGITS + 3) * Algorithms!FIELD + Algorithms!FIELD - 1) :
          r = Algorithms!bits_to_target(b) /\ r # Algorithms!InvalidDifficultyBits
    BY DEF Algorithms!Representable
<1>2. b \in Nat
  <2>1. (DIGITS + 3) * Algorithms!FIELD + Algorithms!FIELD - 1 \in Int
      BY FieldIs DEF Field
  <2> QED
      BY <2>1
<1> QED
    BY <1>1, <1>2, DecodingIs

\* A mantissa below the sign bit that decodes is representable.
LEMMA RepresentableHas ==
    ASSUME NEW e \in 0..(DIGITS + 3), NEW m \in 0..(Sign - 1),
           Algorithms!bits_to_target(e * Field + m) \in Nat
    PROVE  Algorithms!bits_to_target(e * Field + m) \in Algorithms!Representable
<1>1. PICK f \in Nat \ {0}, s \in Nat \ {0} : f = Field /\ s = Sign /\ f = 2 * s
    BY FieldIs
<1>2. DIGITS \in Nat
    BY FieldIs
<1>3. e \in Nat /\ e <= DIGITS + 3 /\ m \in Nat /\ m < s
    BY <1>1, <1>2
<1>4. e * f <= (DIGITS + 3) * f /\ e * f \in Nat /\ (DIGITS + 3) * f \in Nat
    BY <1>1, <1>2, <1>3, TimesGrows
<1>5. e * f + m \in 0..((DIGITS + 3) * f + f - 1)
    BY <1>1, <1>3, <1>4
<1>6. \A x \in Nat : x # Algorithms!InvalidDifficultyBits
    BY DEF Algorithms!InvalidDifficultyBits
<1> QED
    BY <1>1, <1>5, <1>6 DEF Algorithms!Representable, Field

\* Encoding a target and decoding it gives the largest representable one below it.
LEMMA EncodesExactly ==
    ASSUME NEW t \in 0..Algorithms!U256_MAX
    PROVE  FromBelow(t, Algorithms!bits_to_target(Algorithms!target_to_bits(t)))
<1>1. CASE t = 0
  <2>1. Algorithms!target_to_bits(t) = 0
      BY <1>1 DEF Algorithms!target_to_bits
  <2>2. PICK f \in Nat \ {0}, s \in Nat \ {0} : f = Field /\ s = Sign
      BY FieldIs
  <2>3. 0 % s = 0
      BY <2>2
  <2>4. Algorithms!bits_to_target(0) = 0
      BY <2>2, <2>3 DEF Algorithms!bits_to_target, Sign
  <2>5. 0 * Field + 0 = 0 /\ 0 \in 0..(DIGITS + 3) /\ 0 \in 0..(Sign - 1)
      BY <2>2, FieldIs
  <2>6. 0 \in Algorithms!Representable
      BY <2>4, <2>5, RepresentableHas
  <2> QED
      BY <1>1, <2>1, <2>4, <2>6 DEF FromBelow
<1>2. CASE t \in 1..Algorithms!U256_MAX
  <2>1. PICK e \in 1..(DIGITS + 1) :
            Encodes(t, e) /\ Algorithms!target_to_bits(t) = e * Field + Leading(t, e)
      BY <1>2, EncodingIs
  <2>2. e \in Nat \ {0} /\ e \in 0..(DIGITS + 3) /\ t \in Nat
    <3>1. Algorithms!U256_MAX \in Int
      <4>1. PICK x \in Nat : x = Power(DIGITS)
          BY FieldIs, PowerIsNat
      <4> QED
          BY <4>1 DEF Algorithms!U256_MAX, Power
    <3> QED
        BY <1>2, <3>1, FieldIs
  <2>3. PICK m \in 1..(Sign - 1) : /\ m = Leading(t, e) /\ ~Overflows(e, m)
                                   /\ Sign * Power(e - 1) <= Leading(t, e) * Power(e)
      BY <2>1 DEF Encodes
  <2>4. PICK d : d = Algorithms!bits_to_target(e * Field + m)
      OBVIOUS
  <2>5. d = Stood(e, Leading(t, e))
      BY <2>2, <2>3, <2>4, CompactDecodes
  <2>6. d \in Nat /\ d <= t
      BY <2>2, <2>5, LeadingFits
  <2>7. m \in 0..(Sign - 1)
      BY FieldIs
  <2>8. d \in Algorithms!Representable
      BY <2>2, <2>4, <2>6, <2>7, RepresentableHas
  <2>9. ASSUME NEW r \in Algorithms!Representable, r <= t PROVE r <= d
    <3>1. PICK f \in Nat, k \in 0..(Sign - 1) : r = Stood(f, k)
        BY RepresentableIs
    <3> QED
        BY <2>2, <2>3, <2>5, <2>9, <3>1, NoneBetween
  <2> QED
      BY <2>1, <2>3, <2>4, <2>6, <2>8, <2>9 DEF FromBelow
<1>3. t = 0 \/ t \in 1..Algorithms!U256_MAX
  <2>1. PICK x \in Nat : x = Power(DIGITS)
      BY FieldIs, PowerIsNat
  <2>2. Algorithms!U256_MAX \in Int
      BY <2>1 DEF Algorithms!U256_MAX, Power
  <2> QED
      BY <2>2
<1> QED
    BY <1>1, <1>2, <1>3

\* The work of a target is the number of hashes it takes, rounded down, computed
\* without the number that does not fit.
LEMMA WorkIs ==
    ASSUME NEW t \in 0..Algorithms!U256_MAX
    PROVE  Algorithms!work_from_target(t) = Algorithms!POWER[DIGITS] \div (t + 1)
<1>1. PICK x \in Nat \ {0} : x = Algorithms!POWER[DIGITS] /\ Algorithms!U256_MAX = x - 1
    BY FieldIs, PowerIsNat DEF Algorithms!U256_MAX, Power
<1>2. t \in Nat /\ t < x /\ t + 1 \in Nat \ {0} /\ x - 1 - t \in Nat
    BY <1>1
<1>3. PICK a \in Nat, y \in Nat \ {0} : a = x - 1 - t /\ y = t + 1 /\ x = a + y
    BY <1>1, <1>2
<1>4. PICK q \in Nat : q = a \div y /\ y * q <= a /\ a < y * q + y
  <2>1. a \div y \in Nat
      BY DivNat
  <2>2. y * (a \div y) <= a /\ a < y * (a \div y) + y
      BY DivBounds
  <2> QED
      BY <2>1, <2>2
<1>5. y * (q + 1) = y * q + y /\ y * q \in Nat
    BY <1>3
<1>6. y * (q + 1) <= x /\ x < y * (q + 1) + y
    BY <1>3, <1>4, <1>5
<1>7. x \div y = q + 1
    BY <1>6, DivIs
<1>8. Algorithms!work_from_target(t) = (x - 1 - t) \div (t + 1) + 1
    BY <1>1 DEF Algorithms!work_from_target
<1> QED
    BY <1>1, <1>3, <1>4, <1>7, <1>8

-----------------------------------------------------------------------------
(* Retargets.                                                               *)

TargetInv ==
    /\ target \in 0..Algorithms!U256_MAX
    /\ FromBelow(target, Algorithms!bits_to_target(bits))

\* The bits that encode a target, and the target they stand for.
LEMMA EncodedIsTarget ==
    ASSUME NEW t \in 0..Algorithms!U256_MAX,
           bits' = Algorithms!target_to_bits(t), target' = Algorithms!bits_to_target(bits')
    PROVE  TargetInv'
<1>1. PICK d : d = Algorithms!bits_to_target(Algorithms!target_to_bits(t)) /\ FromBelow(t, d)
    BY EncodesExactly
<1>2. PICK x \in Int : x = Algorithms!U256_MAX
  <2>1. PICK y \in Nat : y = Power(DIGITS)
      BY FieldIs, PowerIsNat
  <2> QED
      BY <2>1 DEF Algorithms!U256_MAX, Power
<1>3. t \in Int /\ t <= Algorithms!U256_MAX /\ Algorithms!U256_MAX \in Int
    BY <1>2
<1>4. d \in 0..Algorithms!U256_MAX
    BY <1>1, <1>2, <1>3 DEF FromBelow
<1>5. FromBelow(d, d)
    BY <1>1 DEF FromBelow
<1>6. target' = d /\ Algorithms!bits_to_target(bits') = d
    BY <1>1
<1> QED
    BY <1>4, <1>5, <1>6 DEF TargetInv

\* The difficulty's invariant holds at the start.
LEMMA TargetsStart ==
    ASSUME Algorithms!MCInit
    PROVE  TargetInv
<1>1. CASE target \in 0..Algorithms!U256_MAX /\ bits = Algorithms!target_to_bits(target)
    BY <1>1, EncodesExactly DEF TargetInv
<1>2. CASE target = 0 /\ bits = 0
  <2>1. 0 \in 0..Algorithms!U256_MAX
    <3>1. PICK y \in Nat \ {0} : y = Power(DIGITS)
        BY FieldIs, PowerIsNat
    <3> QED
        BY <3>1 DEF Algorithms!U256_MAX, Power
  <2>2. Algorithms!target_to_bits(0) = 0
      BY DEF Algorithms!target_to_bits
  <2> QED
      BY <1>2, <2>1, <2>2, EncodesExactly DEF TargetInv
<1> QED
    BY <1>1, <1>2 DEF Algorithms!MCInit

\* The next period's target is encoded, whatever time the last one took.
LEMMA TargetIsReset ==
    ASSUME TargetInv, Algorithms!Retarget
    PROVE  TargetInv'
<1>1. PICK span \in -MaxSpan..MaxSpan :
          bits' = Algorithms!expected_bits([bits |-> bits, time |-> span, period_start_time |-> 0],
                                           RETARGET_INTERVAL, POW_LIMIT)
    BY DEF Algorithms!Retarget
<1>2. target' = Algorithms!bits_to_target(bits')
    BY DEF Algorithms!Retarget
<1>3. /\ POW_LIMIT \in Nat /\ TARGET_TIMESPAN \in Nat \ {0} /\ RETARGET_INTERVAL \in Nat \ {0}
      /\ POW_LIMIT * TARGET_TIMESPAN * 4 <= Algorithms!U256_MAX
    BY BoundsAssumption, LimitAssumption, DifficultyAssumption DEF Algorithms!PowLimitAssumption
<1>4. PICK top \in Nat : top = Algorithms!U256_MAX
  <2>1. PICK y \in Nat \ {0} : y = Power(DIGITS)
      BY FieldIs, PowerIsNat
  <2> QED
      BY <2>1 DEF Algorithms!U256_MAX, Power
<1>5. POW_LIMIT \in 0..top
  <2>1. POW_LIMIT * 1 <= POW_LIMIT * (TARGET_TIMESPAN * 4)
    <3>1. 1 * POW_LIMIT <= (TARGET_TIMESPAN * 4) * POW_LIMIT
        BY <1>3, TimesGrows
    <3> QED
        BY <1>3, <3>1
  <2>2. POW_LIMIT * (TARGET_TIMESPAN * 4) = POW_LIMIT * TARGET_TIMESPAN * 4
      BY <1>3
  <2>3. POW_LIMIT * (TARGET_TIMESPAN * 4) \in Nat
      BY <1>3
  <2> QED
      BY <1>3, <1>4, <2>1, <2>2, <2>3
<1>6. PICK secs \in Nat : secs = Algorithms!clamped_timespan(span - 0)
  <2>1. span \in Int
      BY BoundsAssumption
  <2>2. TARGET_TIMESPAN \div 4 \in Nat
      BY <1>3, DivNat
  <2>3. TARGET_TIMESPAN * 4 \in Nat /\ span - 0 \in Int
      BY <1>3, <2>1
  <2>4. PICK low \in Nat, high \in Nat, x \in Int :
            low = TARGET_TIMESPAN \div 4 /\ high = TARGET_TIMESPAN * 4 /\ x = span - 0
      BY <2>2, <2>3
  <2>5. Algorithms!clamped_timespan(x) = IF x < low THEN low ELSE IF x > high THEN high ELSE x
      BY <2>4 DEF Algorithms!clamped_timespan
  <2> QED
      BY <2>4, <2>5
<1>7. PICK d \in Nat : d = Algorithms!bits_to_target(bits)
    BY DEF TargetInv, FromBelow
<1>8. PICK product \in Nat : product = d * secs
    OBVIOUS
<1>9. PICK scaled \in Nat : scaled = product \div TARGET_TIMESPAN
    BY <1>3, DivNat
<1>10. RETARGET_INTERVAL % RETARGET_INTERVAL = 0
  <2>1. PICK n \in Nat \ {0} : n = RETARGET_INTERVAL
      BY <1>3
  <2>2. n \div n = 1
    <3>1. n * 1 <= n /\ n < n * 1 + n
        OBVIOUS
    <3> QED
        BY <3>1, DivIs
  <2>3. n % n = n - n * (n \div n)
      BY Z3
  <2> QED
      BY <2>1, <2>2, <2>3
<1>11. bits' = IF product <= top /\ scaled <= POW_LIMIT THEN Algorithms!target_to_bits(scaled)
               ELSE Algorithms!target_to_bits(POW_LIMIT)
    BY <1>1, <1>4, <1>6, <1>7, <1>8, <1>9, <1>10 DEF Algorithms!expected_bits
<1>12. scaled <= POW_LIMIT => scaled \in 0..top
    BY <1>3, <1>4, <1>5
<1>13. PICK t \in 0..top : bits' = Algorithms!target_to_bits(t)
    BY <1>5, <1>11, <1>12
<1> QED
    BY <1>2, <1>4, <1>13, EncodedIsTarget

MCTargetInv == part = "algorithms" => TargetInv

\* Difficulty: in whatever base, width and period, a target is encoded as the
\* largest representable one that is not above it, through any number of
\* retargets, and its work is exact.
THEOREM TargetsStayExact == MCSpec => []TargetsAreExact
<1>1. MCInit => MCTargetInv
    BY TargetsStart DEF MCInit, MCTargetInv
<1>2. MCTargetInv /\ [MCNext]_all => MCTargetInv'
  <2> SUFFICES ASSUME MCTargetInv, [MCNext]_all, part' = "algorithms" PROVE TargetInv'
      BY DEF MCTargetInv
  <2>1. CASE SpvNext
      BY <2>1 DEF SpvNext
  <2>2. CASE AlgorithmsNext
    <3>1. TargetInv
        BY <2>2 DEF AlgorithmsNext, MCTargetInv
    <3>2. CASE Algorithms!Retarget
        BY <3>1, <3>2, TargetIsReset
    <3>3. CASE UNCHANGED Algorithms!retargeting
      <4>1. target' = target /\ bits' = bits
          BY <3>3 DEF Algorithms!retargeting
      <4> QED
          BY <3>1, <4>1 DEF TargetInv
    <3> QED
        BY <2>2, <3>2, <3>3 DEF AlgorithmsNext, Algorithms!MCNext
  <2>3. CASE ProofNext
      BY <2>3 DEF ProofNext
  <2>4. CASE UNCHANGED all
    <3>1. part' = part /\ target' = target /\ bits' = bits
        BY <2>4 DEF all, algorithmsVars
    <3> QED
        BY <3>1 DEF MCTargetInv, TargetInv
  <2> QED
      BY <2>1, <2>2, <2>3, <2>4 DEF MCNext
<1>3. MCTargetInv => TargetsAreExact
  <2> SUFFICES ASSUME TargetInv
               PROVE  Algorithms!EncodesFromBelow /\ Algorithms!WorkIsExact
      BY DEF MCTargetInv, TargetsAreExact
  <2>1. Algorithms!EncodesFromBelow
      BY DEF TargetInv, FromBelow, Algorithms!EncodesFromBelow
  <2>2. Algorithms!WorkIsExact
      BY WorkIs DEF TargetInv, Algorithms!WorkIsExact
  <2> QED
      BY <2>1, <2>2
<1> QED
    BY <1>1, <1>2, <1>3, PTL DEF MCSpec

-----------------------------------------------------------------------------
(* The proof route (SpvProof).                                                *)

\* A block is a number, used once, and the transaction is in one at most of the
\* best chain.
ChainIsPlain ==
    /\ mined \in Nat /\ bitcoin \in Seq(1..mined) /\ holders \subseteq 1..mined
    /\ \A g, h \in 1..Len(bitcoin) : bitcoin[g] \in holders /\ bitcoin[h] \in holders => g = h

\* What the route knows of the light client was so, and its chain only grows.
ClientGrows ==
    /\ \E n \in Nat : Len(lc) = n
    /\ lcSeen = Unknown \/ (lcSeen \in Nat /\ lcSeen <= Len(lc))

\* The transaction is where height says.
Names(height) == height \in 1..Len(bitcoin) /\ bitcoin[height] \in holders

\* What a build read without a reorganisation or a lagging host is still so.
BuildIsTrue(b) ==
    /\ b = [at |-> b.at, height |-> b.height, tip |-> b.tip, path |-> b.path,
            hashes |-> b.hashes, clean |-> b.clean]
    /\ b.at \in {"info", "tip", "path", "hashes", "done"}
    /\ b.clean =>
         /\ b.at \in {"info", "tip", "path"} => b.hashes = << >>
         /\ b.at # "info" => Names(b.height)
         /\ b.at \in {"path", "hashes", "done"} => b.tip \in Nat /\ b.tip <= Len(bitcoin)
         /\ b.at \in {"hashes", "done"} =>
              /\ b.path = bitcoin[b.height]
              /\ b.hashes \in Seq(Nat)
              /\ b.hashes # << >> => b.hashes[1] = bitcoin[b.height]
         /\ b.at = "done" => b.hashes # << >>

\* So is what is cached, and a proof cached for long is too deep to be replaced.
ServesTrue(a) ==
    /\ a = [status |-> a.status, proof |-> a.proof, ttl |-> a.ttl, clean |-> a.clean]
    /\ a.status = 200 /\ a.clean =>
         /\ a.proof.height \in 1..Len(bitcoin)
         /\ a.proof.path = bitcoin[a.proof.height]
         /\ a.proof.hashes[1] = bitcoin[a.proof.height]
         /\ a.ttl = "long" => a.proof.height <= Len(bitcoin) - DEEP_CONFIRMATION_DEPTH + 1

ProofInv ==
    /\ ChainIsPlain /\ ClientGrows
    /\ build # None => BuildIsTrue(build)
    /\ cached # None => ServesTrue(cached)
    /\ answer # None => answer.good

\* A step after which every block that was counted on is where it was, and the
\* transaction in one block at most.
KeepsBlocks ==
    /\ Len(bitcoin') >= Len(bitcoin)
    /\ \A h \in 1..Len(bitcoin) : bitcoin'[h] = bitcoin[h]
    /\ holders \subseteq holders'

\* A build under way stays true while the chain only gets longer.
LEMMA BuildStaysTrue ==
    ASSUME ProofInv, ChainIsPlain', KeepsBlocks, NEW b, BuildIsTrue(b), build' = b
    PROVE  BuildIsTrue(build)'
<1>1. bitcoin \in Seq(1..mined) /\ bitcoin' \in Seq(1..mined')
    BY DEF ProofInv, ChainIsPlain
<1>2. Len(bitcoin) \in Nat /\ Len(bitcoin') \in Nat
    BY <1>1, LenProperties
<1>3. \A h : Names(h) => Names(h)' /\ bitcoin'[h] = bitcoin[h]
    BY <1>2 DEF Names, KeepsBlocks
<1>4. BuildIsTrue(b)'
    BY <1>2, <1>3 DEF BuildIsTrue, KeepsBlocks
<1> QED
    BY <1>4 DEF BuildIsTrue, Names

\* What is cached is left as it is, or known not to be clean.
LEMMA CacheStaysTrue ==
    ASSUME ProofInv, ChainIsPlain', KeepsBlocks, NEW a, ServesTrue(a), cached' = a
    PROVE  ServesTrue(cached)'
<1>1. bitcoin \in Seq(1..mined) /\ bitcoin' \in Seq(1..mined')
    BY DEF ProofInv, ChainIsPlain
<1>2. /\ Len(bitcoin) \in Nat /\ Len(bitcoin') \in Nat /\ DEEP_CONFIRMATION_DEPTH \in Nat
    BY <1>1, LenProperties, ProofAssumption
<1>3. ServesTrue(a)'
    BY <1>2 DEF ServesTrue, KeepsBlocks
<1> QED
    BY <1>3 DEF ServesTrue

\* Blocks are mined on top.
LEMMA BlockIsMined ==
    ASSUME ProofInv, Proof!Mine
    PROVE  ProofInv'
<1>1. /\ mined' = mined + 1 /\ bitcoin' = Append(bitcoin, mined + 1)
      /\ build' = build /\ cached' = cached /\ answer' = answer /\ lc' = lc
      /\ lcSeen' = lcSeen
      /\ \/ holders' = holders
         \/ ~Proof!Confirmed(bitcoin) /\ holders' = holders \cup {mined + 1}
    BY DEF Proof!Mine
<1>2. mined \in Nat /\ bitcoin \in Seq(1..mined) /\ holders \subseteq 1..mined
    BY DEF ProofInv, ChainIsPlain
<1> DEFINE L == Len(bitcoin)
<1>3. L \in Nat /\ \A h \in 1..L : bitcoin[h] \in 1..mined
    BY <1>2, LenProperties, ElementOfSeq
<1>4. /\ Len(bitcoin') = L + 1 /\ bitcoin'[L + 1] = mined + 1
      /\ \A h \in 1..L : bitcoin'[h] = bitcoin[h]
    BY <1>1, <1>2, AppendProperties
<1>5. bitcoin' \in Seq(1..mined')
  <2>1. bitcoin \in Seq(1..mined') /\ mined + 1 \in 1..mined'
    <3>1. 1..mined \subseteq 1..(mined + 1)
        BY <1>2
    <3> QED
        BY <1>1, <1>2, <3>1, SeqMonotonic
  <2> QED
      BY <1>1, <2>1, AppendProperties
<1>6. holders' \subseteq 1..mined' /\ mined' \in Nat /\ holders \subseteq holders'
  <2>1. 1..mined \subseteq 1..mined' /\ mined + 1 \in 1..mined' /\ mined' \in Nat
      BY <1>1, <1>2
  <2> QED
      BY <1>1, <1>2, <2>1
<1>7. ASSUME NEW h \in 1..Len(bitcoin')
      PROVE  \/ h \in 1..L /\ (bitcoin'[h] \in holders' <=> bitcoin[h] \in holders)
             \/ h = L + 1 /\ (bitcoin'[h] \in holders' => ~Proof!Confirmed(bitcoin))
  <2>1. CASE h \in 1..L
    <3>1. bitcoin'[h] = bitcoin[h] /\ bitcoin[h] \in 1..mined /\ bitcoin[h] # mined + 1
        BY <1>2, <1>3, <1>4, <2>1
    <3> QED
        BY <1>1, <2>1, <3>1
  <2>2. CASE h = L + 1
    <3>1. bitcoin'[h] = mined + 1 /\ mined + 1 \notin holders
        BY <1>2, <1>4, <2>2
    <3> QED
        BY <1>1, <2>2, <3>1
  <2> QED
      BY <1>3, <1>4, <2>1, <2>2
<1>8. ASSUME NEW g \in 1..Len(bitcoin'), NEW h \in 1..Len(bitcoin'),
             bitcoin'[g] \in holders', bitcoin'[h] \in holders'
      PROVE  g = h
    BY <1>3, <1>4, <1>7, <1>8 DEF ProofInv, ChainIsPlain, Proof!Confirmed
<1>9. ChainIsPlain'
    BY <1>5, <1>6, <1>8 DEF ChainIsPlain
<1>10. KeepsBlocks
    BY <1>3, <1>4, <1>6 DEF KeepsBlocks
<1>11. ClientGrows'
    BY <1>1 DEF ProofInv, ClientGrows
<1> QED
    BY <1>1, <1>9, <1>10, <1>11, BuildStaysTrue, CacheStaysTrue DEF ProofInv

\* A reorganisation leaves what is deep, and what it may touch is no longer clean.
LEMMA ChainReorganises ==
    ASSUME ProofInv, NEW n \in 1..(DEEP_CONFIRMATION_DEPTH - 1), Proof!Reorg(n)
    PROVE  ProofInv'
<1> DEFINE L == Len(bitcoin)
           stays == SubSeq(bitcoin, 1, L - n)
           fresh == [j \in 1..(n + 1) |-> mined + j]
<1>1. /\ n < L /\ bitcoin' = stays \o fresh /\ mined' = mined + n + 1
      /\ lc' = lc /\ lcSeen' = lcSeen /\ answer' = answer
      /\ \/ holders' = holders
         \/ /\ ~Proof!Confirmed(stays)
            /\ \E b \in mined + 1 .. mined + n + 1 : holders' = holders \cup {b}
      /\ build' = IF build = None THEN None ELSE [build EXCEPT !.clean = FALSE]
      /\ cached' = IF cached = None \/ cached.ttl = "long" THEN cached
                   ELSE [cached EXCEPT !.clean = FALSE]
    BY DEF Proof!Reorg
<1>2. /\ mined \in Nat /\ bitcoin \in Seq(1..mined) /\ holders \subseteq 1..mined
      /\ n \in Nat \ {0} /\ DEEP_CONFIRMATION_DEPTH \in Nat /\ n < DEEP_CONFIRMATION_DEPTH
    BY ProofAssumption DEF ProofInv, ChainIsPlain
<1>3. L \in Nat /\ \A h \in 1..L : bitcoin[h] \in 1..mined
    BY <1>2, LenProperties, ElementOfSeq
<1> DEFINE K == L - n
<1>4. /\ stays \in Seq(1..mined) /\ Len(stays) = K /\ K \in Nat
      /\ \A h \in 1..K : stays[h] = bitcoin[h]
  <2>1. K \in Nat /\ K >= 1 /\ 1..K \subseteq 1..L
    <3>1. n < L
        BY <1>1
    <3>2. L \in Nat /\ n \in Nat
        BY <1>2, <1>3
    <3> HIDE DEF L
    <3> QED
        BY <3>1, <3>2
  <2>2. \A h \in 1..K : bitcoin[h] \in 1..mined
      BY <1>3, <2>1
  <2>3. /\ stays \in Seq(1..mined) /\ Len(stays) = K - 1 + 1
        /\ \A h \in 1..(K - 1 + 1) : stays[h] = bitcoin[1 + h - 1]
      BY <2>1, <2>2, SubSeqProperties
  <2> QED
      BY <2>1, <2>3
<1>5. /\ fresh \in Seq(mined + 1 .. mined + n + 1) /\ Len(fresh) = n + 1
      /\ \A j \in 1..(n + 1) : fresh[j] = mined + j
    BY <1>2
<1> HIDE DEF stays, fresh
<1>6. bitcoin' \in Seq(1..mined')
  <2>1. 1..mined \subseteq 1..mined' /\ mined + 1 .. mined + n + 1 \subseteq 1..mined'
      BY <1>1, <1>2
  <2>2. stays \in Seq(1..mined') /\ fresh \in Seq(1..mined')
      BY <1>4, <1>5, <2>1, SeqMonotonic
  <2> QED
      BY <1>1, <2>2, ConcatProperties
<1>7. /\ Len(bitcoin') = L + 1
      /\ \A h \in 1..K : bitcoin'[h] = bitcoin[h]
      /\ \A h \in (K + 1)..(L + 1) : bitcoin'[h] = mined + (h - K)
  <2>1. /\ Len(bitcoin') = Len(stays) + Len(fresh)
        /\ \A h \in 1..(Len(stays) + Len(fresh)) :
              bitcoin'[h] = IF h <= Len(stays) THEN stays[h] ELSE fresh[h - Len(stays)]
    <3>1. 1..mined \subseteq Nat /\ mined + 1 .. mined + n + 1 \subseteq Nat
        BY <1>2
    <3>2. stays \in Seq(Nat) /\ fresh \in Seq(Nat)
        BY <1>4, <1>5, <3>1, SeqMonotonic
    <3> QED
        BY <1>1, <3>2, ConcatProperties
  <2>2. Len(stays) + Len(fresh) = L + 1
      BY <1>2, <1>3, <1>4, <1>5
  <2>3. \A h \in (K + 1)..(L + 1) : h - K \in 1..(n + 1) /\ ~(h <= K) /\ h \in 1..(L + 1)
      BY <1>2, <1>3, <1>4
  <2>4. \A h \in 1..K : h <= K /\ h \in 1..(L + 1)
      BY <1>1, <1>2, <1>3
  <2> QED
      BY <1>4, <1>5, <2>1, <2>2, <2>3, <2>4
<1>8. holders' \subseteq 1..mined' /\ mined' \in Nat
  <2>1. 1..mined \subseteq 1..mined' /\ mined + 1 .. mined + n + 1 \subseteq 1..mined'
        /\ mined' \in Nat
      BY <1>1, <1>2
  <2> QED
      BY <1>1, <1>2, <2>1
<1>9. ChainIsPlain'
  <2>1. ASSUME NEW h \in 1..(L + 1), bitcoin'[h] \in holders'
        PROVE  \/ h \in 1..K /\ bitcoin[h] \in holders
               \/ /\ h \in (K + 1)..(L + 1) /\ holders' = holders \cup {mined + (h - K)}
                  /\ ~Proof!Confirmed(stays)
    <3>1. CASE h \in 1..K
      <4>1. h \in 1..L
          BY <1>1, <1>2, <1>3, <3>1
      <4>2. bitcoin'[h] = bitcoin[h] /\ bitcoin[h] \in 1..mined
          BY <1>3, <1>7, <3>1, <4>1
      <4>3. \A b \in mined + 1 .. mined + n + 1 : b # bitcoin[h]
          BY <1>2, <4>2
      <4> QED
          BY <1>1, <2>1, <3>1, <4>2, <4>3
    <3>2. CASE h \in (K + 1)..(L + 1)
      <4>1. bitcoin'[h] = mined + (h - K) /\ mined + (h - K) \notin 1..mined
          BY <1>2, <1>3, <1>4, <1>7, <3>2
      <4> QED
          BY <1>1, <1>2, <2>1, <3>2, <4>1
    <3> QED
        BY <1>2, <1>3, <1>4, <2>1, <3>1, <3>2
  <2>2. ~Proof!Confirmed(stays) => \A h \in 1..K : bitcoin[h] \notin holders
      BY <1>4 DEF Proof!Confirmed
  <2>3. ASSUME NEW g \in 1..(L + 1), NEW h \in 1..(L + 1), bitcoin'[g] \in holders',
               bitcoin'[h] \in holders'
        PROVE  g = h
    <3>1. CASE ~Proof!Confirmed(stays)
      <4>1. /\ g \in (K + 1)..(L + 1) /\ holders' = holders \cup {mined + (g - K)}
            /\ h \in (K + 1)..(L + 1) /\ bitcoin'[h] = mined + (h - K)
          BY <1>7, <2>1, <2>2, <2>3, <3>1
      <4>2. mined + (h - K) \notin 1..mined
          BY <1>2, <1>3, <1>4, <4>1
      <4>3. mined + (h - K) = mined + (g - K)
          BY <1>2, <2>3, <4>1, <4>2
      <4> QED
          BY <1>2, <1>3, <1>4, <4>3
    <3>2. CASE Proof!Confirmed(stays)
      <4>1. g \in 1..K /\ h \in 1..K /\ bitcoin[g] \in holders /\ bitcoin[h] \in holders
          BY <2>1, <2>3, <3>2
      <4>2. 1..K \subseteq 1..L
          BY <1>1, <1>2, <1>3
      <4> QED
          BY <4>1, <4>2, Zenon DEF ProofInv, ChainIsPlain
    <3> QED
        BY <3>1, <3>2
  <2> QED
      BY <1>6, <1>7, <1>8, <2>3 DEF ChainIsPlain
<1>10. build # None => BuildIsTrue(build)'
  <2> SUFFICES ASSUME build # None PROVE BuildIsTrue(build)'
      OBVIOUS
  <2>1. PICK a, x, t, q, z, w : build = [at |-> a, height |-> x, tip |-> t, path |-> q,
                                          hashes |-> z, clean |-> w]
                                /\ a \in {"info", "tip", "path", "hashes", "done"}
      BY DEF ProofInv, BuildIsTrue
  <2>2. build' = [at |-> a, height |-> x, tip |-> t, path |-> q, hashes |-> z, clean |-> FALSE]
      BY <1>1, <2>1
  <2> QED
      BY <2>1, <2>2 DEF BuildIsTrue
<1>11. cached # None => ServesTrue(cached)'
  <2> SUFFICES ASSUME cached # None PROVE ServesTrue(cached)'
      OBVIOUS
  <2>1. ServesTrue(cached)
      BY DEF ProofInv
  <2>2. PICK a : a = cached
      OBVIOUS
  <2>3. CASE a.ttl = "long"
    <3>1. cached' = a
        BY <1>1, <2>2, <2>3
    <3>2. a.status = 200 /\ a.clean =>
              a.proof.height \in 1..L /\ a.proof.height <= L - DEEP_CONFIRMATION_DEPTH + 1
        BY <2>1, <2>2, <2>3 DEF ServesTrue
    <3>3. \A h \in 1..L : h <= L - DEEP_CONFIRMATION_DEPTH + 1 =>
              /\ h \in 1..K /\ h \in 1..(L + 1)
              /\ h <= (L + 1) - DEEP_CONFIRMATION_DEPTH + 1
      <4>1. PICK l \in Nat, d \in Nat : l = L /\ d = DEEP_CONFIRMATION_DEPTH
          BY <1>2, ProofAssumption
      <4>2. n \in Nat /\ n <= d - 1 /\ K = l - n
          BY <4>1
      <4> HIDE DEF L, K
      <4>3. ASSUME NEW h \in 1..l, h <= l - d + 1
            PROVE  h \in 1..(l - n) /\ h \in 1..(l + 1) /\ h <= (l + 1) - d + 1
          BY <4>2, <4>3
      <4> QED
          BY <4>1, <4>2, <4>3
    <3>4. ServesTrue(a)'
        BY <1>7, <2>1, <2>2, <3>2, <3>3 DEF ServesTrue
    <3> QED
        BY <3>1, <3>4 DEF ServesTrue
  <2>4. CASE a.ttl # "long"
    <3>1. PICK v, x, t, w : cached = [status |-> v, proof |-> x, ttl |-> t, clean |-> w]
        BY <2>1 DEF ServesTrue
    <3>2. cached' = [status |-> v, proof |-> x, ttl |-> t, clean |-> FALSE]
        BY <1>1, <2>2, <2>4, <3>1
    <3> QED
        BY <3>2 DEF ServesTrue
  <2> QED
      BY <2>3, <2>4
<1>12. (build' # None => build # None) /\ (cached' # None => cached # None)
    BY <1>1
<1> QED
    BY <1>1, <1>9, <1>10, <1>11, <1>12 DEF ProofInv, ClientGrows

\* A step of the service or of its readers leaves the chain alone, and with it
\* whatever it does not touch.
LEMMA ChainKept ==
    ASSUME ProofInv, bitcoin' = bitcoin, holders' = holders, mined' = mined
    PROVE  /\ ChainIsPlain'
           /\ build' = build /\ build # None => BuildIsTrue(build)'
           /\ cached' = cached /\ cached # None => ServesTrue(cached)'
           /\ lc' = lc /\ lcSeen' = lcSeen => ClientGrows'
<1>1. ChainIsPlain'
    BY DEF ProofInv, ChainIsPlain
<1>2. bitcoin \in Seq(1..mined)
    BY DEF ProofInv, ChainIsPlain
<1>3. KeepsBlocks
    BY <1>2, LenProperties DEF KeepsBlocks
<1>4. build' = build /\ build # None => BuildIsTrue(build)'
  <2> SUFFICES ASSUME build' = build, build # None PROVE BuildIsTrue(build)'
      OBVIOUS
  <2>1. BuildIsTrue(build)
      BY DEF ProofInv
  <2>2. PICK b : b = build
      OBVIOUS
  <2>3. BuildIsTrue(b) /\ build' = b
      BY <2>1, <2>2
  <2> QED
      BY <1>1, <1>3, <2>3, BuildStaysTrue
<1>5. cached' = cached /\ cached # None => ServesTrue(cached)'
  <2> SUFFICES ASSUME cached' = cached, cached # None PROVE ServesTrue(cached)'
      OBVIOUS
  <2>1. ServesTrue(cached)
      BY DEF ProofInv
  <2>2. PICK a : a = cached
      OBVIOUS
  <2>3. ServesTrue(a) /\ cached' = a
      BY <2>1, <2>2
  <2> QED
      BY <1>1, <1>3, <2>3, CacheStaysTrue
<1>6. lc' = lc /\ lcSeen' = lcSeen => ClientGrows'
    BY DEF ProofInv, ClientGrows
<1> QED
    BY <1>1, <1>4, <1>5, <1>6

\* The transaction is broadcast, or the fallback host catches up.
LEMMA OthersMove ==
    ASSUME ProofInv, Proof!Broadcast \/ Proof!FallbackCatchesUp
    PROVE  ProofInv'
<1>1. /\ bitcoin' = bitcoin /\ holders' = holders /\ mined' = mined /\ lc' = lc
      /\ lcSeen' = lcSeen /\ build' = build /\ cached' = cached /\ answer' = answer
    BY DEF Proof!Broadcast, Proof!FallbackCatchesUp
<1> QED
    BY <1>1, ChainKept DEF ProofInv

\* The light client takes more of the best chain, or its tip is read again.
LEMMA ClientMoves ==
    ASSUME ProofInv, Proof!LightClientSyncs \/ Proof!cachedTipReader
    PROVE  ProofInv'
<1>1. /\ bitcoin' = bitcoin /\ holders' = holders /\ mined' = mined
      /\ build' = build /\ cached' = cached /\ answer' = answer
    BY DEF Proof!LightClientSyncs, Proof!cachedTipReader, Proof!bitcoin
<1>2. ClientGrows'
  <2>1. PICK k \in Nat : Len(lc) = k
      BY DEF ProofInv, ClientGrows
  <2>2. lcSeen = Unknown \/ (lcSeen \in Nat /\ lcSeen <= k)
      BY <2>1 DEF ProofInv, ClientGrows
  <2>3. CASE Proof!LightClientSyncs
    <3>1. PICK n \in 1..Len(bitcoin) : n > Len(lc) /\ lc' = SubSeq(bitcoin, 1, n)
        BY <2>3 DEF Proof!LightClientSyncs
    <3>2. bitcoin \in Seq(1..mined)
        BY DEF ProofInv, ChainIsPlain
    <3>3. Len(bitcoin) \in Nat /\ \A h \in 1..Len(bitcoin) : bitcoin[h] \in 1..mined
        BY <3>2, LenProperties, ElementOfSeq
    <3>4. n \in Nat /\ n >= 1 /\ \A h \in 1..n : bitcoin[h] \in 1..mined
        BY <3>3
    <3>5. Len(lc') = n - 1 + 1
        BY <3>1, <3>4, SubSeqProperties
    <3>6. Len(lc') = n /\ lcSeen' = lcSeen /\ n > k
        BY <2>1, <2>3, <3>1, <3>4, <3>5 DEF Proof!LightClientSyncs
    <3> QED
        BY <2>1, <2>2, <3>4, <3>6 DEF ClientGrows
  <2>4. CASE Proof!cachedTipReader
    <3>1. lc' = lc /\ (lcSeen' = Len(lc) \/ lcSeen' = Unknown)
        BY <2>4 DEF Proof!cachedTipReader
    <3> QED
        BY <2>1, <3>1 DEF ClientGrows
  <2> QED
      BY <2>3, <2>4
<1> QED
    BY <1>1, <1>2, ChainKept DEF ProofInv

\* A build starts, or is given up.
LEMMA BuildStartsOrFails ==
    ASSUME ProofInv, Proof!startBuild \/ Proof!upstreamUnavailable
    PROVE  ProofInv'
<1>1. /\ bitcoin' = bitcoin /\ holders' = holders /\ mined' = mined /\ lc' = lc
      /\ lcSeen' = lcSeen /\ cached' = cached
    BY DEF Proof!startBuild, Proof!upstreamUnavailable, Proof!bitcoin
<1>2. CASE Proof!startBuild
  <2>1. /\ build' = [at |-> "info", height |-> None, tip |-> None, path |-> None,
                     hashes |-> << >>, clean |-> TRUE]
        /\ answer' = answer
      BY <1>2 DEF Proof!startBuild
  <2>2. BuildIsTrue(build)'
      BY <2>1 DEF BuildIsTrue
  <2> QED
      BY <1>1, <2>1, <2>2, ChainKept DEF ProofInv
<1>3. CASE Proof!upstreamUnavailable
  <2>1. build' = None /\ answer' = [status |-> 503, good |-> TRUE]
      BY <1>3 DEF Proof!upstreamUnavailable
  <2> QED
      BY <1>1, <2>1, ChainKept DEF ProofInv
<1> QED
    BY <1>2, <1>3

\* The height the transaction is found at is the one it has.
LEMMA HeightIsTrue ==
    ASSUME Proof!Confirmed(bitcoin)
    PROVE  Names(Proof!HeightIn(bitcoin))
BY DEF Names, Proof!Confirmed, Proof!HeightIn

\* Where the transaction is, it is the only one.
LEMMA OneHeight ==
    ASSUME ProofInv, NEW g, NEW h, Names(g), Names(h)
    PROVE  g = h
BY DEF ProofInv, ChainIsPlain, Names

\* Not known, or not confirmed often enough: the build ends, and that is cached.
LEMMA NotYetIsTrue ==
    ASSUME ProofInv, NEW n \in {404, 409}, Proof!notYet(n), bitcoin' = bitcoin,
           holders' = holders, mined' = mined, lc' = lc, lcSeen' = lcSeen, answer' = answer
    PROVE  ProofInv'
<1>1. build' = None
      /\ cached' = [status |-> n, proof |-> None, ttl |-> "short", clean |-> TRUE]
    BY DEF Proof!notYet
<1>2. ServesTrue(cached)'
    BY <1>1 DEF ServesTrue
<1> QED
    BY <1>1, <1>2, ChainKept DEF ProofInv

\* The build goes on with what it read.
LEMMA BuildGoesOn ==
    ASSUME ProofInv, BuildIsTrue(build)', bitcoin' = bitcoin, holders' = holders,
           mined' = mined, lc' = lc, lcSeen' = lcSeen, answer' = answer, cached' = cached
    PROVE  ProofInv'
BY ChainKept DEF ProofInv

\* A read the build cannot use ends it.
LEMMA BuildEnds ==
    ASSUME ProofInv, Proof!fails502, bitcoin' = bitcoin, holders' = holders,
           mined' = mined, lc' = lc, lcSeen' = lcSeen, cached' = cached
    PROVE  ProofInv'
<1>1. build' = None /\ answer' = [status |-> 502, good |-> TRUE]
    BY DEF Proof!fails502
<1> QED
    BY <1>1, ChainKept DEF ProofInv

\* The confirming height is read.
LEMMA InfoIsRead ==
    ASSUME ProofInv, Proof!getTxInfo
    PROVE  ProofInv'
<1>1. /\ build # None /\ bitcoin' = bitcoin /\ holders' = holders /\ mined' = mined
      /\ lc' = lc /\ lcSeen' = lcSeen /\ answer' = answer
    BY DEF Proof!getTxInfo, Proof!bitcoin
<1>2. PICK c \in {bitcoin, lagged} :
          IF Proof!Confirmed(c)
          THEN /\ build' = [build EXCEPT !.at = "tip", !.height = Proof!HeightIn(c),
                                         !.clean = Proof!cleanAfter(c)]
               /\ cached' = cached
          ELSE Proof!notYet(404)
    BY DEF Proof!getTxInfo
<1>3. CASE ~Proof!Confirmed(c)
    BY <1>1, <1>2, <1>3, NotYetIsTrue
<1>4. CASE Proof!Confirmed(c)
  <2>1. PICK a, x, t, q, z, w : build = [at |-> a, height |-> x, tip |-> t, path |-> q,
                                          hashes |-> z, clean |-> w]
      BY <1>1 DEF ProofInv, BuildIsTrue
  <2>2. PICK g : g = Proof!HeightIn(c)
      OBVIOUS
  <2>3. PICK v : v = Proof!cleanAfter(c)
      OBVIOUS
  <2>4. build' = [at |-> "tip", height |-> g, tip |-> t, path |-> q, hashes |-> z, clean |-> v]
    <3>1. build' = [build EXCEPT !.at = "tip", !.height = Proof!HeightIn(c),
                                 !.clean = Proof!cleanAfter(c)]
        BY <1>2, <1>4
    <3>2. build' = [build EXCEPT !.at = "tip", !.height = g, !.clean = v]
        BY <2>2, <2>3, <3>1
    <3> QED
        BY <2>1, <3>2
  <2>5. (v => w) /\ (v => Names(g))
      BY <1>4, <2>1, <2>2, <2>3, HeightIsTrue DEF Proof!cleanAfter
  <2>6. (Names(g)' <=> Names(g)) /\ (w => z = << >>)
      BY <1>1, <2>1 DEF ProofInv, BuildIsTrue, Names, Proof!getTxInfo
  <2>7. BuildIsTrue(build)'
      BY <2>4, <2>5, <2>6 DEF BuildIsTrue
  <2> QED
      BY <1>1, <1>2, <1>4, <2>7, BuildGoesOn
<1> QED
    BY <1>3, <1>4

\* The Bitcoin tip is read.
LEMMA TipIsRead ==
    ASSUME ProofInv, Proof!getTipHeight
    PROVE  ProofInv'
<1>1. /\ build # None /\ build.at = "tip" /\ bitcoin' = bitcoin /\ holders' = holders
      /\ mined' = mined /\ lc' = lc /\ lcSeen' = lcSeen /\ answer' = answer
    BY DEF Proof!getTipHeight, Proof!bitcoin
<1>2. PICK c \in {bitcoin, lagged} :
          \/ Proof!notYet(409)
          \/ /\ build' = [build EXCEPT !.at = "path", !.tip = Len(c),
                                       !.clean = Proof!cleanAfter(c)]
             /\ cached' = cached
    BY DEF Proof!getTipHeight
<1>3. CASE Proof!notYet(409)
    BY <1>1, <1>3, NotYetIsTrue
<1>4. CASE /\ build' = [build EXCEPT !.at = "path", !.tip = Len(c),
                                     !.clean = Proof!cleanAfter(c)]
           /\ cached' = cached
  <2>1. PICK a, x, t, q, z, w : build = [at |-> a, height |-> x, tip |-> t, path |-> q,
                                          hashes |-> z, clean |-> w]
      BY <1>1 DEF ProofInv, BuildIsTrue
  <2>2. PICK n : n = Len(c)
      OBVIOUS
  <2>3. PICK v : v = Proof!cleanAfter(c)
      OBVIOUS
  <2>4. build' = [at |-> "path", height |-> x, tip |-> n, path |-> q, hashes |-> z, clean |-> v]
      BY <1>4, <2>1, <2>2, <2>3
  <2>5. bitcoin \in Seq(1..mined)
      BY DEF ProofInv, ChainIsPlain
  <2>6. BuildIsTrue(build) /\ a = "tip"
      BY <1>1, <2>1 DEF ProofInv
  <2>7. w => Names(x) /\ z = << >>
      BY <2>1, <2>6 DEF BuildIsTrue
  <2>8. v => w /\ n = Len(bitcoin)
      BY <2>1, <2>2, <2>3 DEF Proof!cleanAfter
  <2>9. v => Names(x) /\ n \in Nat /\ n <= Len(bitcoin) /\ z = << >>
      BY <2>5, <2>7, <2>8, LenProperties
  <2>10. (Names(x)' <=> Names(x)) /\ Len(bitcoin') = Len(bitcoin)
      BY <1>1 DEF Names
  <2>11. BuildIsTrue(build)'
      BY <2>4, <2>9, <2>10 DEF BuildIsTrue
  <2> QED
      BY <1>1, <1>4, <2>11, BuildGoesOn
<1> QED
    BY <1>2, <1>3, <1>4

\* The Merkle path is read: it leads to the block that holds the transaction.
LEMMA PathIsRead ==
    ASSUME ProofInv, Proof!getMerkleProof
    PROVE  ProofInv'
<1>1. /\ build # None /\ build.at = "path" /\ bitcoin' = bitcoin /\ holders' = holders
      /\ mined' = mined /\ lc' = lc /\ lcSeen' = lcSeen /\ cached' = cached
    BY DEF Proof!getMerkleProof, Proof!bitcoin
<1>2. PICK c \in {bitcoin, lagged} :
          IF Proof!Confirmed(c)
          THEN /\ build' = [build EXCEPT !.at = "hashes", !.path = c[Proof!HeightIn(c)],
                                         !.clean = Proof!cleanAfter(c)]
               /\ answer' = answer
          ELSE Proof!fails502
    BY DEF Proof!getMerkleProof, Proof!keep
<1>3. CASE ~Proof!Confirmed(c)
    BY <1>1, <1>2, <1>3, BuildEnds
<1>4. CASE Proof!Confirmed(c)
  <2>1. PICK a, x, t, q, z, w : build = [at |-> a, height |-> x, tip |-> t, path |-> q,
                                          hashes |-> z, clean |-> w]
      BY <1>1 DEF ProofInv, BuildIsTrue
  <2>2. PICK p : p = c[Proof!HeightIn(c)]
      OBVIOUS
  <2>3. PICK v : v = Proof!cleanAfter(c)
      OBVIOUS
  <2>4. build' = [at |-> "hashes", height |-> x, tip |-> t, path |-> p, hashes |-> z, clean |-> v]
      BY <1>2, <1>4, <2>1, <2>2, <2>3
  <2>5. BuildIsTrue(build) /\ a = "path"
      BY <1>1, <2>1 DEF ProofInv
  <2>6. w => Names(x) /\ t \in Nat /\ t <= Len(bitcoin)
      BY <2>1, <2>5 DEF BuildIsTrue
  <2>7. v => w /\ c = bitcoin
      BY <2>1, <2>3 DEF Proof!cleanAfter
  <2>8. v => p = bitcoin[x]
    <3> SUFFICES ASSUME v PROVE p = bitcoin[x]
        OBVIOUS
    <3>1. Names(Proof!HeightIn(bitcoin)) /\ Names(x)
        BY <1>4, <2>6, <2>7, HeightIsTrue
    <3>2. Proof!HeightIn(bitcoin) = x
        BY <3>1, OneHeight
    <3> QED
        BY <2>2, <2>7, <3>2
  <2>9. w => z = << >>
      BY <2>1, <2>5 DEF BuildIsTrue
  <2>10. (Names(x)' <=> Names(x)) /\ Len(bitcoin') = Len(bitcoin) /\ bitcoin'[x] = bitcoin[x]
      BY <1>1 DEF Names
  <2>11. BuildIsTrue(build)'
      BY <2>4, <2>6, <2>7, <2>8, <2>9, <2>10, EmptySeq DEF BuildIsTrue
  <2> QED
      BY <1>1, <1>2, <1>4, <2>11, BuildGoesOn
<1> QED
    BY <1>3, <1>4

\* The hash of one more block is read: the first is the transaction's own.
LEMMA HashIsRead ==
    ASSUME ProofInv, Proof!getBlockHashAtHeight
    PROVE  ProofInv'
<1>1. /\ build # None /\ build.at = "hashes" /\ bitcoin' = bitcoin /\ holders' = holders
      /\ mined' = mined /\ lc' = lc /\ lcSeen' = lcSeen /\ cached' = cached
    BY DEF Proof!getBlockHashAtHeight, Proof!bitcoin
<1>0. PICK h : h = build.height + Len(build.hashes)
    OBVIOUS
<1>2. PICK c \in {bitcoin, lagged} :
          IF h <= Len(c)
          THEN /\ build' = [build EXCEPT !.hashes = Append(@, c[h]),
                                         !.at = IF Len(build.hashes) + 1 = confirmations
                                                THEN "done" ELSE "hashes",
                                         !.clean = Proof!cleanAfter(c)]
               /\ answer' = answer
          ELSE Proof!fails502
    BY <1>0 DEF Proof!getBlockHashAtHeight, Proof!keep
<1>3. CASE ~(h <= Len(c))
    BY <1>1, <1>2, <1>3, BuildEnds
<1>4. CASE h <= Len(c)
  <2>1. PICK a, x, t, q, z, w : build = [at |-> a, height |-> x, tip |-> t, path |-> q,
                                          hashes |-> z, clean |-> w]
      BY <1>1 DEF ProofInv, BuildIsTrue
  <2>2. PICK y : y = Append(z, c[h])
      OBVIOUS
  <2>3. PICK v : v = Proof!cleanAfter(c)
      OBVIOUS
  <2>4. PICK d \in {"hashes", "done"} :
            build' = [at |-> d, height |-> x, tip |-> t, path |-> q, hashes |-> y, clean |-> v]
    <3>1. build' = [at |-> IF Len(z) + 1 = confirmations THEN "done" ELSE "hashes",
                    height |-> x, tip |-> t, path |-> q, hashes |-> y, clean |-> v]
        BY <1>2, <1>4, <2>1, <2>2, <2>3
    <3> QED
        BY <3>1
  <2>5. BuildIsTrue(build) /\ a = "hashes"
      BY <1>1, <2>1 DEF ProofInv
  <2>6. w => /\ Names(x) /\ t \in Nat /\ t <= Len(bitcoin) /\ q = bitcoin[x]
             /\ z \in Seq(Nat) /\ (z # << >> => z[1] = bitcoin[x])
      BY <2>1, <2>5 DEF BuildIsTrue
  <2>7. v => w /\ c = bitcoin
      BY <2>1, <2>3 DEF Proof!cleanAfter
  <2>8. v => y \in Seq(Nat) /\ y # << >> /\ y[1] = bitcoin[x]
    <3> SUFFICES ASSUME v PROVE y \in Seq(Nat) /\ y # << >> /\ y[1] = bitcoin[x]
        OBVIOUS
    <3>1. /\ z \in Seq(Nat) /\ Len(z) \in Nat /\ x \in 1..Len(bitcoin)
          /\ (z # << >> => z[1] = bitcoin[x]) /\ y = Append(z, bitcoin[h])
          /\ h = x + Len(z) /\ h <= Len(bitcoin)
        BY <1>0, <1>4, <2>1, <2>2, <2>6, <2>7, LenProperties DEF Names
    <3>2. bitcoin \in Seq(1..mined) /\ mined \in Nat
        BY DEF ProofInv, ChainIsPlain
    <3>3. Len(bitcoin) \in Nat
        BY <3>2, LenProperties
    <3>4. h \in 1..Len(bitcoin)
        BY <3>1, <3>3
    <3>5. bitcoin[h] \in Nat
        BY <3>2, <3>4, ElementOfSeq
    <3>6. /\ y \in Seq(Nat) /\ Len(y) = Len(z) + 1 /\ y[Len(z) + 1] = bitcoin[h]
          /\ \A j \in 1..Len(z) : y[j] = z[j]
        BY <3>1, <3>5, AppendProperties
    <3>7. y # << >>
        BY <3>1, <3>6, EmptySeq
    <3>8. CASE z = << >>
      <4>1. Len(z) = 0
          BY <3>8, EmptySeq
      <4> QED
          BY <3>1, <3>6, <3>7, <4>1
    <3>9. CASE z # << >>
      <4>1. Len(z) \in Nat \ {0}
          BY <3>1, <3>9, EmptySeq
      <4> QED
          BY <3>1, <3>6, <3>7, <3>9, <4>1
    <3> QED
        BY <3>8, <3>9
  <2>9. (Names(x)' <=> Names(x)) /\ Len(bitcoin') = Len(bitcoin) /\ bitcoin'[x] = bitcoin[x]
      BY <1>1 DEF Names
  <2>10. BuildIsTrue(build)'
      BY <2>4, <2>6, <2>7, <2>8, <2>9 DEF BuildIsTrue
  <2> QED
      BY <1>1, <1>2, <1>4, <2>10, BuildGoesOn
<1> QED
    BY <1>3, <1>4

\* A finished build is cached, for long when its block is deep.
LEMMA ProofIsCached ==
    ASSUME ProofInv, Proof!computeProof
    PROVE  ProofInv'
<1>1. /\ build # None /\ build.at = "done" /\ bitcoin' = bitcoin /\ holders' = holders
      /\ mined' = mined /\ lc' = lc /\ lcSeen' = lcSeen /\ answer' = answer /\ build' = None
      /\ cached' = [status |-> 200,
                    proof |-> [path |-> build.path, hashes |-> build.hashes,
                               height |-> build.height],
                    ttl |-> IF Proof!isDeep(build) THEN "long" ELSE "short",
                    clean |-> build.clean]
    BY DEF Proof!computeProof, Proof!bitcoin
<1>2. PICK a, x, t, q, z, w : build = [at |-> a, height |-> x, tip |-> t, path |-> q,
                                        hashes |-> z, clean |-> w]
    BY <1>1 DEF ProofInv, BuildIsTrue
<1>3. BuildIsTrue(build) /\ a = "done"
    BY <1>1, <1>2 DEF ProofInv
<1>4. w => /\ x \in 1..Len(bitcoin) /\ t \in Nat /\ t <= Len(bitcoin) /\ q = bitcoin[x]
           /\ z[1] = bitcoin[x]
    BY <1>2, <1>3 DEF BuildIsTrue, Names
<1>5. PICK p, s : /\ p = [path |-> q, hashes |-> z, height |-> x]
                  /\ s = IF t - x + 1 >= DEEP_CONFIRMATION_DEPTH THEN "long" ELSE "short"
    OBVIOUS
<1>6. cached' = [status |-> 200, proof |-> p, ttl |-> s, clean |-> w]
    BY <1>1, <1>2, <1>5 DEF Proof!isDeep, Proof!available
<1>7. p.height = x /\ p.path = q /\ p.hashes = z
    BY <1>5
<1>8. bitcoin \in Seq(1..mined) /\ DEEP_CONFIRMATION_DEPTH \in Nat
    BY ProofAssumption DEF ProofInv, ChainIsPlain
<1>9. w /\ s = "long" => x <= Len(bitcoin) - DEEP_CONFIRMATION_DEPTH + 1
  <2> SUFFICES ASSUME w, s = "long" PROVE x <= Len(bitcoin) - DEEP_CONFIRMATION_DEPTH + 1
      OBVIOUS
  <2>1. t - x + 1 >= DEEP_CONFIRMATION_DEPTH
      BY <1>5
  <2>2. Len(bitcoin) \in Nat
      BY <1>8, LenProperties
  <2> QED
      BY <1>4, <1>8, <2>1, <2>2
<1>10. Len(bitcoin') = Len(bitcoin) /\ bitcoin'[x] = bitcoin[x]
    BY <1>1
<1>11. ServesTrue(cached)'
    BY <1>4, <1>6, <1>7, <1>9, <1>10 DEF ServesTrue
<1> QED
    BY <1>1, <1>11, ChainKept DEF ProofInv

\* What is cached goes away.
LEMMA CacheGoes ==
    ASSUME ProofInv, Proof!CacheExpires
    PROVE  ProofInv'
<1>1. /\ bitcoin' = bitcoin /\ holders' = holders /\ mined' = mined /\ lc' = lc
      /\ lcSeen' = lcSeen /\ build' = build /\ cached' = None /\ answer' = answer
    BY DEF Proof!CacheExpires, Proof!bitcoin
<1> QED
    BY <1>1, ChainKept DEF ProofInv

\* A light client on the best chain that is deep enough accepts a clean proof.
LEMMA ProofVerifies ==
    ASSUME ProofInv, cached # None, cached.status = 200, cached.clean, lcSeen # Unknown,
           Proof!lightClientHolds(cached.proof), Proof!IsPrefixOf(lc, bitcoin)
    PROVE  Proof!verifies(cached.proof)
<1> DEFINE h == cached.proof.height
<1>1. /\ h \in 1..Len(bitcoin) /\ cached.proof.path = bitcoin[h]
      /\ cached.proof.hashes[1] = bitcoin[h]
    BY DEF ProofInv, ServesTrue
<1>2. /\ lcSeen \in Nat /\ lcSeen <= Len(lc) /\ lcSeen >= h + confirmations - 1
      /\ confirmations \in Nat \ {0}
    BY ProofAssumption DEF ProofInv, ClientGrows, Proof!lightClientHolds
<1>3. bitcoin \in Seq(1..mined)
    BY DEF ProofInv, ChainIsPlain
<1>4. /\ Len(bitcoin) \in Nat /\ Len(lc) \in Nat
      /\ \A j \in 1..Len(bitcoin) : bitcoin[j] \in 1..mined
  <2>1. Len(lc) \in Nat
      BY DEF ProofInv, ClientGrows
  <2>2. Len(bitcoin) \in Nat
      BY <1>3, LenProperties
  <2>3. \A j \in 1..Len(bitcoin) : bitcoin[j] \in 1..mined
      BY <1>3, ElementOfSeq
  <2> QED
      BY <2>1, <2>2, <2>3
<1>5. PICK n \in Nat : n = Len(lc)
    BY <1>4
<1>6. n <= Len(bitcoin) /\ lc = SubSeq(bitcoin, 1, n)
    BY <1>5 DEF Proof!IsPrefixOf
<1> HIDE DEF h
<1>7. h \in 1..n /\ h + confirmations - 1 <= n
    BY <1>1, <1>2, <1>4, <1>5
<1>8. \A j \in 1..n : bitcoin[j] \in 1..mined
    BY <1>4, <1>6
<1>9. SubSeq(bitcoin, 1, n)[h] = bitcoin[h]
  <2>1. \A j \in 1..(n - 1 + 1) : SubSeq(bitcoin, 1, n)[j] = bitcoin[1 + j - 1]
      BY <1>8, SubSeqProperties
  <2>2. h \in 1..(n - 1 + 1) /\ 1 + h - 1 = h
      BY <1>7
  <2> QED
      BY <2>1, <2>2
<1>10. lc[h] = bitcoin[h] /\ h + confirmations - 1 <= Len(lc)
    BY <1>5, <1>6, <1>7, <1>9
<1> QED
    BY <1>1, <1>10 DEF Proof!verifies, h

\* A cached answer is sent.
LEMMA AnswerIsGood ==
    ASSUME ProofInv, Proof!Answer
    PROVE  ProofInv'
<1>1. /\ bitcoin' = bitcoin /\ holders' = holders /\ mined' = mined /\ lc' = lc
      /\ lcSeen' = lcSeen /\ build' = build /\ cached' = cached /\ cached # None
    BY DEF Proof!Answer, Proof!bitcoin
<1>2. answer'.good
  <2>1. CASE cached.status # 200
    <3>1. answer' = [status |-> cached.status, good |-> TRUE]
        BY <2>1 DEF Proof!Answer
    <3> QED
        BY <3>1
  <2>2. CASE cached.status = 200 /\ ~Proof!lightClientHolds(cached.proof)
    <3>1. answer' = [status |-> 409, good |-> TRUE]
        BY <2>2 DEF Proof!Answer
    <3> QED
        BY <3>1
  <2>3. CASE cached.status = 200 /\ Proof!lightClientHolds(cached.proof)
    <3>1. PICK g : g = (\/ lcSeen = Unknown
                        \/ ~Proof!IsPrefixOf(lc, bitcoin)
                        \/ ~cached.clean
                        \/ Proof!verifies(cached.proof))
        OBVIOUS
    <3>2. answer' = [status |-> 200, good |-> g]
        BY <2>3, <3>1 DEF Proof!Answer
    <3>3. g
        BY <1>1, <2>3, <3>1, ProofVerifies
    <3> QED
        BY <3>2, <3>3
  <2> QED
      BY <2>1, <2>2, <2>3
<1> QED
    BY <1>1, <1>2, ChainKept DEF ProofInv

\* One step of the proof route, whichever it is.
LEMMA ProofStep ==
    ASSUME ProofInv, Proof!Next
    PROVE  ProofInv'
BY OthersMove, BlockIsMined, ChainReorganises, ClientMoves, BuildStartsOrFails, InfoIsRead,
   TipIsRead, PathIsRead, HashIsRead, ProofIsCached, CacheGoes, AnswerIsGood DEF Proof!Next

\* The proof's invariant holds at the start.
LEMMA ProofStarts ==
    ASSUME Proof!Init
    PROVE  ProofInv
<1>1. /\ mined = Len(bitcoin) /\ lc = <<1>> /\ lcSeen = Unknown /\ build = None
      /\ cached = None /\ answer = None
    BY DEF Proof!Init
<1>2. \/ bitcoin = <<1>> /\ holders = {}
      \/ bitcoin = <<1, 2, 3>> /\ holders = {2}
    BY DEF Proof!Init
<1>3. CASE bitcoin = <<1>> /\ holders = {}
  <2>1. Len(bitcoin) = 1 /\ bitcoin \in Seq(1..1) /\ mined = 1
      BY <1>1, <1>3
  <2> QED
      BY <1>1, <1>3, <2>1 DEF ProofInv, ChainIsPlain, ClientGrows
<1>4. CASE bitcoin = <<1, 2, 3>> /\ holders = {2}
  <2>1. Len(bitcoin) = 3 /\ bitcoin \in Seq(1..3) /\ mined = 3
      BY <1>1, <1>4
  <2>2. \A g \in 1..3 : bitcoin[g] \in holders => g = 2
      BY <1>4
  <2>3. ChainIsPlain
      BY <1>4, <2>1, <2>2 DEF ChainIsPlain
  <2> QED
      BY <1>1, <2>3 DEF ProofInv, ClientGrows
<1> QED
    BY <1>2, <1>3, <1>4

MCProofInv == part = "proof" => ProofInv

\* SpvProof, routes/proof.ts: a proof that is served as ready is one the light
\* client accepts, through every reorganisation shorter than the final depth,
\* unless the build itself was disturbed.
THEOREM ProofsServedVerify == MCSpec => []ServedProofVerifies
<1>1. MCInit => MCProofInv
    BY ProofStarts DEF MCInit, MCProofInv
<1>2. MCProofInv /\ [MCNext]_all => MCProofInv'
  <2> SUFFICES ASSUME MCProofInv, [MCNext]_all, part' = "proof" PROVE ProofInv'
      BY DEF MCProofInv
  <2>1. CASE SpvNext
      BY <2>1 DEF SpvNext
  <2>2. CASE AlgorithmsNext
      BY <2>2 DEF AlgorithmsNext
  <2>3. CASE ProofNext
      BY <2>3, ProofStep DEF ProofNext, MCProofInv
  <2>4. CASE UNCHANGED all
    <3>1. /\ part' = part /\ bitcoin' = bitcoin /\ holders' = holders /\ mined' = mined
          /\ lc' = lc /\ lcSeen' = lcSeen /\ build' = build /\ cached' = cached
          /\ answer' = answer
        BY <2>4 DEF all, proofVars
    <3> QED
        BY <3>1, ChainKept DEF MCProofInv, ProofInv
  <2> QED
      BY <2>1, <2>2, <2>3, <2>4 DEF MCNext
<1>3. MCProofInv => ServedProofVerifies
    BY DEF MCProofInv, ProofInv, ServedProofVerifies, Proof!ServedProofVerifies
<1> QED
    BY <1>1, <1>2, <1>3, PTL DEF MCSpec

============================================================================
