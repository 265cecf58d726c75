-------------------------- MODULE ClientNoticesProofs --------------------------
(***************************************************************************)
(* What the network is told: proofs about the notifications of             *)
(* ClientImport, about its block rules and about its types, for any        *)
(* callers, labels, block rules and bounds.                                *)
(***************************************************************************)
EXTENDS ClientImportProofs, FiniteSetTheorems

(* A caller that imports or notifies has the import lock. *)
LockHeld ==
    \A c \in Callers : caller[c].stage \in {"import", "notify"} => lock = {c}

TypeInv == TypeOK /\ LockHeld

LEMMA AtMostOne == Cardinality({}) <= 1 /\ \A x : Cardinality({x}) <= 1
  BY FS_EmptySet, FS_Singleton

LEMMA BecomeFields ==
    ASSUME TypeOK, NEW c \in Callers, NEW state, Become(c, state)
    PROVE  /\ \A d \in Callers : caller'[d] = IF d = c THEN state ELSE caller[d]
           /\ DOMAIN caller' = Callers
           /\ state \in CallerState => caller' \in [Callers -> CallerState]
  BY DEF Become, TypeOK

(* The states of a caller, by stage. *)
LEMMA CallerFields ==
    ASSUME TypeOK, NEW c \in Callers
    PROVE  /\ caller[c].stage \in {"prepare", "apply", "import"} =>
                caller[c] \in [stage : {"prepare", "apply", "import"}, block : Blocks,
                               origin : Origins]
           /\ caller[c].stage = "notify" =>
                caller[c].imports \in Seq(Notice) /\ caller[c].finals \in Seq(Blocks)
  <1>1. caller[c] \in CallerState
    BY DEF TypeOK
  <1> QED BY <1>1 DEF CallerState, Idle

-----------------------------------------------------------------------------
(* The notifications of a finality call. *)

LEMMA BlockAtBlock ==
    ASSUME NEW b \in Blocks, NEW n \in Nat, n <= Len(b)
    PROVE  BlockAt(b, n) \in Blocks /\ Len(BlockAt(b, n)) = n /\ IsPrefix(BlockAt(b, n), b)
  <1>1. PICK m \in 0..MaxHeight : b \in [1..m -> Labels]
    BY DEF Blocks
  <1>2. m \in Nat /\ MaxHeight \in Nat /\ Len(b) = m /\ b \in Seq(Labels)
    BY <1>1, ClientAssumption
  <1>3. BlockAt(b, n) \in [1..n -> Labels] /\ Len(BlockAt(b, n)) = n
    <2>1. BlockAt(b, n) \in Seq(Labels) /\ Len(BlockAt(b, n)) = n
      BY <1>2 DEF BlockAt
    <2> QED BY <2>1
  <1>4. n \in 0..MaxHeight
    BY <1>1, <1>2
  <1>5. BlockAt(b, n) \in Blocks
    BY <1>3, <1>4 DEF Blocks
  <1>6. IsPrefix(BlockAt(b, n), b)
    BY <1>2, <1>3 DEF IsPrefix, BlockAt
  <1> QED BY <1>3, <1>5, <1>6

(* The blocks a finality call announces: the last ones up to the new         *)
(* finalized block, in order and without a hole.                             *)
FinalsOf(block, finals, off) ==
    /\ finals \in Seq(Blocks) /\ Len(finals) \in Nat \ {0}
    /\ Len(block) = Len(finalized) + off + Len(finals)
    /\ \A i \in 1..Len(finals) : finals[i] = BlockAt(block, Len(finalized) + off + i)

LEMMA FinalsShape ==
    ASSUME finalized \in Blocks, NEW block \in Blocks, IsPrefix(finalized, block),
           block # finalized
    PROVE  \E off \in Nat : FinalsOf(block, LastToNotify(Enacted(block)), off)
  <1> DEFINE finals == LastToNotify(Enacted(block))
  <1>1. block \in Seq(Labels) /\ finalized \in Seq(Labels)
    BY BlocksAreSeqs
  <1>2. PICK low \in Nat : low = Len(finalized)
    BY <1>1
  <1>3. PICK len \in Nat \ {0} : Len(block) = low + len
    <2>1. Len(block) \in Nat /\ low <= Len(block) /\ low # Len(block)
      BY <1>1, <1>2 DEF IsPrefix
    <2>2. Len(block) - low \in Nat \ {0} /\ Len(block) = low + (Len(block) - low)
      BY <2>1, <1>2
    <2> QED BY <2>2
  <1> DEFINE e == Enacted(block)
  <1>4. e = [i \in 1..len |-> BlockAt(block, low + i)]
    BY <1>2, <1>3 DEF Enacted
  <1>5. \A i \in 1..len : BlockAt(block, low + i) \in Blocks
    BY <1>2, <1>3, BlockAtBlock
  <1>6. e \in Seq(Blocks) /\ Len(e) = len /\ \A i \in 1..len : e[i] = BlockAt(block, low + i)
    BY <1>4, <1>5
  <1> HIDE DEF e
  <1>7. MaxToNotify \in Nat \ {0}
    BY ClientAssumption
  <1> DEFINE off == IF len > MaxToNotify THEN len - MaxToNotify ELSE 0
  <1>8. off \in Nat /\ off < len
    BY <1>7
  <1>9. finals = SubSeq(e, off + 1, len)
    <2>1. finals = LastToNotify(e)
      BY DEF e
    <2> HIDE DEF finals
    <2>2. finals = SubSeq(e, IF len > MaxToNotify THEN len - MaxToNotify + 1 ELSE 1, len)
      BY <1>6, <2>1 DEF LastToNotify
    <2>3. off + 1 = IF len > MaxToNotify THEN len - MaxToNotify + 1 ELSE 1
      BY <1>7
    <2> HIDE DEF off
    <2> QED BY <2>2, <2>3
  <1> HIDE DEF off, finals
  <1>10. /\ finals \in Seq(Blocks) /\ Len(finals) = len - off
         /\ \A i \in 1..(len - off) : finals[i] = e[off + i]
    BY <1>6, <1>8, <1>9
  <1>11. \A i \in 1..Len(finals) : finals[i] = BlockAt(block, low + off + i)
    <2> SUFFICES ASSUME NEW i \in 1..(len - off)
                 PROVE  finals[i] = BlockAt(block, low + off + i)
      BY <1>10
    <2>1. off + i \in 1..len /\ low + (off + i) = low + off + i
      BY <1>8
    <2> QED BY <1>6, <1>10, <2>1
  <1>12. Len(finals) \in Nat \ {0} /\ Len(block) = Len(finalized) + off + Len(finals)
    BY <1>2, <1>3, <1>8, <1>10
  <1>13. \A i \in 1..Len(finals) : finals[i] = BlockAt(block, Len(finalized) + off + i)
    BY <1>2, <1>11
  <1>14. FinalsOf(block, finals, off)
    BY <1>10, <1>12, <1>13 DEF FinalsOf
  <1> QED BY <1>8, <1>14 DEF finals

-----------------------------------------------------------------------------
(* Types and the import lock. *)

(* The backend and the streams, apart from the callers. *)
LEMMA CallersType ==
    ASSUME TypeOK, UNCHANGED <<backendVars, queueVars, net>>,
           caller' \in [Callers -> CallerState],
           importing' \subseteq Blocks, Cardinality(importing') <= 1,
           lock' \subseteq Callers, Cardinality(lock') <= 1
    PROVE  TypeOK'
  BY DEF TypeOK, backendVars, queueVars

(* The commit of an import: one notice about the block, or none when the      *)
(* block is synced and re-organises nothing.                                 *)
ImportTells(c, imports) ==
    /\ caller[c].block \in Blocks /\ caller[c].block \notin stored
    /\ stored' = stored \cup {caller[c].block} /\ best' \in {best, caller[c].block}
    /\ Committed(c, imports, << >>)
    /\ \/ imports = << >> /\ caller[c].origin # "broadcast"
       \/ /\ Len(imports) = 1 /\ imports[1].hash = caller[c].block
          /\ best' = IF imports[1].isNewBest THEN caller[c].block ELSE best

LEMMA ImportEffect ==
    ASSUME TypeOK, NEW c \in Callers, ExecuteAndImportBlock(c)
    PROVE  \E imports \in Seq(Notice) : ImportTells(c, imports)
  <1> DEFINE block == caller[c].block
  <1>1. block \in Blocks
    BY CallerFields DEF ExecuteAndImportBlock
  <1>2. block \notin stored /\ stored' = stored \cup {block}
    BY DEF ExecuteAndImportBlock, Importable
  <1>3. PICK choice \in {"longest", "best", "not_best"} :
           LET new == IsNewBest(block, choice)
               reorg == new /\ best # Parent(block)
           IN  /\ best' = IF new THEN block ELSE best
               /\ Committed(c, IF caller[c].origin = "broadcast" \/ reorg
                               THEN <<[hash |-> block, isNewBest |-> new]>>
                               ELSE << >>, << >>)
    BY DEF ExecuteAndImportBlock
  <1> DEFINE new == IsNewBest(block, choice)
             notice == [hash |-> block, isNewBest |-> new]
  <1>4. notice \in Notice /\ notice.hash = block /\ notice.isNewBest = new
    BY <1>1 DEF Notice, IsNewBest
  <1>5. \/ Committed(c, <<notice>>, << >>)
        \/ Committed(c, << >>, << >>) /\ caller[c].origin # "broadcast"
    BY <1>3
  <1>6. best' = IF new THEN block ELSE best
    BY <1>3
  <1> HIDE DEF notice, new
  <1>7. /\ <<notice>> \in Seq(Notice) /\ Len(<<notice>>) = 1 /\ <<notice>>[1] = notice
        /\ << >> \in Seq(Notice)
    BY <1>4
  <1>8. CASE Committed(c, <<notice>>, << >>)
    <2> DEFINE q == <<notice>>
    <2>1. q \in Seq(Notice) /\ Len(q) = 1 /\ q[1].hash = block /\ q[1].isNewBest = new
      BY <1>4, <1>7
    <2>2. Committed(c, q, << >>)
      BY <1>8
    <2> HIDE DEF q
    <2>3. ImportTells(c, q)
      BY <1>1, <1>2, <1>6, <2>1, <2>2 DEF ImportTells
    <2> QED BY <2>1, <2>3
  <1>9. CASE Committed(c, << >>, << >>) /\ caller[c].origin # "broadcast"
    <2>1. ImportTells(c, << >>)
      BY <1>1, <1>2, <1>6, <1>9 DEF ImportTells
    <2> QED BY <1>7, <2>1
  <1> QED BY <1>5, <1>8, <1>9

LEMMA ImportTypes ==
    ASSUME TypeInv, NEW c \in Callers, Import(c)
    PROVE  TypeInv'
  <1>0. TypeOK /\ LockHeld
    BY DEF TypeInv
  <1>1. CASE CheckBlock(c)
    <2>1. PICK block \in Blocks, origin \in Origins :
             Become(c, [stage |-> "prepare", block |-> block, origin |-> origin])
      BY <1>1 DEF CheckBlock
    <2> DEFINE state == [stage |-> "prepare", block |-> block, origin |-> origin]
    <2>2. state \in CallerState /\ state.stage = "prepare"
      BY DEF CallerState
    <2> HIDE DEF state
    <2>3. Become(c, state)
      BY <2>1 DEF state
    <2>4. UNCHANGED <<backendVars, queueVars, net, importing, lock>>
      BY <1>1 DEF CheckBlock
    <2>5. TypeOK'
      BY <1>0, <2>2, <2>3, <2>4, BecomeFields, CallersType DEF TypeOK
    <2>6. LockHeld'
      BY <1>0, <2>2, <2>3, <2>4, BecomeFields DEF LockHeld
    <2> QED BY <2>5, <2>6 DEF TypeInv
  <1>2. CASE PrepareBlock(c) \/ ApplyBlock(c)
    <2> DEFINE to == IF caller[c].stage = "prepare" THEN "apply" ELSE "import"
               state == [caller[c] EXCEPT !.stage = to]
    <2>1. /\ UNCHANGED <<backendVars, queueVars, net>>
          /\ caller[c].stage \in {"prepare", "apply"}
          /\ Become(c, state)
      BY <1>2 DEF PrepareBlock, ApplyBlock
    <2>2. caller[c] \in [stage : {"prepare", "apply", "import"}, block : Blocks,
                         origin : Origins]
      BY <1>0, <2>1, CallerFields
    <2>3. /\ state \in [stage : {"prepare", "apply", "import"}, block : Blocks,
                         origin : Origins]
          /\ state.stage = to
      BY <2>2
    <2> HIDE DEF state
    <2>4. caller' \in [Callers -> CallerState]
      BY <1>0, <2>1, <2>3, BecomeFields DEF CallerState
    <2>5. CASE PrepareBlock(c)
      <3>1. UNCHANGED <<importing, lock>> /\ to = "apply"
        BY <2>5 DEF PrepareBlock
      <3>2. TypeOK'
        BY <1>0, <2>1, <2>4, <3>1, CallersType DEF TypeOK
      <3>3. LockHeld'
        BY <1>0, <2>1, <2>3, <3>1, BecomeFields DEF LockHeld
      <3> QED BY <3>2, <3>3 DEF TypeInv
    <2>6. CASE ApplyBlock(c)
      <3>1. /\ importing' = {caller[c].block} /\ lock' = {c} /\ lock = {}
        BY <2>6 DEF ApplyBlock
      <3>2. caller[c].block \in Blocks
        BY <2>2
      <3>3. TypeOK'
        BY <1>0, <2>1, <2>4, <3>1, <3>2, CallersType, AtMostOne
      <3>4. LockHeld'
        BY <1>0, <2>1, <3>1, BecomeFields DEF LockHeld
      <3> QED BY <3>3, <3>4 DEF TypeInv
    <2> QED BY <1>2, <2>5, <2>6
  <1>3. CASE PrepareFails(c)
    <2>1. Become(c, Idle) /\ UNCHANGED <<backendVars, queueVars, net, importing, lock>>
      BY <1>3 DEF PrepareFails
    <2>2. Idle \in CallerState /\ Idle.stage = "idle"
      BY DEF CallerState, Idle
    <2>3. TypeOK'
      BY <1>0, <2>1, <2>2, BecomeFields, CallersType DEF TypeOK
    <2>4. LockHeld'
      BY <1>0, <2>1, <2>2, BecomeFields DEF LockHeld
    <2> QED BY <2>3, <2>4 DEF TypeInv
  <1>4. CASE ExecuteAndImportBlock(c)
    <2>1. PICK imports \in Seq(Notice) : ImportTells(c, imports)
      BY <1>0, <1>4, ImportEffect
    <2> DEFINE state == [stage |-> "notify", imports |-> imports, finals |-> << >>]
    <2>2. state \in CallerState /\ state.stage = "notify"
      BY DEF CallerState
    <2> HIDE DEF state
    <2>3. Become(c, state)
      BY <2>1 DEF ImportTells, Committed, state
    <2>4. caller' \in [Callers -> CallerState]
      BY <1>0, <2>2, <2>3, BecomeFields
    <2>5. UNCHANGED <<finalized, importing, lock, importQ, finalQ, unsent, net>> /\ lock = {c}
      BY <1>0, <1>4 DEF ExecuteAndImportBlock, LockHeld, queueVars
    <2>6. TypeOK'
      BY <1>0, <2>1, <2>4, <2>5 DEF TypeOK, ImportTells
    <2>7. LockHeld'
      BY <1>0, <2>2, <2>3, <2>5, BecomeFields DEF LockHeld
    <2> QED BY <2>6, <2>7 DEF TypeInv
  <1>5. CASE ImportFails(c)
    <2> DEFINE state == [stage |-> "clear"]
    <2>1. /\ Become(c, state) /\ UNCHANGED <<backendVars, queueVars, net, importing>>
          /\ lock' = {} /\ lock = {c}
      BY <1>0, <1>5 DEF ImportFails, Released, LockHeld
    <2>2. state \in CallerState /\ state.stage = "clear"
      BY DEF CallerState
    <2> HIDE DEF state
    <2>3. TypeOK'
      BY <1>0, <2>1, <2>2, BecomeFields, CallersType, AtMostOne DEF TypeOK
    <2>4. LockHeld'
      BY <1>0, <2>1, <2>2, BecomeFields DEF LockHeld
    <2> QED BY <2>3, <2>4 DEF TypeInv
  <1> QED BY <1>1, <1>2, <1>3, <1>4, <1>5 DEF Import

(* A commit under a lock that was free. *)
LEMMA CommitTypes ==
    ASSUME TypeInv, NEW c \in Callers, lock = {}, lock' = {c}, NEW finals \in Seq(Blocks),
           Committed(c, << >>, finals)
    PROVE  caller' \in [Callers -> CallerState] /\ LockHeld'
  <1> DEFINE state == [stage |-> "notify", imports |-> << >>, finals |-> finals]
  <1>1. state \in CallerState /\ state.stage = "notify"
    <2>1. << >> \in Seq(Notice)
      OBVIOUS
    <2> QED BY <2>1 DEF CallerState
  <1> HIDE DEF state
  <1>2. Become(c, state)
    BY DEF Committed, state
  <1> QED BY <1>1, <1>2, BecomeFields DEF TypeInv, LockHeld

LEMMA FinalizeTypes ==
    ASSUME TypeInv, NEW c \in Callers, Finalize(c) \/ InsertAux(c)
    PROVE  TypeInv'
  <1>0. TypeOK /\ LockHeld
    BY DEF TypeInv
  <1>1. CASE FinalizeBlock(c)
    <2>1. PICK block \in Blocks :
             /\ CanFinalize(block) /\ best' = MarkHead(block) /\ finalized' = block
             /\ Committed(c, << >>, LastToNotify(Enacted(block)))
      BY <1>1 DEF FinalizeBlock
    <2>2. /\ lock = {} /\ lock' = {c}
          /\ UNCHANGED <<stored, importing, importQ, finalQ, unsent, net>>
      BY <1>1 DEF FinalizeBlock, queueVars
    <2>3. LastToNotify(Enacted(block)) \in Seq(Blocks)
      BY <1>0, <2>1, FinalsShape DEF CanFinalize, TypeOK, FinalsOf
    <2>4. caller' \in [Callers -> CallerState] /\ LockHeld'
      BY <2>1, <2>2, <2>3, CommitTypes
    <2>5. best' \in stored /\ finalized' \in stored
      BY <1>0, <2>1 DEF TypeOK, CanFinalize, MarkHead
    <2>6. TypeOK'
      BY <1>0, <2>2, <2>4, <2>5, AtMostOne DEF TypeOK
    <2> QED BY <2>4, <2>6 DEF TypeInv
  <1>2. CASE FinalizeFails(c)
    <2> DEFINE state == [stage |-> "clear"]
    <2>1. /\ Become(c, state) /\ UNCHANGED <<backendVars, queueVars, net, importing>>
          /\ lock' = {} /\ lock = {}
      BY <1>0, <1>2 DEF FinalizeFails, Released
    <2>2. state \in CallerState /\ state.stage = "clear"
      BY DEF CallerState
    <2> HIDE DEF state
    <2>3. TypeOK'
      BY <1>0, <2>1, <2>2, BecomeFields, CallersType, AtMostOne DEF TypeOK
    <2>4. LockHeld'
      BY <1>0, <2>1, <2>2, BecomeFields DEF LockHeld
    <2> QED BY <2>3, <2>4 DEF TypeInv
  <1>3. CASE InsertAux(c)
    <2>1. /\ lock = {} /\ lock' = {c} /\ Committed(c, << >>, << >>)
          /\ UNCHANGED <<backendVars, importing, queueVars, net>>
      BY <1>3 DEF InsertAux
    <2>2. << >> \in Seq(Blocks)
      OBVIOUS
    <2>3. caller' \in [Callers -> CallerState] /\ LockHeld'
      BY <2>1, <2>2, CommitTypes
    <2>4. TypeOK'
      BY <1>0, <2>1, <2>3, CallersType, AtMostOne DEF TypeOK
    <2> QED BY <2>3, <2>4 DEF TypeInv
  <1> QED BY <1>1, <1>2, <1>3 DEF Finalize

LEMMA FinishTypes ==
    ASSUME TypeInv, NEW c \in Callers, Finish(c)
    PROVE  TypeInv'
  <1>0. TypeOK /\ LockHeld
    BY DEF TypeInv
  <1>1. CASE Notify(c)
    <2> DEFINE state == [stage |-> "clear"]
    <2>1. /\ Become(c, state) /\ UNCHANGED <<backendVars, importing, unsent, net>>
          /\ finalQ' = finalQ \o caller[c].finals /\ importQ' = importQ \o caller[c].imports
          /\ lock' = {} /\ lock = {c} /\ caller[c].stage = "notify"
      BY <1>0, <1>1 DEF Notify, LockHeld
    <2>2. state \in CallerState /\ state.stage = "clear"
      BY DEF CallerState
    <2> HIDE DEF state
    <2>3. caller[c].imports \in Seq(Notice) /\ caller[c].finals \in Seq(Blocks)
      BY <1>0, <2>1, CallerFields
    <2>4. caller' \in [Callers -> CallerState]
      BY <1>0, <2>1, <2>2, BecomeFields
    <2>5. finalQ' \in Seq(Blocks) /\ importQ' \in Seq(Notice)
      BY <1>0, <2>1, <2>3 DEF TypeOK
    <2>6. TypeOK'
      BY <1>0, <2>1, <2>4, <2>5, AtMostOne DEF TypeOK, backendVars
    <2>7. LockHeld'
      BY <1>0, <2>1, <2>2, BecomeFields DEF LockHeld
    <2> QED BY <2>6, <2>7 DEF TypeInv
  <1>2. CASE NotifyFails(c)
    <2> DEFINE state == [stage |-> "clear"]
    <2>1. PICK failed \in 1..Len(caller[c].finals) :
             /\ finalQ' = finalQ \o SentBefore(caller[c].finals, failed)
             /\ unsent' = unsent \cup DroppedFrom(caller[c].finals, failed)
      BY <1>2 DEF NotifyFails
    <2>2. /\ Become(c, state) /\ UNCHANGED <<backendVars, importing, importQ, net>>
          /\ lock' = {} /\ lock = {c} /\ caller[c].stage = "notify"
      BY <1>0, <1>2 DEF NotifyFails, LockHeld
    <2>3. state \in CallerState /\ state.stage = "clear"
      BY DEF CallerState
    <2> HIDE DEF state
    <2>4. caller[c].finals \in Seq(Blocks)
      BY <1>0, <2>2, CallerFields
    <2>5. caller' \in [Callers -> CallerState]
      BY <1>0, <2>2, <2>3, BecomeFields
    <2>6. finalQ' \in Seq(Blocks) /\ unsent' \subseteq Blocks
      <3>1. PICK finals \in Seq(Blocks) : finals = caller[c].finals
        BY <2>4
      <3>2. SubSeq(finals, 1, failed - 1) \in Seq(Blocks)
        BY <3>1
      <3>3. \A i \in failed..Len(finals) : finals[i] \in Blocks
        BY <3>1
      <3>4. DroppedFrom(finals, failed) \subseteq Blocks
        BY <3>3 DEF DroppedFrom
      <3> QED BY <1>0, <2>1, <3>1, <3>2, <3>4 DEF TypeOK, SentBefore
    <2>7. TypeOK'
      BY <1>0, <2>2, <2>5, <2>6, AtMostOne DEF TypeOK, backendVars
    <2>8. LockHeld'
      BY <1>0, <2>2, <2>3, BecomeFields DEF LockHeld
    <2> QED BY <2>7, <2>8 DEF TypeInv
  <1>3. CASE ClearImporting(c)
    <2>1. /\ Become(c, Idle) /\ UNCHANGED <<backendVars, queueVars, net, lock>>
          /\ importing' = {}
      BY <1>3 DEF ClearImporting
    <2>2. Idle \in CallerState /\ Idle.stage = "idle"
      BY DEF CallerState, Idle
    <2>3. TypeOK'
      BY <1>0, <2>1, <2>2, BecomeFields, CallersType, AtMostOne DEF TypeOK
    <2>4. LockHeld'
      BY <1>0, <2>1, <2>2, BecomeFields DEF LockHeld
    <2> QED BY <2>3, <2>4 DEF TypeInv
  <1> QED BY <1>1, <1>2, <1>3 DEF Finish

LEMMA NetworkTypes == TypeInv /\ Network => TypeInv'
  <1> SUFFICES ASSUME TypeOK, LockHeld, Network PROVE TypeOK' /\ LockHeld'
    BY DEF TypeInv
  <1>1. UNCHANGED <<backendVars, importing, lock, caller>>
    BY DEF Network, NetworkImported, NetworkFinalized
  <1>2. LockHeld'
    BY <1>1 DEF LockHeld
  <1>3. CASE NetworkImported
    <2>1. /\ importQ # << >> /\ importQ' = Tail(importQ)
          /\ UNCHANGED <<finalQ, unsent>> /\ importQ \in Seq(Notice)
          /\ net.announced \subseteq Blocks
          /\ net.best \in Blocks /\ net.finalized \in Blocks
      BY <1>3 DEF NetworkImported, TypeOK
    <2>2. Head(importQ) \in Notice /\ Tail(importQ) \in Seq(Notice)
      BY <2>1
    <2>3. Head(importQ).hash \in Blocks
      BY <2>2 DEF Notice
    <2>4. net' \in [announced : SUBSET Blocks, best : Blocks, finalized : Blocks]
      BY <1>3, <2>1, <2>3 DEF NetworkImported
    <2> QED BY <1>1, <1>2, <2>1, <2>2, <2>4 DEF TypeOK, backendVars
  <1>4. CASE NetworkFinalized
    <2>1. /\ finalQ # << >> /\ finalQ' = << >>
          /\ UNCHANGED <<importQ, unsent>> /\ finalQ \in Seq(Blocks)
          /\ net \in [announced : SUBSET Blocks, best : Blocks, finalized : Blocks]
      BY <1>4 DEF NetworkFinalized, TypeOK
    <2>2. finalQ[Len(finalQ)] \in Blocks
      BY <2>1
    <2>3. net' \in [announced : SUBSET Blocks, best : Blocks, finalized : Blocks]
      BY <1>4, <2>1, <2>2 DEF NetworkFinalized, Merged
    <2>4. << >> \in Seq(Blocks)
      OBVIOUS
    <2> QED BY <1>1, <1>2, <2>1, <2>3, <2>4 DEF TypeOK, backendVars
  <1> QED BY <1>3, <1>4 DEF Network

LEMMA ClientTypesNext == TypeInv /\ [Next]_vars => TypeInv'
  <1> SUFFICES ASSUME TypeInv, [Next]_vars PROVE TypeInv'
    OBVIOUS
  <1>1. CASE Next
    BY <1>1, ImportTypes, FinalizeTypes, FinishTypes, NetworkTypes DEF Next
  <1>2. CASE UNCHANGED vars
    <2>1. TypeOK'
      BY <1>2, CallersType DEF TypeInv, TypeOK, vars
    <2>2. LockHeld'
      BY <1>2 DEF TypeInv, LockHeld, vars
    <2> QED BY <2>1, <2>2 DEF TypeInv
  <1> QED BY <1>1, <1>2

LEMMA ClientTypeInv == Spec => []TypeInv
  <1>1. Init => TypeInv
    <2> SUFFICES ASSUME Init PROVE TypeOK /\ LockHeld
      BY DEF TypeInv
    <2>1. LockHeld
      BY DEF Init, LockHeld, Idle
    <2>2. caller \in [Callers -> CallerState]
      BY DEF Init, CallerState
    <2>3. << >> \in Seq(Notice) /\ << >> \in Seq(Blocks) /\ Genesis \in Blocks
      BY BlocksAreSeqs
    <2>4. net \in [announced : SUBSET Blocks, best : Blocks, finalized : Blocks]
      BY <2>3 DEF Init
    <2>5. TypeOK
      BY <2>2, <2>3, <2>4, AtMostOne DEF Init, TypeOK
    <2> QED BY <2>1, <2>5
  <1> QED BY <1>1, ClientTypesNext, PTL DEF Spec

(* Every variable of the client keeps its shape, and the import lock and the *)
(* marker importing_block have one holder at most.                           *)
THEOREM ClientTypes == Spec => []TypeOK
  <1>1. TypeInv => TypeOK
    BY DEF TypeInv
  <1> QED BY <1>1, ClientTypeInv, PTL

-----------------------------------------------------------------------------
(* The block rules. *)

(* A block that passed check_block keeps to the rules until it is stored. *)
InFlightGood ==
    \A c \in Callers :
       caller[c].stage \in {"prepare", "apply", "import"} => NotSpecial(caller[c].block)
RulesInv == NoBadAncestor /\ InFlightGood

(* A good block on a stored parent has good ancestors only. *)
LEMMA GoodChild ==
    ASSUME NoBadAncestor, stored \subseteq Blocks, NEW block \in Blocks,
           Parent(block) \in stored, NotSpecial(block), NEW n \in 1..Len(block)
    PROVE  /\ BlockAt(block, n) \notin BadBlocks
           /\ n \in DOMAIN ForkBlocks => ForkBlocks[n] = BlockAt(block, n)
  <1>1. block \in Seq(Labels) /\ Len(block) \in Nat
    BY BlocksAreSeqs
  <1>2. CASE n = Len(block)
    <2>1. BlockAt(block, n) = block
      BY <1>1, <1>2 DEF BlockAt
    <2> QED BY <1>2, <2>1 DEF NotSpecial
  <1>3. CASE n # Len(block)
    <2>1. /\ n \in 1..(Len(block) - 1) /\ Len(Parent(block)) = Len(block) - 1
          /\ Parent(block) \in Seq(Labels)
      BY <1>1, <1>3 DEF Parent
    <2>2. BlockAt(block, n) = BlockAt(Parent(block), n)
      BY <1>1, <2>1 DEF BlockAt, Parent
    <2>3. n \in 1..Len(Parent(block))
      BY <2>1
    <2> QED BY <2>2, <2>3 DEF NoBadAncestor
  <1> QED BY <1>2, <1>3

LEMMA RulesNext == TypeInv /\ ClientInv /\ RulesInv /\ [Next]_vars => RulesInv'
  <1> SUFFICES ASSUME TypeInv, ClientInv, RulesInv, [Next]_vars PROVE RulesInv'
    OBVIOUS
  <1>0. TypeOK /\ NoBadAncestor /\ InFlightGood
    BY DEF TypeInv, RulesInv
  <1>1. ASSUME NEW c \in Callers, CheckBlock(c) PROVE RulesInv'
    <2>1. PICK block \in Blocks, origin \in Origins :
             /\ NotSpecial(block)
             /\ Become(c, [stage |-> "prepare", block |-> block, origin |-> origin])
      BY <1>1 DEF CheckBlock
    <2>2. stored' = stored
      BY <1>1 DEF CheckBlock, backendVars
    <2>3. InFlightGood'
      BY <1>0, <2>1, BecomeFields DEF InFlightGood, NotSpecial
    <2> QED BY <1>0, <2>2, <2>3 DEF RulesInv, NoBadAncestor
  <1>2. ASSUME NEW c \in Callers, PrepareBlock(c) \/ ApplyBlock(c) PROVE RulesInv'
    <2> DEFINE to == IF caller[c].stage = "prepare" THEN "apply" ELSE "import"
               state == [caller[c] EXCEPT !.stage = to]
    <2>1. /\ caller[c].stage \in {"prepare", "apply"} /\ Become(c, state)
          /\ stored' = stored
      BY <1>2 DEF PrepareBlock, ApplyBlock, backendVars
    <2>2. state.block = caller[c].block
      BY <1>0, <2>1, CallerFields
    <2> HIDE DEF state
    <2>3. InFlightGood'
      BY <1>0, <2>1, <2>2, BecomeFields DEF InFlightGood, NotSpecial
    <2> QED BY <1>0, <2>1, <2>3 DEF RulesInv, NoBadAncestor
  <1>3. ASSUME NEW c \in Callers, ExecuteAndImportBlock(c) PROVE RulesInv'
    <2>1. PICK imports \in Seq(Notice) : ImportTells(c, imports)
      BY <1>0, <1>3, ImportEffect
    <2> DEFINE block == caller[c].block
               state == [stage |-> "notify", imports |-> imports, finals |-> << >>]
    <2>2. /\ block \in Blocks /\ stored' = stored \cup {block}
          /\ Become(c, state) /\ state.stage = "notify"
      BY <2>1 DEF ImportTells, Committed
    <2>3. Parent(block) \in stored /\ NotSpecial(block)
      BY <1>0, <1>3 DEF ClientInv, CallersReady, InFlightGood, ExecuteAndImportBlock
    <2> HIDE DEF state, block
    <2>4. InFlightGood'
      BY <1>0, <2>2, BecomeFields DEF InFlightGood, NotSpecial
    <2>5. NoBadAncestor'
      BY <1>0, <2>2, <2>3, GoodChild DEF NoBadAncestor, TypeOK
    <2> QED BY <2>4, <2>5 DEF RulesInv
  <1>4. ASSUME NEW c \in Callers, NEW state, Become(c, state), stored' = stored,
               state.stage \notin {"prepare", "apply", "import"}
        PROVE  RulesInv'
    <2>1. InFlightGood'
      BY <1>0, <1>4, BecomeFields DEF InFlightGood, NotSpecial
    <2> QED BY <1>0, <1>4, <2>1 DEF RulesInv, NoBadAncestor
  <1>5. CASE UNCHANGED <<stored, caller>>
    BY <1>0, <1>5 DEF RulesInv, NoBadAncestor, InFlightGood, NotSpecial
  <1>6. ASSUME NEW c \in Callers,
               PrepareFails(c) \/ ImportFails(c) \/ Finalize(c) \/ InsertAux(c) \/ Finish(c)
        PROVE  RulesInv'
    BY <1>4, <1>6 DEF PrepareFails, ImportFails, Released, Finalize, FinalizeBlock,
       FinalizeFails, InsertAux, Committed, Finish, Notify, NotifyFails, ClearImporting,
       Idle, backendVars
  <1> QED
    BY <1>1, <1>2, <1>3, <1>5, <1>6
    DEF Next, Import, Network, NetworkImported, NetworkFinalized, backendVars, vars

(* The block rules hold on every stored chain, although only check_block     *)
(* looks at them, before the lock, and only at the block itself.             *)
THEOREM RulesKept == Spec => []NoBadAncestor
  <1>1. Init => RulesInv
    <2> SUFFICES ASSUME Init PROVE RulesInv
      OBVIOUS
    <2>1. Len(Genesis) = 0
      BY DEF Genesis
    <2>2. NoBadAncestor
      BY <2>1 DEF Init, NoBadAncestor
    <2>3. InFlightGood
      BY DEF Init, InFlightGood, Idle
    <2> QED BY <2>2, <2>3 DEF RulesInv
  <1>2. RulesInv => NoBadAncestor
    BY DEF RulesInv
  <1> QED BY <1>1, <1>2, RulesNext, ClientTypeInv, ClientCorrect, PTL DEF Spec

-----------------------------------------------------------------------------
(* The steps, by what they mean for the notices: one caller at most has      *)
(* notices to send, and it has the lock.                                     *)

Notifying(c) == caller[c].stage = "notify"
NobodyNotifies == \A c \in Callers : ~Notifying(c)

(* Nothing to tell. *)
Quiet ==
    /\ UNCHANGED <<stored, best, finalized, importQ, finalQ, unsent, net>>
    /\ \A c \in Callers : /\ Notifying(c)' = Notifying(c)
                          /\ Notifying(c) => caller'[c] = caller[c]

(* A caller has committed and will tell. *)
Commits(c, imports, finals) ==
    /\ NobodyNotifies
    /\ \A d \in Callers : Notifying(d)' = (d = c)
    /\ caller'[c].imports = imports /\ caller'[c].finals = finals
    /\ UNCHANGED <<importQ, finalQ, unsent, net>>

(* It tells: the first notices of finality, and if these were all the        *)
(* imports too.                                                              *)
Tells(c, sent) ==
    /\ \A d \in Callers : Notifying(d) = (d = c)
    /\ NobodyNotifies'
    /\ caller[c].imports \in Seq(Notice) /\ caller[c].finals \in Seq(Blocks)
    /\ sent \in 0..Len(caller[c].finals)
    /\ finalQ' = finalQ \o SubSeq(caller[c].finals, 1, sent)
    /\ unsent' = unsent \cup DroppedFrom(caller[c].finals, sent + 1)
    /\ importQ' = IF sent = Len(caller[c].finals) THEN importQ \o caller[c].imports
                  ELSE importQ
    /\ UNCHANGED <<stored, best, finalized, net>>

LEMMA QuietBecome ==
    ASSUME TypeInv, NEW c \in Callers, NEW state, Become(c, state),
           ~Notifying(c), state.stage # "notify", UNCHANGED <<backendVars, queueVars, net>>
    PROVE  Quiet
  <1>1. \A d \in Callers : caller'[d] = IF d = c THEN state ELSE caller[d]
    BY BecomeFields DEF TypeInv
  <1>2. \A d \in Callers : /\ Notifying(d)' = Notifying(d)
                           /\ Notifying(d) => caller'[d] = caller[d]
    BY <1>1 DEF Notifying
  <1>3. UNCHANGED <<stored, best, finalized, importQ, finalQ, unsent, net>>
    BY DEF backendVars, queueVars
  <1> QED BY <1>2, <1>3 DEF Quiet

LEMMA QuietCaller ==
    ASSUME TypeInv, NEW c \in Callers,
           \/ CheckBlock(c) \/ PrepareBlock(c) \/ PrepareFails(c) \/ ApplyBlock(c)
           \/ ImportFails(c) \/ FinalizeFails(c) \/ ClearImporting(c)
    PROVE  Quiet
  <1>1. CASE CheckBlock(c)
    <2>1. PICK block \in Blocks, origin \in Origins :
             Become(c, [stage |-> "prepare", block |-> block, origin |-> origin])
      BY <1>1 DEF CheckBlock
    <2>2. ~Notifying(c) /\ UNCHANGED <<backendVars, queueVars, net>>
      BY <1>1 DEF CheckBlock, Notifying, Idle
    <2> QED BY <2>1, <2>2, QuietBecome
  <1>2. CASE PrepareBlock(c) \/ ApplyBlock(c)
    <2> DEFINE to == IF caller[c].stage = "prepare" THEN "apply" ELSE "import"
               state == [caller[c] EXCEPT !.stage = to]
    <2>1. /\ caller[c].stage \in {"prepare", "apply"} /\ Become(c, state)
          /\ UNCHANGED <<backendVars, queueVars, net>>
      BY <1>2 DEF PrepareBlock, ApplyBlock
    <2>2. state.stage = to
      BY <2>1, CallerFields DEF TypeInv
    <2> HIDE DEF state
    <2>3. ~Notifying(c) /\ state.stage # "notify"
      BY <2>1, <2>2 DEF Notifying
    <2> QED BY <2>1, <2>3, QuietBecome
  <1>3. CASE PrepareFails(c) \/ ImportFails(c) \/ FinalizeFails(c) \/ ClearImporting(c)
    <2>1. ~Notifying(c) /\ UNCHANGED <<backendVars, queueVars, net>>
      BY <1>3 DEF PrepareFails, ImportFails, FinalizeFails, Released, ClearImporting,
         Notifying, Idle
    <2>2. Become(c, Idle) \/ Become(c, [stage |-> "clear"])
      BY <1>3 DEF PrepareFails, ImportFails, FinalizeFails, Released, ClearImporting
    <2>3. Idle.stage # "notify"
      BY DEF Idle
    <2> QED BY <2>1, <2>2, <2>3, QuietBecome
  <1> QED BY <1>1, <1>2, <1>3

LEMMA CommitsCaller ==
    ASSUME TypeInv, NEW c \in Callers, lock = {} \/ caller[c].stage = "import",
           NEW imports, NEW finals, Committed(c, imports, finals),
           UNCHANGED <<queueVars, net>>
    PROVE  Commits(c, imports, finals)
  <1> DEFINE state == [stage |-> "notify", imports |-> imports, finals |-> finals]
  <1>1. state.stage = "notify" /\ state.imports = imports /\ state.finals = finals
    OBVIOUS
  <1>2. Become(c, state)
    BY DEF Committed
  <1> HIDE DEF state
  <1>3. \A d \in Callers : caller'[d] = IF d = c THEN state ELSE caller[d]
    BY <1>2, BecomeFields DEF TypeInv
  <1>4. NobodyNotifies
    BY DEF NobodyNotifies, Notifying, TypeInv, LockHeld
  <1>5. /\ \A d \in Callers : Notifying(d)' = (d = c)
        /\ caller'[c].imports = imports /\ caller'[c].finals = finals
    BY <1>1, <1>3, <1>4 DEF NobodyNotifies, Notifying
  <1>6. UNCHANGED <<importQ, finalQ, unsent, net>>
    BY DEF queueVars
  <1> QED BY <1>4, <1>5, <1>6 DEF Commits

LEMMA TellsCaller ==
    ASSUME TypeInv, NEW c \in Callers, Notify(c) \/ NotifyFails(c)
    PROVE  \E sent \in Nat : Tells(c, sent)
  <1> DEFINE state == [stage |-> "clear"]
  <1>1. Become(c, state) /\ caller[c].stage = "notify" /\ state.stage = "clear"
    BY DEF Notify, NotifyFails
  <1> HIDE DEF state
  <1>2. PICK finals \in Seq(Blocks) : finals = caller[c].finals
    BY <1>1, CallerFields DEF TypeInv
  <1>3. PICK len \in Nat : len = Len(finals)
    BY <1>2
  <1>4. caller[c].imports \in Seq(Notice) /\ UNCHANGED <<stored, best, finalized, net>>
    BY <1>1, CallerFields DEF Notify, NotifyFails, TypeInv, backendVars
  <1>5. \A d \in Callers : caller'[d] = IF d = c THEN state ELSE caller[d]
    BY <1>1, BecomeFields DEF TypeInv
  <1>6. \A d \in Callers : Notifying(d) = (d = c)
    BY <1>1 DEF Notifying, TypeInv, LockHeld
  <1>7. NobodyNotifies'
    BY <1>1, <1>5, <1>6 DEF NobodyNotifies, Notifying
  <1>8. CASE Notify(c)
    <2>1. /\ finalQ' = finalQ \o finals /\ importQ' = importQ \o caller[c].imports
          /\ unsent' = unsent
      BY <1>2, <1>8 DEF Notify
    <2>2. SubSeq(finals, 1, len) = finals
      BY <1>2, <1>3
    <2>3. DroppedFrom(finals, len + 1) = {}
      BY <1>3 DEF DroppedFrom
    <2>4. len \in 0..len
      OBVIOUS
    <2>5. Tells(c, len)
      BY <1>2, <1>3, <1>4, <1>6, <1>7, <2>1, <2>2, <2>3, <2>4 DEF Tells
    <2> QED BY <2>5
  <1>9. CASE NotifyFails(c)
    <2>1. PICK failed \in 1..len : /\ finalQ' = finalQ \o SubSeq(finals, 1, failed - 1)
                                   /\ unsent' = unsent \cup DroppedFrom(finals, failed)
      BY <1>2, <1>3, <1>9 DEF NotifyFails, SentBefore
    <2>2. PICK sent \in 0..len : failed = sent + 1 /\ sent = failed - 1 /\ sent # len
      <3>1. failed - 1 \in 0..len /\ failed = (failed - 1) + 1 /\ failed - 1 # len
        BY <2>1
      <3> QED BY <3>1
    <2>3. importQ' = importQ
      BY <1>9 DEF NotifyFails
    <2>4. Tells(c, sent)
      BY <1>2, <1>3, <1>4, <1>6, <1>7, <2>1, <2>2, <2>3 DEF Tells
    <2>5. sent \in Nat
      BY <2>2
    <2> QED BY <2>4, <2>5
  <1> QED BY <1>8, <1>9

(* The finality call, with what it tells. *)
FinalizeTells(c, block) ==
    /\ block \in stored /\ IsPrefix(finalized, block) /\ block # finalized
    /\ best' = MarkHead(block) /\ finalized' = block /\ stored' = stored
    /\ Commits(c, << >>, LastToNotify(Enacted(block)))

(* All steps of the client. *)
LEMMA ClientSteps ==
    ASSUME TypeInv, [Next]_vars
    PROVE  \/ Quiet
           \/ \E c \in Callers, imports \in Seq(Notice) :
                 /\ ImportTells(c, imports) /\ Commits(c, imports, << >>)
                 /\ finalized' = finalized /\ caller[c].origin \in Origins
           \/ \E c \in Callers, block \in Blocks : FinalizeTells(c, block)
           \/ \E c \in Callers : Commits(c, << >>, << >>) /\ UNCHANGED backendVars
           \/ \E c \in Callers, sent \in Nat : Tells(c, sent)
           \/ Network
  <1>1. ASSUME NEW c \in Callers, ExecuteAndImportBlock(c)
        PROVE  \E imports \in Seq(Notice) :
                 /\ ImportTells(c, imports) /\ Commits(c, imports, << >>)
                 /\ finalized' = finalized /\ caller[c].origin \in Origins
    <2>1. PICK imports \in Seq(Notice) : ImportTells(c, imports)
      BY <1>1, ImportEffect DEF TypeInv
    <2>2. /\ caller[c].stage = "import" /\ UNCHANGED <<finalized, queueVars, net>>
          /\ Committed(c, imports, << >>)
      BY <1>1, <2>1 DEF ExecuteAndImportBlock, ImportTells
    <2>3. Commits(c, imports, << >>)
      BY <2>2, CommitsCaller
    <2>4. caller[c].origin \in Origins
      BY <2>2, CallerFields DEF TypeInv
    <2> QED BY <2>1, <2>2, <2>3, <2>4
  <1>2. ASSUME NEW c \in Callers, FinalizeBlock(c)
        PROVE  \E block \in Blocks : FinalizeTells(c, block)
    <2>1. PICK block \in Blocks :
             /\ CanFinalize(block) /\ best' = MarkHead(block) /\ finalized' = block
             /\ Committed(c, << >>, LastToNotify(Enacted(block)))
      BY <1>2 DEF FinalizeBlock
    <2>2. lock = {} /\ UNCHANGED <<stored, queueVars, net>>
      BY <1>2 DEF FinalizeBlock
    <2>3. Commits(c, << >>, LastToNotify(Enacted(block)))
      BY <2>1, <2>2, CommitsCaller
    <2> QED BY <2>1, <2>2, <2>3 DEF FinalizeTells, CanFinalize
  <1>3. ASSUME NEW c \in Callers, InsertAux(c)
        PROVE  Commits(c, << >>, << >>) /\ UNCHANGED backendVars
    BY <1>3, CommitsCaller DEF InsertAux
  <1>4. ASSUME NEW c \in Callers, Finish(c)
        PROVE  Quiet \/ \E sent \in Nat : Tells(c, sent)
    BY <1>4, TellsCaller, QuietCaller DEF Finish
  <1>5. CASE UNCHANGED vars
    BY <1>5 DEF Quiet, Notifying, vars, backendVars, queueVars
  <1> QED
    BY <1>1, <1>2, <1>3, <1>4, <1>5, QuietCaller DEF Next, Import, Finalize

-----------------------------------------------------------------------------
(* Announcements of imports. *)

(* What is announced is stored, so what is not stored is not announced. *)
AnnouncedStored ==
    /\ net.announced \subseteq stored
    /\ \A i \in 1..Len(importQ) : importQ[i].hash \in stored

(* A pending announcement is a new one; no call both imports and finalizes. *)
PendingNew ==
    \A c \in Callers : Notifying(c) =>
       /\ Len(caller[c].imports) \in {0, 1}
       /\ caller[c].finals # << >> => caller[c].imports = << >>
       /\ \A i \in 1..Len(caller[c].imports) :
             /\ caller[c].imports[i].hash \in stored \ net.announced
             /\ \A j \in 1..Len(importQ) : importQ[j].hash # caller[c].imports[i].hash

OnceInv == AnnouncedOnce /\ AnnouncedStored /\ PendingNew

(* Only the caller that commits has something pending. *)
LEMMA PendingCommit ==
    ASSUME NEW c \in Callers, NEW imports, NEW finals, Commits(c, imports, finals),
           Len(imports) \in {0, 1}, finals # << >> => imports = << >>,
           \A i \in 1..Len(imports) :
              /\ imports[i].hash \in stored' \ net.announced
              /\ \A j \in 1..Len(importQ) : importQ[j].hash # imports[i].hash
    PROVE  PendingNew'
  <1>1. /\ UNCHANGED <<importQ, net>>
        /\ caller'[c].imports = imports /\ caller'[c].finals = finals
        /\ \A d \in Callers : Notifying(d)' = (d = c)
    BY DEF Commits
  <1> SUFFICES ASSUME NEW d \in Callers, Notifying(d)'
               PROVE  /\ Len(caller'[d].imports) \in {0, 1}
                      /\ caller'[d].finals # << >> => caller'[d].imports = << >>
                      /\ \A i \in 1..Len(caller'[d].imports) :
                            /\ caller'[d].imports[i].hash \in stored' \ net'.announced
                            /\ \A j \in 1..Len(importQ') :
                                  importQ'[j].hash # caller'[d].imports[i].hash
    BY DEF PendingNew
  <1>2. d = c
    BY <1>1
  <1>3. caller'[d].imports = imports /\ caller'[d].finals = finals
    BY <1>1, <1>2
  <1> QED BY <1>1, <1>3

LEMMA OnceNext == TypeInv /\ OnceInv /\ [Next]_vars => OnceInv'
  <1> SUFFICES ASSUME TypeInv, OnceInv, [Next]_vars PROVE OnceInv'
    OBVIOUS
  <1>0. AnnouncedOnce /\ AnnouncedStored /\ PendingNew /\ importQ \in Seq(Notice)
    BY DEF OnceInv, TypeInv, TypeOK
  <1>1. CASE Quiet
    BY <1>0, <1>1 DEF OnceInv, AnnouncedOnce, AnnouncedStored, PendingNew, Quiet
  <1>2. ASSUME NEW c \in Callers, NEW imports \in Seq(Notice), ImportTells(c, imports),
               Commits(c, imports, << >>)
        PROVE  OnceInv'
    <2> DEFINE block == caller[c].block
    <2>1. /\ block \notin stored /\ stored' = stored \cup {block}
          /\ imports = << >> \/ (Len(imports) = 1 /\ imports[1].hash = block)
      BY <1>2 DEF ImportTells
    <2>2. UNCHANGED <<importQ, net>>
      BY <1>2 DEF Commits
    <2> HIDE DEF block
    <2>3. PendingNew'
      BY <1>0, <1>2, <2>1, PendingCommit DEF AnnouncedStored
    <2> QED BY <1>0, <2>1, <2>2, <2>3 DEF OnceInv, AnnouncedOnce, AnnouncedStored
  <1>3. ASSUME NEW c \in Callers, NEW finals, Commits(c, << >>, finals), stored' = stored
        PROVE  OnceInv'
    <2>1. UNCHANGED <<importQ, net>>
      BY <1>3 DEF Commits
    <2>2. PendingNew'
      BY <1>3, PendingCommit
    <2> QED BY <1>0, <1>3, <2>1, <2>2 DEF OnceInv, AnnouncedOnce, AnnouncedStored
  <1>4. ASSUME NEW c \in Callers, NEW sent \in Nat, Tells(c, sent) PROVE OnceInv'
    <2> DEFINE imports == IF sent = Len(caller[c].finals) THEN caller[c].imports ELSE << >>
    <2>1. /\ importQ' = importQ \o imports /\ UNCHANGED <<stored, net>>
          /\ imports \in Seq(Notice) /\ Notifying(c) /\ NobodyNotifies'
      <3>1. importQ \o << >> = importQ /\ << >> \in Seq(Notice)
        BY <1>0
      <3> QED BY <1>4, <3>1 DEF Tells
    <2>2. /\ Len(imports) \in {0, 1}
          /\ \A i \in 1..Len(imports) :
                /\ imports[i].hash \in stored \ net.announced
                /\ \A j \in 1..Len(importQ) : importQ[j].hash # imports[i].hash
      BY <1>0, <2>1 DEF PendingNew
    <2> HIDE DEF imports
    <2>3. PICK len \in Nat : len = Len(importQ)
      BY <1>0
    <2>4. /\ Len(importQ') = len + Len(imports)
          /\ \A i \in 1..len : importQ'[i] = importQ[i]
          /\ \A i \in 1..Len(importQ') : i \notin 1..len => 
                i = len + 1 /\ 1 \in 1..Len(imports) /\ importQ'[i] = imports[1]
      BY <1>0, <2>1, <2>2, <2>3
    <2>5. AnnouncedOnce'
      BY <1>0, <2>1, <2>2, <2>3, <2>4 DEF AnnouncedOnce
    <2>6. AnnouncedStored'
      BY <1>0, <2>1, <2>2, <2>3, <2>4 DEF AnnouncedStored
    <2>7. PendingNew'
      BY <2>1 DEF PendingNew, NobodyNotifies
    <2> QED BY <2>5, <2>6, <2>7 DEF OnceInv
  <1>5. CASE NetworkImported
    <2>1. /\ importQ # << >> /\ importQ' = Tail(importQ) /\ UNCHANGED <<stored, caller>>
          /\ net'.announced = net.announced \cup {Head(importQ).hash}
      BY <1>5 DEF NetworkImported, backendVars
    <2>2. /\ Head(importQ) = importQ[1] /\ 1 \in 1..Len(importQ)
          /\ \A i \in 1..Len(importQ') :
                i + 1 \in 1..Len(importQ) /\ importQ'[i] = importQ[i + 1] /\ i \in Nat
      BY <1>0, <2>1
    <2>3. AnnouncedOnce'
      <3>1. \A i, j \in 1..Len(importQ') : importQ'[i].hash = importQ'[j].hash => i = j
        BY <1>0, <2>2 DEF AnnouncedOnce
      <3>2. ASSUME NEW i \in 1..Len(importQ') PROVE importQ'[i].hash \notin net'.announced
        <4>1. importQ[i + 1].hash # importQ[1].hash
          BY <1>0, <2>2 DEF AnnouncedOnce
        <4> QED BY <1>0, <2>1, <2>2, <4>1 DEF AnnouncedOnce
      <3> QED BY <3>1, <3>2 DEF AnnouncedOnce
    <2>4. AnnouncedStored'
      BY <1>0, <2>1, <2>2 DEF AnnouncedStored
    <2>5. PendingNew'
      BY <1>0, <2>1, <2>2 DEF PendingNew, Notifying
    <2> QED BY <2>3, <2>4, <2>5 DEF OnceInv
  <1>6. CASE NetworkFinalized
    <2>1. UNCHANGED <<importQ, stored, caller>>
      BY <1>6 DEF NetworkFinalized, backendVars
    <2>2. net'.announced = net.announced
      BY <1>6 DEF NetworkFinalized, TypeInv, TypeOK
    <2> QED BY <1>0, <2>1, <2>2 DEF OnceInv, AnnouncedOnce, AnnouncedStored, PendingNew,
         Notifying
  <1> QED
    BY <1>1, <1>2, <1>3, <1>4, <1>5, <1>6, ClientSteps
    DEF FinalizeTells, Network, backendVars

(* No block is announced twice: only the check under the lock, in            *)
(* execute_and_import_block, sees that another caller was faster.            *)
THEOREM AnnouncedAtMostOnce == Spec => []AnnouncedOnce
  <1>1. Init => OnceInv
    BY DEF Init, OnceInv, AnnouncedOnce, AnnouncedStored, PendingNew, Notifying, Idle
  <1>2. OnceInv => AnnouncedOnce
    BY DEF OnceInv
  <1> QED BY <1>1, <1>2, OnceNext, ClientTypeInv, PTL DEF Spec

-----------------------------------------------------------------------------
(* Announcements of finality. *)

Below(p, q) == p # q /\ IsPrefix(p, q)

(* What the network has seen, or will see, of finality: the newest, and all. *)
Seen(i) == IF i = 0 THEN net.finalized ELSE finalQ[i]
Newest == Seen(Len(finalQ))

Told == {Seen(i) : i \in 0..Len(finalQ)}

(* All that was told or dropped lies on the finalized chain, and the         *)
(* finalized block is the last of it.                                        *)
Settled ==
    /\ \A b \in Told \cup unsent : IsPrefix(b, finalized)
    /\ Newest = finalized \/ finalized \in unsent

(* Pending notices go on from there to the finalized block. *)
Ascending(finals) ==
    IF finals = << >> THEN Settled
    ELSE /\ finals[Len(finals)] = finalized
         /\ \A i, j \in 1..Len(finals) : i < j => Below(finals[i], finals[j])
         /\ \A b \in Told \cup unsent : \A i \in 1..Len(finals) : Below(b, finals[i])

FinalInv ==
    /\ \A i, j \in 0..Len(finalQ) : i < j => Below(Seen(i), Seen(j))
    /\ Told \cap unsent = {}
    /\ NobodyNotifies => Settled
    /\ \A c \in Callers : Notifying(c) => Ascending(caller[c].finals)

LEMMA AncestorsAscend ==
    ASSUME NEW b \in Blocks, NEW m \in Nat, NEW n \in Nat, m < n, n <= Len(b)
    PROVE  Below(BlockAt(b, m), BlockAt(b, n))
  <1>1. b \in Seq(Labels) /\ Len(b) \in Nat
    BY BlocksAreSeqs
  <1>2. Len(BlockAt(b, m)) = m /\ Len(BlockAt(b, n)) = n
    BY <1>1, BlockAtBlock
  <1>3. SubSeq(BlockAt(b, n), 1, m) = BlockAt(b, m)
    BY <1>1 DEF BlockAt
  <1> QED BY <1>2, <1>3 DEF Below, IsPrefix

LEMMA BelowTrans ==
    ASSUME NEW p \in Blocks, NEW q \in Blocks, NEW r \in Blocks, IsPrefix(p, q), Below(q, r)
    PROVE  Below(p, r)
  <1>1. p \in Seq(Labels) /\ q \in Seq(Labels) /\ r \in Seq(Labels)
    BY BlocksAreSeqs
  <1>2. IsPrefix(p, r)
    BY <1>1, PrefixTrans DEF Below
  <1>3. p # r
    BY <1>1 DEF Below, IsPrefix
  <1> QED BY <1>2, <1>3 DEF Below

(* The notices of a finality call lead from the old finalized block to the   *)
(* new one.                                                                  *)
LEMMA FinalsAscend ==
    ASSUME finalized \in Blocks, NEW block \in Blocks, IsPrefix(finalized, block),
           block # finalized, NEW finals, finals = LastToNotify(Enacted(block))
    PROVE  /\ finals # << >> /\ finals \in Seq(Blocks)
           /\ \A i \in 1..Len(finals) : Below(finalized, finals[i])
           /\ finals[Len(finals)] = block
           /\ \A i, j \in 1..Len(finals) : i < j => Below(finals[i], finals[j])
  <1>0. PICK off \in Nat : FinalsOf(block, finals, off)
    BY FinalsShape
  <1>1. /\ finals \in Seq(Blocks) /\ Len(finals) \in Nat \ {0}
        /\ Len(block) = Len(finalized) + off + Len(finals)
        /\ \A i \in 1..Len(finals) : finals[i] = BlockAt(block, Len(finalized) + off + i)
    BY <1>0 DEF FinalsOf
  <1>2. PICK low \in Nat : low = Len(finalized) /\ BlockAt(block, low) = finalized
    <2>1. Len(finalized) \in Nat /\ BlockAt(block, Len(finalized)) = finalized
      BY BlocksAreSeqs DEF IsPrefix, BlockAt
    <2> QED BY <2>1
  <1>3. PICK len \in Nat \ {0} : len = Len(finals)
    BY <1>1
  <1>4. /\ Len(block) = low + off + len
        /\ \A i \in 1..len : finals[i] = BlockAt(block, low + off + i)
    BY <1>1, <1>2, <1>3
  <1>5. finals # << >>
    BY <1>1
  <1>6. ASSUME NEW i \in 1..len PROVE Below(finalized, finals[i])
    <2>1. low + off + i \in Nat /\ low < low + off + i /\ low + off + i <= Len(block)
      BY <1>4
    <2> QED BY <1>2, <1>4, <2>1, AncestorsAscend
  <1>7. finals[len] = block
    <2>1. finals[len] = BlockAt(block, Len(block))
      BY <1>4
    <2> QED BY <2>1, BlocksAreSeqs DEF BlockAt
  <1>8. ASSUME NEW i \in 1..len, NEW j \in 1..len, i < j PROVE Below(finals[i], finals[j])
    <2>1. /\ low + off + i \in Nat /\ low + off + j \in Nat
          /\ low + off + i < low + off + j /\ low + off + j <= Len(block)
      BY <1>4, <1>8
    <2>2. finals[i] = BlockAt(block, low + off + i) /\ finals[j] = BlockAt(block, low + off + j)
      BY <1>4
    <2> QED BY <2>1, <2>2, AncestorsAscend
  <1> QED BY <1>1, <1>3, <1>5, <1>6, <1>7, <1>8

(* The streams and the callers, apart from the finalized block. *)
LEMMA SeenFrame ==
    ASSUME UNCHANGED <<finalQ, unsent>>, net'.finalized = net.finalized
    PROVE  /\ \A i : Seen(i)' = Seen(i)
           /\ Told' = Told /\ Newest' = Newest
  <1>1. \A i : Seen(i)' = Seen(i)
    BY DEF Seen
  <1> QED BY <1>1 DEF Told, Newest

LEMMA ToldBlocks == TypeInv => Told \cup unsent \subseteq Blocks
  <1> SUFFICES ASSUME TypeInv PROVE Told \cup unsent \subseteq Blocks
    OBVIOUS
  <1>1. finalQ \in Seq(Blocks) /\ unsent \subseteq Blocks /\ net.finalized \in Blocks
    BY DEF TypeInv, TypeOK
  <1>2. \A i \in 0..Len(finalQ) : Seen(i) \in Blocks
    BY <1>1 DEF Seen
  <1> QED BY <1>1, <1>2 DEF Told

(* A commit: before it nothing is pending, after it the caller's notices. *)
LEMMA FinalCommit ==
    ASSUME FinalInv, NEW c \in Callers, NEW imports, NEW finals,
           Commits(c, imports, finals), Settled => Ascending(finals)'
    PROVE  FinalInv'
  <1>1. /\ NobodyNotifies /\ \A d \in Callers : Notifying(d)' = (d = c)
        /\ caller'[c].finals = finals /\ UNCHANGED <<finalQ, unsent, net>>
    BY DEF Commits
  <1>2. (\A i : Seen(i)' = Seen(i)) /\ Told' = Told
    BY <1>1, SeenFrame
  <1>3. /\ \A i, j \in 0..Len(finalQ') : i < j => Below(Seen(i)', Seen(j)')
        /\ Told' \cap unsent' = {}
    BY <1>1, <1>2 DEF FinalInv
  <1>4. Ascending(finals)'
    BY <1>1 DEF FinalInv
  <1>5. ~NobodyNotifies'
    BY <1>1 DEF NobodyNotifies
  <1>6. ASSUME NEW d \in Callers, Notifying(d)' PROVE Ascending(caller[d].finals)'
    <2>1. d = c
      BY <1>1, <1>6
    <2>2. caller'[d].finals = finals
      BY <1>1, <2>1
    <2> QED BY <1>4, <2>2 DEF Ascending
  <1> QED BY <1>3, <1>5, <1>6 DEF FinalInv, Below

(* The notices are sent, all or the first of them: the stream goes on where  *)
(* it was, and what is dropped is newer than what is told.                   *)
LEMMA FinalTells ==
    ASSUME TypeInv, FinalInv, NEW c \in Callers, NEW sent \in Nat, Tells(c, sent)
    PROVE  FinalInv'
  <1>1. PICK finals \in Seq(Blocks) : finals = caller[c].finals
    BY DEF Tells
  <1>2. PICK len \in Nat : len = Len(finals)
    BY <1>1
  <1>3. PICK old \in Nat : old = Len(finalQ)
    BY DEF TypeInv, TypeOK
  <1>4. /\ finalQ' = finalQ \o SubSeq(finals, 1, sent) /\ sent \in 0..len
        /\ unsent' = unsent \cup DroppedFrom(finals, sent + 1)
        /\ UNCHANGED <<net, finalized>> /\ finalQ \in Seq(Blocks) /\ Notifying(c)
        /\ NobodyNotifies'
    BY <1>1, <1>2 DEF Tells, TypeInv, TypeOK
  <1>5. Ascending(finals)
    BY <1>1, <1>4 DEF FinalInv
  <1>6. /\ Len(finalQ') = old + sent
        /\ \A i \in 1..old : finalQ'[i] = finalQ[i]
        /\ \A i \in 1..sent : finalQ'[old + i] = finals[i]
    <2>1. /\ SubSeq(finals, 1, sent) \in Seq(Blocks) /\ Len(SubSeq(finals, 1, sent)) = sent
          /\ \A i \in 1..sent : SubSeq(finals, 1, sent)[i] = finals[i]
      BY <1>1, <1>2, <1>4
    <2> QED BY <1>3, <1>4, <2>1
  <1>7. \A i \in 0..old : Seen(i)' = Seen(i) /\ Seen(i) \in Told
    BY <1>3, <1>4, <1>6 DEF Seen, Told
  <1>8. \A i \in 1..sent : Seen(old + i)' = finals[i]
    BY <1>6 DEF Seen
  <1>9. /\ \A i, j \in 1..len : i < j => Below(finals[i], finals[j])
        /\ \A b \in Told \cup unsent : \A i \in 1..len : Below(b, finals[i])
        /\ len # 0 => finals[len] = finalized
    <2>1. finals = << >> <=> len = 0
      BY <1>1, <1>2
    <2> QED BY <1>2, <1>5, <2>1 DEF Ascending
  <1>10. ASSUME NEW i \in 0..Len(finalQ'), NEW j \in 0..Len(finalQ'), i < j
         PROVE  Below(Seen(i)', Seen(j)')
    <2>1. CASE j \in 0..old
      <3>1. i \in 0..old
        BY <1>10, <2>1
      <3> QED BY <1>3, <1>7, <1>10, <2>1, <3>1 DEF FinalInv
    <2>2. ASSUME NEW m \in 1..sent, j = old + m PROVE Below(Seen(i)', Seen(j)')
      <3>1. m \in 1..len /\ Seen(j)' = finals[m]
        BY <1>4, <1>8, <2>2
      <3>2. CASE i \in 0..old
        BY <1>7, <1>9, <3>1, <3>2
      <3>3. ASSUME NEW n \in 1..sent, i = old + n PROVE Below(Seen(i)', Seen(j)')
        <4>1. n \in 1..len /\ n < m
          BY <1>4, <1>10, <2>2, <3>3
        <4> QED BY <1>8, <1>9, <3>1, <3>3, <4>1
      <3>4. i \in 0..old \/ (i - old \in 1..sent /\ i = old + (i - old))
        BY <1>6
      <3> QED BY <3>2, <3>3, <3>4
    <2>3. j \in 0..old \/ (j - old \in 1..sent /\ j = old + (j - old))
      BY <1>6
    <2> QED BY <2>1, <2>2, <2>3
  <1>11. ASSUME NEW b \in Told'
         PROVE  b \in Told \/ \E i \in 1..sent : b = finals[i]
    <2>1. PICK i \in 0..(old + sent) : b = Seen(i)'
      BY <1>6 DEF Told
    <2>2. CASE i \in 0..old
      BY <1>7, <2>1, <2>2
    <2>3. CASE i \notin 0..old
      <3>1. i - old \in 1..sent /\ i = old + (i - old)
        BY <2>1, <2>3
      <3> QED BY <1>8, <2>1, <3>1
    <2> QED BY <2>2, <2>3
  <1>12. Told' \cap unsent' = {}
    <2> SUFFICES ASSUME NEW b \in Told', b \in unsent' PROVE FALSE
      OBVIOUS
    <2>1. b \in unsent \/ \E j \in (sent + 1)..len : b = finals[j]
      BY <1>2, <1>4 DEF DroppedFrom
    <2>2. CASE b \in Told
      <3>1. b \notin unsent
        BY <2>2 DEF FinalInv
      <3>2. \A j \in (sent + 1)..len : j \in 1..len
        OBVIOUS
      <3> QED BY <1>9, <2>1, <2>2, <3>1, <3>2 DEF Below
    <2>3. ASSUME NEW i \in 1..sent, b = finals[i] PROVE FALSE
      <3>1. i \in 1..len /\ \A j \in (sent + 1)..len : j \in 1..len /\ i < j
        BY <1>4
      <3> QED BY <1>9, <2>1, <2>3, <3>1 DEF Below
    <2> QED BY <1>11, <2>2, <2>3
  <1>13. Settled'
    <2>1. CASE len = 0
      <3>1. sent = 0 /\ finals = << >>
        <4>1. sent \in 0..len
          BY <1>4
        <4>2. \A f \in Seq(Blocks) : Len(f) = 0 => f = << >>
          OBVIOUS
        <4>3. finals = << >>
          BY <1>1, <1>2, <2>1, <4>2
        <4> QED BY <2>1, <4>1, <4>3
      <3>2. finalQ' = finalQ /\ unsent' = unsent
        <4>1. DroppedFrom(finals, sent + 1) = {}
          BY <1>2, <2>1, <3>1 DEF DroppedFrom
        <4>2. SubSeq(finals, 1, sent) = << >>
          BY <1>1, <3>1
        <4>3. finalQ \o << >> = finalQ /\ unsent \cup {} = unsent
          BY <1>4
        <4> QED BY <1>4, <4>1, <4>2, <4>3
      <3>3. Told' = Told /\ Newest' = Newest
        BY <1>4, <3>2, SeenFrame
      <3>4. Settled
        BY <1>5, <3>1 DEF Ascending
      <3> QED BY <1>4, <3>2, <3>3, <3>4 DEF Settled
    <2>2. CASE len # 0
      <3>1. len \in 1..len /\ finals[len] = finalized /\ finalized \in Blocks
        BY <1>1, <1>2, <1>9, <2>2
      <3>2. \A i \in 1..len : IsPrefix(finals[i], finalized)
        <4>1. IsPrefix(finalized, finalized)
          BY <3>1, BlocksAreSeqs, PrefixRefl
        <4> QED BY <1>9, <3>1, <4>1 DEF Below
      <3>3. \A b \in Told \cup unsent : IsPrefix(b, finalized)
        BY <1>9, <3>1 DEF Below
      <3>4. \A b \in unsent' : IsPrefix(b, finalized)
        <4>1. \A b \in DroppedFrom(finals, sent + 1) : \E i \in 1..len : b = finals[i]
          BY <1>2 DEF DroppedFrom
        <4> QED BY <1>4, <3>2, <3>3, <4>1
      <3>5. \A b \in Told' : IsPrefix(b, finalized)
        BY <1>4, <1>11, <3>2, <3>3
      <3>6. Newest' = finalized \/ finalized \in unsent'
        <4>1. CASE sent = len
          BY <1>6, <1>8, <3>1, <4>1 DEF Newest
        <4>2. CASE sent # len
          <5>1. len \in (sent + 1)..len
            BY <1>4, <4>2
          <5>2. finals[len] \in DroppedFrom(finals, sent + 1)
            BY <1>2, <5>1 DEF DroppedFrom
          <5> QED BY <1>4, <3>1, <5>2
        <4> QED BY <4>1, <4>2
      <3> QED BY <1>4, <3>4, <3>5, <3>6 DEF Settled
    <2> QED BY <2>1, <2>2
  <1>14. \A d \in Callers : ~Notifying(d)'
    BY <1>4 DEF NobodyNotifies
  <1> QED BY <1>10, <1>12, <1>13, <1>14 DEF FinalInv, Below

(* A step that leaves finality and its notices alone. *)
LEMMA FinalFrame ==
    ASSUME FinalInv, UNCHANGED <<finalized, finalQ, unsent>>,
           net'.finalized = net.finalized,
           \A c \in Callers : /\ Notifying(c)' = Notifying(c)
                              /\ Notifying(c) => caller'[c] = caller[c]
    PROVE  FinalInv'
  <1>1. (\A i : Seen(i)' = Seen(i)) /\ Told' = Told /\ Newest' = Newest
    BY SeenFrame
  <1>2. \A i, j \in 0..Len(finalQ') : i < j => Below(Seen(i)', Seen(j)')
    BY <1>1 DEF FinalInv
  <1>3. Settled' = Settled /\ (NobodyNotifies' => NobodyNotifies)
    BY <1>1 DEF Settled, NobodyNotifies
  <1>4. ASSUME NEW c \in Callers, Notifying(c)'
        PROVE  Ascending(caller[c].finals)'
    <2>1. caller'[c].finals = caller[c].finals /\ Ascending(caller[c].finals)
      BY <1>4 DEF FinalInv
    <2>2. PICK finals : finals = caller[c].finals
      OBVIOUS
    <2>3. Ascending(finals)'
      BY <1>1, <1>3, <2>1, <2>2 DEF Ascending, Below
    <2> QED BY <2>1, <2>2, <2>3 DEF Ascending, Below
  <1> QED BY <1>1, <1>2, <1>3, <1>4 DEF FinalInv, Below

LEMMA FinalNext == TypeInv /\ FinalInv /\ [Next]_vars => FinalInv'
  <1> SUFFICES ASSUME TypeInv, FinalInv, [Next]_vars PROVE FinalInv'
    OBVIOUS
  <1>1. CASE Quiet
    BY <1>1, FinalFrame DEF Quiet
  <1>2. ASSUME NEW c \in Callers, NEW imports, Commits(c, imports, << >>),
               finalized' = finalized
        PROVE  FinalInv'
    <2>1. Told' = Told /\ Newest' = Newest /\ unsent' = unsent
      BY <1>2, SeenFrame DEF Commits
    <2>2. Settled => Ascending(<< >>)'
      BY <1>2, <2>1 DEF Ascending, Settled
    <2> QED BY <1>2, <2>2, FinalCommit
  <1>3. ASSUME NEW c \in Callers, NEW block \in Blocks, FinalizeTells(c, block)
        PROVE  FinalInv'
    <2> DEFINE finals == LastToNotify(Enacted(block))
    <2>1. /\ IsPrefix(finalized, block) /\ block # finalized /\ finalized' = block
          /\ Commits(c, << >>, finals) /\ finalized \in Blocks
      BY <1>3 DEF FinalizeTells, TypeInv, TypeOK
    <2>2. Told' = Told /\ unsent' = unsent
      BY <2>1, SeenFrame DEF Commits
    <2>3. /\ finals # << >> /\ finals \in Seq(Blocks)
          /\ \A i \in 1..Len(finals) : Below(finalized, finals[i])
          /\ finals[Len(finals)] = block
          /\ \A i, j \in 1..Len(finals) : i < j => Below(finals[i], finals[j])
      BY <2>1, FinalsAscend
    <2>4. PICK f : f = finals
      OBVIOUS
    <2> HIDE DEF finals
    <2>5. ASSUME Settled PROVE Ascending(f)'
      <3>1. ASSUME NEW b \in Told \cup unsent, NEW i \in 1..Len(f) PROVE Below(b, f[i])
        <4>1. b \in Blocks /\ f[i] \in Blocks
          BY <2>3, <2>4, ToldBlocks
        <4>2. IsPrefix(b, finalized) /\ Below(finalized, f[i])
          BY <2>3, <2>4, <2>5 DEF Settled
        <4> QED BY <2>1, <4>1, <4>2, BelowTrans
      <3> QED BY <2>1, <2>2, <2>3, <2>4, <3>1 DEF Ascending, Below
    <2> QED BY <2>1, <2>4, <2>5, FinalCommit
  <1>4. CASE NetworkImported
    <2>1. UNCHANGED <<finalized, finalQ, unsent, caller>> /\ net'.finalized = net.finalized
      BY <1>4 DEF NetworkImported, backendVars
    <2> QED BY <2>1, FinalFrame DEF Notifying
  <1>5. CASE NetworkFinalized
    <2>1. /\ finalQ \in Seq(Blocks) /\ finalQ # << >> /\ finalQ' = << >>
          /\ UNCHANGED <<finalized, unsent, caller>>
      BY <1>5 DEF NetworkFinalized, backendVars, TypeInv, TypeOK
    <2>2. net'.finalized = finalQ[Len(finalQ)]
      BY <1>5 DEF NetworkFinalized, Merged, TypeInv, TypeOK
    <2>3. Newest = finalQ[Len(finalQ)] /\ Newest \in Told
      BY <2>1 DEF Newest, Seen, Told
    <2>4. Newest' = Newest /\ Len(finalQ') = 0 /\ Told' = {Newest}
      BY <2>1, <2>2, <2>3 DEF Newest, Seen, Told
    <2>5. Told' \subseteq Told
      BY <2>3, <2>4
    <2>6. Told' \cap unsent' = {}
      BY <2>1, <2>5 DEF FinalInv
    <2>7. Settled => Settled'
      BY <2>1, <2>4, <2>5 DEF Settled
    <2>8. \A finals : Ascending(finals) => Ascending(finals)'
      BY <2>1, <2>5, <2>7 DEF Ascending, Below
    <2>9. ASSUME NEW c \in Callers, Notifying(c)' PROVE Ascending(caller[c].finals)'
      <3>1. caller'[c].finals = caller[c].finals /\ Ascending(caller[c].finals)
        BY <2>1, <2>9 DEF FinalInv, Notifying
      <3>2. PICK finals : finals = caller[c].finals
        OBVIOUS
      <3>3. Ascending(finals)'
        BY <2>8, <3>1, <3>2
      <3> QED BY <3>1, <3>2, <3>3 DEF Ascending
    <2>10. NobodyNotifies' => NobodyNotifies
      BY <2>1 DEF NobodyNotifies, Notifying
    <2>11. \A i, j \in 0..Len(finalQ') : i < j => Below(Seen(i)', Seen(j)')
      BY <2>4
    <2> QED BY <2>6, <2>7, <2>9, <2>10, <2>11 DEF FinalInv, Below
  <1> QED
    BY <1>1, <1>2, <1>3, <1>4, <1>5, FinalTells, ClientSteps DEF Network, backendVars

(* The network's finality stream is one ascending chain: notify_finalized    *)
(* runs under the lock, in the order of the commits, the cut-off at          *)
(* MAX_TO_NOTIFY drops the oldest blocks of a call only, and a header that   *)
(* cannot be read after the commit drops the newest.  With the lock free the *)
(* chain ends at the finalized block or that block's notice was dropped, and *)
(* a dropped notice is never sent later.                                     *)
THEOREM FinalityInOrder == Spec => []FinalityNoticesInOrder
  <1>1. Init => FinalInv
    <2> SUFFICES ASSUME Init PROVE FinalInv
      OBVIOUS
    <2>1. finalQ = << >> /\ unsent = {} /\ net.finalized = Genesis /\ finalized = Genesis
      BY DEF Init
    <2>2. Len(finalQ) = 0 /\ Told = {Genesis} /\ Newest = Genesis
      BY <2>1 DEF Told, Newest, Seen
    <2>3. Settled
      BY <2>1, <2>2, BlocksAreSeqs, PrefixRefl DEF Settled
    <2>4. \A c \in Callers : ~Notifying(c)
      BY DEF Init, Notifying, Idle
    <2> QED BY <2>1, <2>2, <2>3, <2>4 DEF FinalInv
  <1>2. TypeInv /\ FinalInv => FinalityNoticesInOrder
    <2> SUFFICES ASSUME TypeInv, FinalInv PROVE FinalityNoticesInOrder
      OBVIOUS
    <2> DEFINE all == <<net.finalized>> \o finalQ
    <2>1. finalQ \in Seq(Blocks) /\ net.finalized \in Blocks
      BY DEF TypeInv, TypeOK
    <2>2. PICK first \in Blocks : first = net.finalized
      BY <2>1
    <2>3. PICK len \in Nat : len = Len(finalQ)
      BY <2>1
    <2>4. all = <<first>> \o finalQ
      BY <2>2
    <2>5. <<first>> \in Seq(Blocks) /\ Len(<<first>>) = 1 /\ <<first>>[1] = first
      BY <2>2
    <2>6. Len(all) = len + 1 /\ \A i \in 0..len : all[i + 1] = Seen(i)
      BY <2>1, <2>2, <2>3, <2>4, <2>5 DEF Seen
    <2> HIDE DEF all
    <2>7. ASSUME NEW i \in 1..Len(finalQ)
          PROVE  all[i] # all[i + 1] /\ IsPrefix(all[i], all[i + 1])
      <3>1. i - 1 \in 0..len /\ i \in 0..len /\ (i - 1) + 1 = i /\ i - 1 < i
        BY <2>3
      <3>2. all[i] = Seen(i - 1) /\ all[i + 1] = Seen(i)
        BY <2>6, <3>1
      <3> QED BY <2>3, <3>1, <3>2 DEF FinalInv, Below
    <2>8. ASSUME NEW i \in 1..Len(all) PROVE all[i] \notin unsent
      <3>1. i - 1 \in 0..len /\ (i - 1) + 1 = i
        BY <2>6
      <3>2. all[i] = Seen(i - 1)
        BY <2>6, <3>1
      <3> QED BY <2>3, <3>1, <3>2 DEF FinalInv, Told
    <2>9. lock = {} => NobodyNotifies
      BY DEF TypeInv, LockHeld, NobodyNotifies, Notifying
    <2>10. all[Len(all)] = Newest
      BY <2>3, <2>6 DEF Newest
    <2> QED BY <2>7, <2>8, <2>9, <2>10 DEF FinalityNoticesInOrder, FinalInv, Settled, all
  <1> QED BY <1>1, <1>2, FinalNext, ClientTypeInv, PTL DEF Spec

-----------------------------------------------------------------------------
(* Announcements of the best block, for blocks of origin "broadcast". *)

Known == AnnouncedBest(best) \/ best = finalized

(* The best block is known, or its notice is pending. *)
KnownAfter(imports) ==
    IF imports # << >> /\ imports[1].isNewBest THEN imports[1].hash = best ELSE Known

BestInv ==
    /\ NobodyNotifies => Known
    /\ \A c \in Callers : Notifying(c) => KnownAfter(caller[c].imports)

LEMMA PrefixAntisym ==
    ASSUME NEW p \in Seq(Labels), NEW q \in Seq(Labels), IsPrefix(p, q), IsPrefix(q, p)
    PROVE  p = q
  BY DEF IsPrefix

LEMMA BestCommit ==
    ASSUME NEW c \in Callers, NEW imports, NEW finals, Commits(c, imports, finals),
           KnownAfter(imports)'
    PROVE  BestInv'
  <1>1. /\ \A d \in Callers : Notifying(d)' = (d = c)
        /\ caller'[c].imports = imports
    BY DEF Commits
  <1>2. ~NobodyNotifies'
    BY <1>1 DEF NobodyNotifies
  <1>3. ASSUME NEW d \in Callers, Notifying(d)' PROVE KnownAfter(caller[d].imports)'
    <2>1. d = c
      BY <1>1, <1>3
    <2>2. caller'[d].imports = imports
      BY <1>1, <2>1
    <2> QED BY <2>2 DEF KnownAfter
  <1> QED BY <1>2, <1>3 DEF BestInv

LEMMA BestTells ==
    ASSUME TypeInv, OnceInv, BestInv, NEW c \in Callers, NEW sent \in Nat, Tells(c, sent)
    PROVE  BestInv'
  <1> DEFINE imports == caller[c].imports
  <1>1. /\ importQ' = importQ \o imports /\ UNCHANGED <<net, best, finalized>>
        /\ imports \in Seq(Notice) /\ importQ \in Seq(Notice) /\ Notifying(c)
        /\ NobodyNotifies'
    <2>1. importQ \in Seq(Notice) /\ importQ \o << >> = importQ
      BY DEF TypeInv, TypeOK
    <2>2. Notifying(c) /\ imports \in Seq(Notice) /\ sent \in 0..Len(caller[c].finals)
      BY DEF Tells
    <2>3. sent # Len(caller[c].finals) => imports = << >>
      <3>1. sent # Len(caller[c].finals) => caller[c].finals # << >>
        BY <2>2
      <3> QED BY <2>2, <3>1 DEF OnceInv, PendingNew
    <2> QED BY <2>1, <2>2, <2>3 DEF Tells
  <1>2. KnownAfter(imports) /\ Len(imports) \in {0, 1}
    BY <1>1 DEF BestInv, OnceInv, PendingNew
  <1> HIDE DEF imports
  <1>3. Known'
    <2>1. CASE imports = << >>
      <3>1. importQ' = importQ /\ Known
        BY <1>1, <1>2, <2>1 DEF KnownAfter
      <3> QED BY <1>1, <3>1 DEF Known, AnnouncedBest, NoNewBest
    <2>2. CASE imports # << >>
      <3>1. PICK len \in Nat : len = Len(importQ)
        BY <1>1
      <3>2. /\ Len(importQ') = len + 1 /\ importQ'[len + 1] = imports[1]
            /\ \A i \in 1..len : importQ'[i] = importQ[i]
        BY <1>1, <1>2, <2>2, <3>1
      <3>3. CASE imports[1].isNewBest
        <4>1. importQ'[len + 1].isNewBest /\ importQ'[len + 1].hash = best'
          BY <1>1, <1>2, <2>2, <3>2, <3>3 DEF KnownAfter
        <4>2. NoNewBest(len + 1 + 1)'
          BY <3>2 DEF NoNewBest
        <4> QED BY <3>2, <4>1, <4>2 DEF Known, AnnouncedBest
      <3>4. CASE ~imports[1].isNewBest
        <4>1. Known
          BY <1>2, <3>4 DEF KnownAfter
        <4>2. \A i \in 1..(len + 1) : NoNewBest(i) => NoNewBest(i)'
          BY <3>1, <3>2, <3>4 DEF NoNewBest
        <4>3. CASE net.best = best /\ NoNewBest(1)
          BY <1>1, <4>2, <4>3 DEF Known, AnnouncedBest
        <4>4. ASSUME NEW i \in 1..len, importQ[i].isNewBest, importQ[i].hash = best,
                     NoNewBest(i + 1)
              PROVE  Known'
          <5>1. NoNewBest(i + 1)' /\ i \in 1..Len(importQ') /\ importQ'[i] = importQ[i]
            BY <3>2, <4>2, <4>4
          <5> QED BY <1>1, <4>4, <5>1 DEF Known, AnnouncedBest
        <4>5. CASE best = finalized
          BY <1>1, <4>5 DEF Known
        <4> QED BY <3>1, <4>1, <4>3, <4>4, <4>5 DEF Known, AnnouncedBest
      <3> QED BY <3>3, <3>4
    <2> QED BY <2>1, <2>2
  <1> QED BY <1>1, <1>3 DEF BestInv, NobodyNotifies

LEMMA BestImported ==
    ASSUME TypeInv, BestInv, NetworkImported
    PROVE  BestInv'
  <1>1. /\ importQ # << >> /\ importQ' = Tail(importQ) /\ importQ \in Seq(Notice)
        /\ UNCHANGED <<best, finalized, caller>>
        /\ net'.best = IF Head(importQ).isNewBest THEN Head(importQ).hash ELSE net.best
    BY DEF NetworkImported, backendVars, TypeInv, TypeOK
  <1>2. PICK len \in Nat : len + 1 = Len(importQ)
    BY <1>1
  <1>3. /\ Head(importQ) = importQ[1] /\ Len(importQ') = len
        /\ \A i \in 1..len : importQ'[i] = importQ[i + 1]
    BY <1>1, <1>2
  <1>4. ASSUME NEW i \in 1..(len + 1), NoNewBest(i + 1) PROVE NoNewBest(i)'
    <2> SUFFICES ASSUME NEW j \in i..len PROVE ~importQ'[j].isNewBest
      BY <1>3 DEF NoNewBest
    <2>1. j + 1 \in (i + 1)..(len + 1) /\ j \in 1..len
      OBVIOUS
    <2> QED BY <1>2, <1>3, <1>4, <2>1 DEF NoNewBest
  <1>5. ASSUME AnnouncedBest(best) PROVE AnnouncedBest(best)'
    <2>1. CASE net.best = best /\ NoNewBest(1)
      <3>1. ~importQ[1].isNewBest /\ NoNewBest(1 + 1)
        BY <1>2, <2>1 DEF NoNewBest
      <3>2. NoNewBest(1)' /\ net'.best = best'
        BY <1>1, <1>3, <1>4, <2>1, <3>1
      <3> QED BY <3>2 DEF AnnouncedBest
    <2>2. ASSUME NEW i \in 1..Len(importQ), importQ[i].isNewBest, importQ[i].hash = best,
                 NoNewBest(i + 1)
          PROVE  AnnouncedBest(best)'
      <3>1. CASE i = 1
        BY <1>1, <1>3, <1>4, <2>2, <3>1 DEF AnnouncedBest
      <3>2. CASE i # 1
        <4>1. i - 1 \in 1..Len(importQ') /\ i \in 1..(len + 1) /\ (i - 1) + 1 = i
          BY <1>2, <1>3, <3>2
        <4>2. importQ'[i - 1] = importQ[i]
          BY <1>3, <4>1
        <4>3. NoNewBest((i - 1) + 1)'
          BY <1>4, <2>2, <4>1
        <4> QED BY <1>1, <2>2, <4>1, <4>2, <4>3 DEF AnnouncedBest
      <3> QED BY <3>1, <3>2
    <2> QED BY <1>5, <2>1, <2>2 DEF AnnouncedBest
  <1>6. Known => Known'
    BY <1>1, <1>5 DEF Known
  <1>7. \A imports : KnownAfter(imports) => KnownAfter(imports)'
    BY <1>1, <1>6 DEF KnownAfter
  <1> QED BY <1>1, <1>6, <1>7 DEF BestInv, NobodyNotifies, Notifying

LEMMA BestNext ==
    ASSUME Origins \subseteq {"broadcast"}, TypeInv, ClientInv, OnceInv, BestInv, [Next]_vars
    PROVE  BestInv'
  <1>1. CASE Quiet
    <2>1. /\ UNCHANGED <<best, finalized, importQ, net>>
          /\ \A c \in Callers : /\ Notifying(c)' = Notifying(c)
                                /\ Notifying(c) => caller'[c] = caller[c]
      BY <1>1 DEF Quiet
    <2>2. Known' = Known
      BY <2>1 DEF Known, AnnouncedBest, NoNewBest
    <2> QED BY <2>1, <2>2 DEF BestInv, NobodyNotifies, KnownAfter
  <1>2. ASSUME NEW c \in Callers, NEW imports \in Seq(Notice), ImportTells(c, imports),
               Commits(c, imports, << >>), finalized' = finalized,
               caller[c].origin \in Origins
        PROVE  BestInv'
    <2>1. /\ Len(imports) = 1 /\ imports[1].hash = caller[c].block
          /\ best' = IF imports[1].isNewBest THEN caller[c].block ELSE best
      BY <1>2 DEF ImportTells
    <2>2. Known /\ UNCHANGED <<importQ, net>>
      BY <1>2 DEF Commits, BestInv
    <2>3. CASE imports[1].isNewBest
      <3>1. imports # << >>
        BY <2>1
      <3>2. KnownAfter(imports)'
        BY <2>1, <2>3, <3>1 DEF KnownAfter
      <3> QED BY <1>2, <3>2, BestCommit
    <2>4. CASE ~imports[1].isNewBest
      <3>1. Known'
        BY <1>2, <2>1, <2>2, <2>4 DEF Known, AnnouncedBest, NoNewBest
      <3>2. KnownAfter(imports)'
        BY <2>4, <3>1 DEF KnownAfter
      <3> QED BY <1>2, <3>2, BestCommit
    <2> QED BY <2>3, <2>4
  <1>3. ASSUME NEW c \in Callers, NEW block \in Blocks, FinalizeTells(c, block)
        PROVE  BestInv'
    <2>1. /\ IsPrefix(finalized, block) /\ block # finalized /\ finalized' = block
          /\ best' = MarkHead(block) /\ Commits(c, << >>, LastToNotify(Enacted(block)))
      BY <1>3 DEF FinalizeTells
    <2>2. Known /\ UNCHANGED <<importQ, net>>
      BY <2>1 DEF Commits, BestInv
    <2>3. Known'
      <3>1. CASE IsPrefix(block, best)
        <4>1. best' = best
          BY <2>1, <3>1 DEF MarkHead
        <4>2. best # finalized
          BY <2>1, <3>1, BlocksAreSeqs, PrefixAntisym DEF ClientInv, ChainTypes
        <4> QED BY <2>2, <4>1, <4>2 DEF Known, AnnouncedBest, NoNewBest
      <3>2. CASE ~IsPrefix(block, best)
        BY <2>1, <3>2 DEF MarkHead, Known
      <3> QED BY <3>1, <3>2
    <2>4. KnownAfter(<< >>)'
      BY <2>3 DEF KnownAfter
    <2> QED BY <2>1, <2>4, BestCommit
  <1>4. ASSUME NEW c \in Callers, Commits(c, << >>, << >>), UNCHANGED backendVars
        PROVE  BestInv'
    <2>1. Known /\ UNCHANGED <<importQ, net, best, finalized>>
      BY <1>4 DEF Commits, BestInv, backendVars
    <2>2. Known'
      BY <2>1 DEF Known, AnnouncedBest, NoNewBest
    <2>3. KnownAfter(<< >>)'
      BY <2>2 DEF KnownAfter
    <2> QED BY <1>4, <2>3, BestCommit
  <1>5. CASE NetworkFinalized
    <2>1. UNCHANGED <<best, finalized, importQ, caller>>
      BY <1>5 DEF NetworkFinalized, backendVars
    <2>2. net'.best = net.best
      BY <1>5 DEF NetworkFinalized, TypeInv, TypeOK
    <2>3. Known' = Known
      BY <2>1, <2>2 DEF Known, AnnouncedBest, NoNewBest
    <2> QED BY <2>1, <2>3 DEF BestInv, NobodyNotifies, Notifying, KnownAfter
  <1> QED
    BY <1>1, <1>2, <1>3, <1>4, <1>5, BestTells, BestImported, ClientSteps DEF Network

(* When every block is broadcast, the last new best block the network was    *)
(* told of is the best block, unless finality moved the head; a head moved   *)
(* by finality (mark_head), which is never announced, is the finalized       *)
(* block.                                                                    *)
THEOREM BestIsAnnounced ==
    ASSUME Origins \subseteq {"broadcast"} PROVE Spec => []BestAnnounced
  <1>1. Init => OnceInv /\ BestInv
    <2>1. Init => OnceInv
      BY DEF Init, OnceInv, AnnouncedOnce, AnnouncedStored, PendingNew, Notifying, Idle
    <2>2. Init => BestInv
      BY DEF Init, BestInv, Known, Notifying, Idle
    <2> QED BY <2>1, <2>2
  <1>2. TypeInv /\ ClientInv /\ OnceInv /\ BestInv /\ [Next]_vars => OnceInv' /\ BestInv'
    BY OnceNext, BestNext
  <1>3. TypeInv /\ BestInv => BestAnnounced
    BY DEF TypeInv, LockHeld, BestInv, NobodyNotifies, Notifying, Known, BestAnnounced
  <1> QED BY <1>1, <1>2, <1>3, ClientTypeInv, ClientCorrect, PTL DEF Spec
==============================================================================
