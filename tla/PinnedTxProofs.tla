--------------------------- MODULE PinnedTxProofs ---------------------------
(***************************************************************************)
(* For every margin, slack and horizon: the write-ahead protocol never     *)
(* pays twice, never records a payment that was not made, never forgets    *)
(* one that may land, and implements OncePayment.                          *)
(*                                                                         *)
(* The argument.  At most one signed transaction of the tag can have       *)
(* landed or still land (Possible), and while there is one the intent is   *)
(* durable and its deadline bounds it (Bounded).  A scan that reached the  *)
(* deadline therefore sees it if it landed (Margin <= Slack makes the scan *)
(* start low enough), and an index past the deadline means it can no       *)
(* longer land: "absent" is then the truth.                                *)
(***************************************************************************)
EXTENDS PinnedTx, TLAPS

-----------------------------------------------------------------------------
(* The parts of the inductive invariant. *)

(* Identity of transactions, and what "landed" means. *)
PoolIds    == \A t, u \in pool : t.id = u.id => t = u
LandedTx   == \A l \in landed :
                 /\ l.at <= validated
                 /\ l.id \notin failed
                 /\ \E t \in pool : t.id = l.id /\ l.at <= t.lls
LandedIds  == \A l, m \in landed : l.id = m.id => l = m

(* One transaction can have landed or still land. *)
OnePossible == \A t, u \in Possible : t = u

(* While it can, the durable deadline bounds it from above, and is itself
   within Margin of the ledger it landed in. *)
Bounded ==
    intent =>
      /\ ~done
      /\ deadline <= validated + Margin
      /\ \A t \in Possible : t.lls <= deadline
      /\ \A l \in landed : deadline < l.at + Margin

(* What the driver knows at each point. *)
DriverKnows ==
    /\ pc # "idle" => intent
    /\ pc = "begun" => Possible = {}
    /\ pc = "sent" =>
         /\ mine \in pool
         /\ mine.lls <= deadline
         /\ Possible \subseteq {mine}
    /\ pc = "scanning" => index <= validated

IInv ==
    /\ PinnedTypeOK
    /\ PoolIds /\ LandedTx /\ LandedIds
    /\ OnePossible /\ Bounded /\ DriverKnows
    /\ DoneMeansLanded /\ NeverForgotten

-----------------------------------------------------------------------------
(* Closing a ledger resolves transactions; it makes none possible. *)
LEMMA CloseOnlyResolves ==
  ASSUME IInv, CloseLedger
  PROVE  /\ Possible' \subseteq Possible
         /\ \A l \in landed' : l \in landed \/ (l.at = validated + 1 /\
                                 \E t \in Possible : t.id = l.id /\ l.at <= t.lls)
<1> USE DEF IInv, PinnedTypeOK, Tx, Payments
<1>1. PICK ok \in SUBSET Open, tec \in SUBSET Open :
        /\ ok \cap tec = {}
        /\ \A t \in ok \cup tec : t.lls >= validated'
        /\ landed' = landed \cup {[id |-> t.id, at |-> validated'] : t \in ok}
        /\ failed' = failed \cup Ids(tec)
  BY DEF CloseLedger
<1>2. /\ validated' = validated + 1 /\ pool' = pool
  BY DEF CloseLedger
<1>3. ASSUME NEW t \in ok PROVE t \in Possible
  BY <1>1, <1>2, <1>3, ConstantsAssumption DEF Open, Possible, CanStillLand, Ids
<1>4. ASSUME NEW l \in landed', l \notin landed
      PROVE  l.at = validated + 1 /\ \E t \in Possible : t.id = l.id /\ l.at <= t.lls
  <2>1. PICK t \in ok : l = [id |-> t.id, at |-> validated']
    BY <1>1, <1>4
  <2>2. t.id = l.id /\ l.at = validated + 1 /\ l.at <= t.lls /\ t \in Possible
    BY <2>1, <1>1, <1>2, <1>3 DEF Open
  <2> QED BY <2>2
<1>5. ASSUME NEW t \in Possible' PROVE t \in Possible
  <2>1. t \in pool
    BY <1>2, <1>5 DEF Possible
  <2>2. CASE t.id \in Ids(landed')
    <3>1. PICK l \in landed' : l.id = t.id
      BY <2>2 DEF Ids
    <3>2. CASE l \in landed
      BY <2>1, <3>1, <3>2 DEF Possible, Ids
    <3>3. CASE l \notin landed
      BY <1>4, <2>1, <3>1, <3>3 DEF PoolIds, Possible
    <3> QED BY <3>2, <3>3
  <2>3. CASE t.id \notin Ids(landed')
    <3>1. t.id \notin failed' /\ t.lls > validated + 1
      BY <1>2, <1>5, <2>3 DEF Possible, CanStillLand, Ids
    <3>2. t.id \notin failed /\ t.lls > validated
      BY <1>1, <2>1, <3>1
    <3> QED BY <2>1, <3>2 DEF Possible, CanStillLand
  <2> QED BY <2>2, <2>3
<1> QED BY <1>4, <1>5

(* A step that leaves the network alone changes nothing about it. *)
LEMMA NetworkUnchanged ==
  ASSUME IInv, UNCHANGED network
  PROVE  /\ Possible' = Possible
         /\ PoolIds' /\ LandedTx' /\ LandedIds' /\ OnePossible'
         /\ (landed # {})' = (landed # {})
BY DEF network, IInv, Possible, CanStillLand, Ids, PoolIds, LandedTx, LandedIds,
       OnePossible

(* The heart of the protocol: with one server per scan, a scan that reached
   the deadline and found nothing, after an index past the deadline, means
   that no transaction of the tag landed and none can. *)
LEMMA AbsentIsTrue ==
  ASSUME IInv, OneServerPerScan, ScanAbsent
  PROVE  Possible = {}
<1> USE DEF IInv, PinnedTypeOK, Tx, Payments
<1>1. PICK v \in ScanAnswers : Covers(v[2]) /\ Found(v[1]) = {}
  BY DEF ScanAbsent
<1>2. /\ v[1] = v[2] /\ v[1] \in Nat /\ v[1] >= deadline
  BY <1>1 DEF ScanAnswers, Covers, Views
<1>3. /\ index > deadline /\ index <= validated /\ intent
  BY DEF ScanAbsent, DriverKnows
<1>4. SUFFICES ASSUME NEW t \in Possible PROVE FALSE
  OBVIOUS
<1>5. t \in pool /\ t.lls \in Nat /\ t.lls <= deadline
  BY <1>3, <1>4 DEF Bounded, Possible
<1>6. ~CanStillLand(t)
  BY <1>3, <1>5 DEF CanStillLand
<1>7. PICK l \in landed : l.id = t.id
  BY <1>4, <1>6 DEF Possible, Ids
<1>8. PICK u \in pool : u.id = l.id /\ l.at <= u.lls
  BY <1>7 DEF LandedTx
<1>9. l.at <= deadline
  BY <1>5, <1>7, <1>8 DEF PoolIds
<1>10. deadline - Slack <= l.at
  BY <1>3, <1>7, ConstantsAssumption DEF Bounded
<1>11. l \in Found(v[1])
  BY <1>2, <1>7, <1>9, <1>10 DEF Found
<1> QED BY <1>1, <1>11

-----------------------------------------------------------------------------
LEMMA InitIInv == PinnedInit => IInv
<1> SUFFICES ASSUME PinnedInit PROVE IInv
  OBVIOUS
<1>1. PinnedTypeOK
  <2>1. 0 \in 0 .. Horizon
    BY ConstantsAssumption
  <2> QED BY <2>1 DEF PinnedInit, PinnedTypeOK, Tx, Payments, NoTx
<1>2. Possible = {}
  BY DEF PinnedInit, Possible
<1>3. PoolIds /\ LandedTx /\ LandedIds /\ OnePossible
  BY <1>2 DEF PinnedInit, PoolIds, LandedTx, LandedIds, OnePossible
<1>4. Bounded /\ DriverKnows /\ DoneMeansLanded /\ NeverForgotten
  BY <1>2 DEF PinnedInit, Bounded, DriverKnows, DoneMeansLanded, NeverForgotten
<1> QED BY <1>1, <1>3, <1>4 DEF IInv

LEMMA CloseLedgerStep ==
  ASSUME IInv, CloseLedger
  PROVE  IInv'
<1> USE DEF IInv, PinnedTypeOK, Tx, Payments
<1>1. PICK ok \in SUBSET Open, tec \in SUBSET Open :
        /\ ok \cap tec = {}
        /\ \A t \in ok \cup tec : t.lls >= validated'
        /\ landed' = landed \cup {[id |-> t.id, at |-> validated'] : t \in ok}
        /\ failed' = failed \cup Ids(tec)
  BY DEF CloseLedger
<1>2. /\ validated' = validated + 1 /\ validated < Horizon
      /\ UNCHANGED <<pool, intent, deadline, done, pc, mine, index>>
  BY DEF CloseLedger, row, driver
<1>3. /\ Possible' \subseteq Possible
      /\ \A l \in landed' : l \in landed \/ (l.at = validated + 1 /\
                              \E t \in Possible : t.id = l.id /\ l.at <= t.lls)
  BY CloseOnlyResolves
<1>4. PinnedTypeOK'
  <2>1. validated' \in 0 .. Horizon
    BY <1>2, ConstantsAssumption
  <2>2. \A t \in Open : t.id \in 1 .. MaxAttempts
    BY DEF Open
  <2>3. landed' \in SUBSET Payments
    BY <1>1, <2>1, <2>2
  <2>4. failed' \in SUBSET (1 .. MaxAttempts)
    BY <1>1, <2>2 DEF Ids
  <2> QED BY <1>2, <2>1, <2>3, <2>4
<1>5. PoolIds'
  BY <1>2 DEF PoolIds
<1>6. LandedTx'
  <2> SUFFICES ASSUME NEW l \in landed'
               PROVE /\ l.at <= validated'
                     /\ l.id \notin failed'
                     /\ \E t \in pool' : t.id = l.id /\ l.at <= t.lls
    BY DEF LandedTx
  <2>1. CASE l \in landed
    <3>1. l.id \notin Ids(tec)
      BY <1>1, <2>1 DEF Open, Ids
    <3> QED BY <1>1, <1>2, <2>1, <3>1 DEF LandedTx
  <2>2. CASE l \notin landed
    <3>1. PICK t \in ok : l = [id |-> t.id, at |-> validated']
      BY <1>1, <2>2
    <3>2. t.id \notin Ids(tec)
      BY <1>1, <3>1 DEF Open, Ids, PoolIds
    <3> QED BY <1>1, <1>2, <3>1, <3>2 DEF Open
  <2> QED BY <2>1, <2>2
<1>7. LandedIds'
  <2>1. ASSUME NEW l \in landed', NEW m \in landed', l.id = m.id, l \notin landed
        PROVE  l = m
    <3>1. PICK t \in ok : l = [id |-> t.id, at |-> validated']
      BY <1>1, <2>1
    <3>2. m \notin landed
      BY <2>1, <3>1 DEF Open, Ids
    <3>3. PICK u \in ok : m = [id |-> u.id, at |-> validated']
      BY <1>1, <3>2
    <3> QED BY <2>1, <3>1, <3>3
  <2> QED BY <2>1 DEF LandedIds
<1>8. OnePossible'
  BY <1>3 DEF OnePossible
<1>9. Bounded'
  <2> SUFFICES ASSUME intent PROVE
        /\ ~done
        /\ deadline <= validated + 1 + Margin
        /\ \A t \in Possible' : t.lls <= deadline
        /\ \A l \in landed' : deadline < l.at + Margin
    BY <1>2 DEF Bounded
  <2>1. /\ ~done /\ deadline <= validated + Margin
        /\ \A t \in Possible : t.lls <= deadline
        /\ \A l \in landed : deadline < l.at + Margin
    BY DEF Bounded
  <2>2. \A l \in landed' : deadline < l.at + Margin
    BY <1>3, <2>1, ConstantsAssumption
  <2> QED BY <1>3, <2>1, <2>2, ConstantsAssumption
<1>10. DriverKnows'
  BY <1>2, <1>3 DEF DriverKnows
<1>11. DoneMeansLanded' /\ NeverForgotten'
  BY <1>1, <1>2, <1>3 DEF DoneMeansLanded, NeverForgotten
<1> QED BY <1>4, <1>5, <1>6, <1>7, <1>8, <1>9, <1>10, <1>11

LEMMA SubmitStep ==
  ASSUME IInv, PinnedSubmit
  PROVE  IInv'
<1> USE DEF IInv, PinnedTypeOK, Tx, Payments
<1>1. PICK cur \in Views, id \in 1 .. MaxAttempts \ Ids(pool) :
        /\ pool' = pool \cup {[id |-> id, lls |-> PinnedLls(cur)]}
        /\ mine' = [id |-> id, lls |-> PinnedLls(cur)]
  BY DEF PinnedSubmit
<1>2. /\ UNCHANGED <<validated, landed, failed, intent, deadline, done, index>>
      /\ pc = "begun" /\ pc' = "sent"
  BY DEF PinnedSubmit, row
<1>3. PinnedLls(cur) \in Nat /\ PinnedLls(cur) <= deadline
  BY ConstantsAssumption DEF PinnedLls, Lower, Views
<1>4. intent /\ Possible = {}
  BY <1>2 DEF DriverKnows
<1>5. Possible' \subseteq {mine'}
  BY <1>1, <1>2, <1>4 DEF Possible, CanStillLand
<1>6. PinnedTypeOK'
  BY <1>1, <1>2, <1>3
<1>7. PoolIds' /\ LandedTx' /\ LandedIds'
  BY <1>1, <1>2 DEF PoolIds, LandedTx, LandedIds, Ids
<1>8. OnePossible'
  BY <1>5 DEF OnePossible
<1>9. Bounded'
  BY <1>1, <1>2, <1>3, <1>5 DEF Bounded
<1>10. DriverKnows'
  BY <1>1, <1>2, <1>3, <1>4, <1>5 DEF DriverKnows
<1>11. DoneMeansLanded' /\ NeverForgotten'
  BY <1>2, <1>4 DEF DoneMeansLanded, NeverForgotten
<1> QED BY <1>6, <1>7, <1>8, <1>9, <1>10, <1>11

(* Every other step leaves the network alone. *)
LEMMA DriverStep ==
  ASSUME IInv, OneServerPerScan,
         \/ Begin \/ NotSubmitted \/ Confirmed \/ Rejected \/ Unknown \/ Crash
         \/ ReadIndex \/ ScanLanded \/ ScanAbsent \/ ScanWait
  PROVE  IInv'
<1> USE DEF IInv, PinnedTypeOK, Tx, Payments
<1>1. UNCHANGED network
  BY DEF Begin, NotSubmitted, Confirmed, Rejected, Unknown, Crash, ReadIndex, ScanLanded,
         ScanAbsent, ScanWait
<1>2. /\ Possible' = Possible
      /\ PoolIds' /\ LandedTx' /\ LandedIds' /\ OnePossible'
      /\ (landed # {})' = (landed # {})
  BY <1>1, NetworkUnchanged
<1>3. UNCHANGED <<validated, pool, landed, failed>>
  BY <1>1 DEF network
<1>4. CASE Begin
  <2>1. PICK idx \in Views : deadline' = idx + Margin
    BY <1>4 DEF Begin
  <2>2. Possible = {} /\ landed = {}
    <3>1. Possible = {}
      BY <1>4 DEF Begin, NeverForgotten
    <3>2. \A l \in landed : \E t \in Possible : t.id = l.id
      BY DEF LandedTx, Possible, Ids
    <3> QED BY <3>1, <3>2
  <2>3. PinnedTypeOK' /\ Bounded' /\ DriverKnows'
    BY <1>2, <1>3, <1>4, <2>1, <2>2, ConstantsAssumption
       DEF Begin, Views, Bounded, DriverKnows
  <2> QED BY <1>2, <1>4, <2>2, <2>3 DEF Begin, DoneMeansLanded, NeverForgotten
<1>5. CASE NotSubmitted
  BY <1>2, <1>3, <1>5
     DEF NotSubmitted, Bounded, DriverKnows, DoneMeansLanded, NeverForgotten
<1>6. CASE Confirmed \/ ScanLanded
  <2>1. landed # {}
    BY <1>6 DEF Confirmed, ScanLanded, Found, Ids
  <2> QED
    BY <1>2, <1>3, <1>6, <2>1
       DEF Confirmed, ScanLanded, Bounded, DriverKnows, DoneMeansLanded, NeverForgotten
<1>7. CASE Rejected
  <2>1. Possible = {}
    <3>1. CASE pc = "begun"
      BY <3>1 DEF DriverKnows
    <3>2. CASE pc = "sent" /\ mine.id \in failed
      <4>1. Possible \subseteq {mine}
        BY <3>2 DEF DriverKnows
      <4>2. mine.id \notin Ids(landed) /\ ~CanStillLand(mine)
        BY <3>2 DEF LandedTx, Ids, CanStillLand
      <4> QED BY <4>1, <4>2 DEF Possible
    <3> QED BY <1>7, <3>1, <3>2 DEF Rejected
  <2> QED
    BY <1>2, <1>3, <1>7, <2>1
       DEF Rejected, Bounded, DriverKnows, DoneMeansLanded, NeverForgotten
<1>8. CASE Unknown
  <2>1. /\ intent /\ ~done /\ mine \in pool /\ mine.lls \in Nat /\ mine.lls <= deadline
        /\ Possible \subseteq {mine}
    BY <1>8 DEF Unknown, DriverKnows, Bounded
  <2> QED
    BY <1>2, <1>3, <1>8, <2>1, ConstantsAssumption
       DEF Unknown, Bounded, DriverKnows, DoneMeansLanded, NeverForgotten
<1>9. CASE Crash
  BY <1>2, <1>3, <1>9 DEF Crash, row, Bounded, DriverKnows, DoneMeansLanded, NeverForgotten
<1>10. CASE ReadIndex
  BY <1>2, <1>3, <1>10
     DEF ReadIndex, row, Views, Bounded, DriverKnows, DoneMeansLanded, NeverForgotten
<1>11. CASE ScanAbsent
  <2>1. Possible = {}
    BY <1>11, AbsentIsTrue
  <2> QED
    BY <1>2, <1>3, <1>11, <2>1
       DEF ScanAbsent, Bounded, DriverKnows, DoneMeansLanded, NeverForgotten
<1>12. CASE ScanWait
  BY <1>2, <1>3, <1>12
     DEF ScanWait, row, Bounded, DriverKnows, DoneMeansLanded, NeverForgotten
<1> QED BY <1>4, <1>5, <1>6, <1>7, <1>8, <1>9, <1>10, <1>11, <1>12

LEMMA NextIInv ==
  ASSUME OneServerPerScan
  PROVE  IInv /\ [PinnedNext]_pinnedVars => IInv'
<1> SUFFICES ASSUME IInv, [PinnedNext]_pinnedVars PROVE IInv'
  OBVIOUS
<1>1. CASE CloseLedger
  BY <1>1, CloseLedgerStep
<1>2. CASE PinnedSubmit
  BY <1>2, SubmitStep
<1>3. CASE \/ Begin \/ NotSubmitted \/ Confirmed \/ Rejected \/ Unknown \/ Crash
           \/ ReadIndex \/ ScanLanded \/ ScanAbsent \/ ScanWait
  BY <1>3, DriverStep
<1>4. CASE UNCHANGED pinnedVars
  BY <1>4 DEF pinnedVars, network, row, driver, IInv, PinnedTypeOK, PoolIds, LandedTx, LandedIds,
              OnePossible, Bounded, DriverKnows, DoneMeansLanded, NeverForgotten,
              Possible, CanStillLand, Ids
<1> QED BY <1>1, <1>2, <1>3, <1>4 DEF PinnedNext

-----------------------------------------------------------------------------
(* The types of the protocol's state; with it, the whole inductive
   invariant is maintained by every step the backend and the ledger take. *)
THEOREM InductiveInvariant ==
  ASSUME OneServerPerScan
  PROVE  PinnedSpec => []IInv
<1>1. IInv /\ [PinnedNext]_pinnedVars => IInv'
  BY NextIInv
<1> QED BY <1>1, InitIInv, PTL DEF PinnedSpec

LEMMA IInvOnce == IInv => AtMostOnce
<1> SUFFICES ASSUME IInv, NEW l \in landed, NEW m \in landed PROVE l = m
  BY DEF AtMostOnce
<1>1. PICK t \in pool : t.id = l.id
  BY DEF IInv, LandedTx
<1>2. PICK u \in pool : u.id = m.id
  BY DEF IInv, LandedTx
<1>3. t \in Possible /\ u \in Possible
  BY <1>1, <1>2 DEF Possible, Ids
<1> QED BY <1>1, <1>2, <1>3 DEF IInv, OnePossible, LandedIds

(* No phase of a fill or a bid is ever paid twice, whatever the crashes,
   unknown outcomes and lagging reads of _phase_outcome. *)
THEOREM NeverPaidTwice ==
  ASSUME OneServerPerScan
  PROVE  PinnedSpec => []AtMostOnce
<1>1. IInv => AtMostOnce
  BY IInvOnce
<1> QED BY <1>1, InductiveInvariant, PTL

(* The row, the driver and the pool of submitted payments keep their types
   through every step of _phase_outcome. *)
THEOREM TypeCorrect ==
  ASSUME OneServerPerScan
  PROVE  PinnedSpec => []PinnedTypeOK
<1>1. IInv => PinnedTypeOK
  BY DEF IInv
<1> QED BY <1>1, InductiveInvariant, PTL

(* A payment that may still land is the one its row holds an intent for: no
   crash, timeout or absent verdict drops the row's memory of it too soon. *)
THEOREM IntentOutlivesPayment ==
  ASSUME OneServerPerScan
  PROVE  PinnedSpec => []NeverForgotten
<1>1. IInv => NeverForgotten
  BY DEF IInv
<1> QED BY <1>1, InductiveInvariant, PTL

(* A hash is recorded only for a payment the ledger made, and one that may
   land is never forgotten by its row. *)
THEOREM RowTellsTheTruth ==
  ASSUME OneServerPerScan
  PROVE  PinnedSpec => [](DoneMeansLanded /\ NeverForgotten)
<1>1. IInv => DoneMeansLanded /\ NeverForgotten
  BY DEF IInv
<1> QED BY <1>1, InductiveInvariant, PTL

(* The protocol implements OncePayment: each of its steps pays the one
   payment, records it, or is invisible. *)
THEOREM ImplementsOncePayment ==
  ASSUME OneServerPerScan
  PROVE  PinnedSpec => PaysOnce
<1>1. PinnedInit => Once!Init
  BY DEF PinnedInit, Once!Init
<1>2. IInv /\ IInv' /\ [PinnedNext]_pinnedVars => [Once!Next]_(Once!vars)
  <2> SUFFICES ASSUME IInv, IInv', [PinnedNext]_pinnedVars PROVE [Once!Next]_(Once!vars)
    OBVIOUS
  <2> USE DEF Once!Next, Once!Pay, Once!Record, Once!vars
  <2>1. CASE CloseLedger
    <3>1. UNCHANGED done /\ landed \subseteq landed' /\ landed' \subseteq Payments
      BY <2>1 DEF CloseLedger, row, IInv, PinnedTypeOK
    <3>2. CASE landed' = landed
      BY <3>1, <3>2
    <3>3. CASE landed' # landed
      <4>1. PICK l \in landed' : l \notin landed
        BY <3>1, <3>3
      <4>2. \A m \in landed' : m = l
        BY IInvOnce, <4>1 DEF AtMostOnce, IInv, LandedTx, LandedIds, OnePossible, Possible, Ids
      <4>3. landed = {} /\ landed' = {l} /\ l \in Payments
        BY <3>1, <4>1, <4>2
      <4>4. ~done
        BY <4>3 DEF IInv, DoneMeansLanded
      <4> QED BY <3>1, <4>3, <4>4
    <3> QED BY <3>2, <3>3
  <2>2. CASE Confirmed \/ ScanLanded
    BY <2>2 DEF Confirmed, ScanLanded, network, Found, Ids, IInv, DriverKnows, Bounded
  <2>3. CASE PinnedSubmit
    BY <2>3 DEF PinnedSubmit, row
  <2>4. CASE \/ Begin \/ NotSubmitted \/ Rejected \/ Unknown \/ Crash
             \/ ReadIndex \/ ScanAbsent \/ ScanWait
    BY <2>4 DEF Begin, NotSubmitted, Rejected, Unknown, Crash, ReadIndex, ScanAbsent,
                ScanWait, network, row
  <2>5. CASE UNCHANGED pinnedVars
    BY <2>5 DEF pinnedVars, network, row
  <2> QED BY <2>1, <2>2, <2>3, <2>4, <2>5 DEF PinnedNext
<1> QED BY <1>1, <1>2, InductiveInvariant, PTL DEF PinnedSpec, PaysOnce, Once!Spec
=============================================================================
