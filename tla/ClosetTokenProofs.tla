------------------------- MODULE ClosetTokenProofs -------------------------
(***************************************************************************)
(* Proofs about ClosetToken, for every set of units, every bound and any   *)
(* number of flows, faults and crashes: the journal's records are true,    *)
(* the mirror is the version it names, and no version is overwritten that  *)
(* was known when the mirror was read.                                     *)
(***************************************************************************)
EXTENDS ClosetToken, SequenceTheorems, TLAPS

-----------------------------------------------------------------------------
(* The inductive invariant.                                                *)

Busy   == op.step # "idle"
InFlow == Busy /\ op.kind # "mirror"
OurRecord == journal[Len(journal)]

\* TypeOK in parts, with what a step of the character or of the listener needs.
Few(S) == S \subseteq Unit /\ \E u \in Unit : S \subseteq {u}

LedgerShape == Few(worn) /\ tokens \subseteq Unit

ChainShape ==
    /\ chain \in Seq(Version) /\ flying \in Seq(Modify)
    /\ Len(chain) \in Nat \ {0} /\ Len(flying) \in Nat

MirrorShape ==
    mirror \in [has : SUBSET Unit, uri : 1..Len(chain), stamp : 1..Len(chain), pending : BOOLEAN]

OpShape ==
    /\ op \in [kind : Kinds, step : {"idle", "first", "sync", "sent", "mark", "undo"},
               take : SUBSET Unit, give : SUBSET Unit, read : SUBSET Unit,
               knew : Nat, seq : Nat]
    /\ Few(op.take) /\ Few(op.give)
    /\ op.kind \in OnToken => op.take = {} \/ op.give = {}
    /\ op.kind = "mirror" =>
          /\ op.take = {} /\ op.give = {}
          /\ op.step \in {"sync", "sent", "mark"}
    /\ InFlow => op.kind \in OnCharacter \cup OnToken

JournalShape == journal \in Seq(Record) /\ Len(journal) \in Nat

FillShape ==
    fill \in [st : {"none", "promised", "asset_moved", "mirrored", "settled", "ended"},
             unit : Unit, side : {"seller", "buyer"}]

ListenerShape ==
    /\ archived \in 1..Len(chain) /\ applied \in 1..Len(chain)
    /\ peek \in [verdict : {"none", "skip", "keep", "name", "rebuild"}, uri : 0..Len(chain)]
    /\ peek # NoPeek => applied < Len(chain) /\ peek.uri \in 1..Len(chain)
    /\ slips \subseteq {"torn", "late"}
    /\ faults \in 0..MaxFaults

Shape ==
    /\ LedgerShape /\ ChainShape /\ MirrorShape /\ OpShape /\ JournalShape
    /\ FillShape /\ ListenerShape

\* Nothing on the ledger, or on its way, carries the number s.
Unsent(s) ==
    /\ \A v \in 1..Len(chain) : chain[v].seq # s
    /\ \A m \in 1..Len(flying) : flying[m].seq # s

Made(s) == \E v \in 1..Len(chain) : chain[v].seq = s

\* Submissions and records are numbered in order, and a flow's record is the last.
Numbered ==
    /\ \A v \in 1..Len(chain) : chain[v].seq <= op.seq
    /\ \A m \in 1..Len(flying) : flying[m].seq <= op.seq
    /\ \A k \in 1..Len(journal) : journal[k].seq <= op.seq
    /\ \A j, k \in 1..Len(journal) : j < k => journal[j].seq < journal[k].seq
    /\ op.kind = "mirror" => \A k \in 1..Len(journal) : journal[k].seq < op.seq
    /\ InFlow =>
          /\ Len(journal) >= 1
          /\ OurRecord = [status |-> "running", kind |-> op.kind, take |-> op.take,
                          give |-> op.give, seq |-> op.seq]

\* Where the flow in progress has got to.
Progress ==
    /\ op.step \in {"first", "sync", "undo"} => Unsent(op.seq)
    /\ op.step = "mark" => Made(op.seq)
    /\ op.step = "first" /\ op.kind \in OnCharacter => worn = op.give
    /\ op.step \in {"sync", "sent", "mark", "undo"} /\ op.kind # "mirror" => StepStands(op)

Truth == Numbered /\ Progress /\ JournalIsTrue

\* A version that knows of the fill's move is never followed by one that does not.
MovesInOrder ==
    /\ \A v \in 1..Len(chain) : chain[v].moved =>
          /\ Moved
          /\ \A w \in v..Len(chain) : chain[w].moved
          /\ \A m \in 1..Len(flying) : flying[m].moved
    /\ \A m \in 1..Len(flying) : flying[m].moved =>
          /\ Moved
          /\ \A n \in m..Len(flying) : flying[n].moved

\* What was sent is what the flow in progress will write to the mirror.
SentIsOurs ==
    op.step = "sent" =>
        /\ \A v \in 1..Len(chain) :
              chain[v].seq = op.seq => chain[v].has = Contents /\ chain[v].moved = Moved
        /\ \A m \in 1..Len(flying) :
              flying[m].seq = op.seq => flying[m].has = Contents /\ flying[m].moved = Moved

MirrorOfFill == op.kind = "mirror" => fill.st = "asset_moved"

\* With a listener that is neither torn nor late.
Named == mirror.stamp = mirror.uri /\ mirror.has = Standing(chain[mirror.uri])
SettledIsSeen == fill.st = "settled" => \E w \in 1..applied : chain[w].moved
Mirrored ==
    /\ Named /\ SettledIsSeen
    /\ op.kind = "mirror" /\ op.step \in {"sync", "sent"} => op.read = mirror.has

\* What is on its way overwrites nothing that was known when it was read.
Flies(f) == \E m \in 1..Len(flying) : flying[m] = f
FlyersSafe == \A f \in Modify : Flies(f) /\ f.knew = Len(chain) => Overwritten(f) = {}

\* Who read the newest version read what it stands for, and sends it on.
Informed ==
    /\ op.step \in {"first", "sync"} /\ op.knew = Len(chain) => op.read = Standing(Top)
    /\ op.step = "first" /\ op.knew = Len(chain) => mirror.uri = Len(chain)
    /\ FlyersSafe

NoneFromTheFuture ==
    op.knew <= Len(chain) /\ \A m \in 1..Len(flying) : flying[m].knew <= Len(chain)

Order == MovesInOrder /\ SentIsOurs /\ MirrorOfFill /\ NoneFromTheFuture
Tells == slips = {} => Mirrored /\ Informed

IInv == Shape /\ Truth /\ Order /\ Tells

-----------------------------------------------------------------------------
(* What the writes leave in the three sequences.                           *)

LEMMA Landing ==
    ASSUME TypeOK, Land
    PROVE  /\ chain' \in Seq(Version) /\ Len(chain') = Len(chain) + 1
           /\ \A v \in 1..Len(chain) : chain'[v] = chain[v]
           /\ chain'[Len(chain) + 1] = [seq |-> flying[1].seq, has |-> flying[1].has,
                                        moved |-> flying[1].moved]
           /\ Len(flying) \in Nat /\ Len(flying) >= 1 /\ Head(flying) = flying[1]
           /\ flying' \in Seq(Modify) /\ Len(flying') = Len(flying) - 1
           /\ \A m \in 1..Len(flying') : flying'[m] = flying[m + 1]
<1> DEFINE new == [seq |-> flying[1].seq, has |-> flying[1].has, moved |-> flying[1].moved]
<1>1. flying \in Seq(Modify) /\ flying # <<>> /\ Head(flying) = flying[1]
  BY DEF Land, TypeOK
<1>2. Len(flying) \in Nat /\ Len(flying) >= 1
  BY <1>1, EmptySeq
<1>3. flying[1] \in Modify
  BY <1>1, <1>2, ElementOfSeq
<1>4. new \in Version
  BY <1>3 DEF Modify, Version
<1>5. chain' = Append(chain, new) /\ flying' = Tail(flying)
  BY <1>1 DEF Land
<1> HIDE DEF new
<1>6. chain \in Seq(Version)
  BY DEF TypeOK
<1>7. /\ chain' \in Seq(Version) /\ Len(chain') = Len(chain) + 1
      /\ \A v \in 1..Len(chain) : chain'[v] = chain[v]
      /\ chain'[Len(chain) + 1] = new
  BY <1>4, <1>5, <1>6, AppendProperties
<1>8. /\ flying' \in Seq(Modify) /\ Len(flying') = Len(flying) - 1
      /\ \A m \in 1..Len(flying') : flying'[m] = flying[m + 1]
  BY <1>1, <1>5, HeadTailProperties
<1> QED
  BY <1>1, <1>2, <1>7, <1>8 DEF new

LEMMA Dying ==
    ASSUME TypeOK, NEW d \in 1..Len(flying), flying' = RemoveAt(flying, d)
    PROVE  /\ flying' \in Seq(Modify) /\ Len(flying') = Len(flying) - 1
           /\ \A m \in 1..Len(flying') : flying'[m] = IF m < d THEN flying[m] ELSE flying[m + 1]
<1> DEFINE s == SubSeq(flying, 1, d - 1)
           t == SubSeq(flying, d + 1, Len(flying))
<1>1. flying \in Seq(Modify) /\ Len(flying) \in Nat
  BY LenProperties DEF TypeOK
<1>2. \A m \in 1..Len(flying) : flying[m] \in Modify
  BY <1>1, ElementOfSeq
<1>3. /\ s \in Seq(Modify) /\ Len(s) = d - 1
      /\ \A m \in 1..(d - 1) : s[m] = flying[m]
  <2>1. /\ SubSeq(flying, 1, d - 1) \in Seq(Modify)
        /\ Len(SubSeq(flying, 1, d - 1)) = IF 1 <= d - 1 THEN (d - 1) - 1 + 1 ELSE 0
        /\ \A i \in 1..((d - 1) - 1 + 1) : SubSeq(flying, 1, d - 1)[i] = flying[1 + i - 1]
    BY <1>1, <1>2, SubSeqProperties
  <2> QED
    BY <2>1
<1>4. /\ t \in Seq(Modify) /\ Len(t) = Len(flying) - d
      /\ \A m \in 1..(Len(flying) - d) : t[m] = flying[d + m]
  <2>1. /\ SubSeq(flying, d + 1, Len(flying)) \in Seq(Modify)
        /\ Len(SubSeq(flying, d + 1, Len(flying)))
              = IF d + 1 <= Len(flying) THEN Len(flying) - (d + 1) + 1 ELSE 0
        /\ \A i \in 1..(Len(flying) - (d + 1) + 1) :
              SubSeq(flying, d + 1, Len(flying))[i] = flying[(d + 1) + i - 1]
    BY <1>1, <1>2, SubSeqProperties
  <2> QED
    BY <2>1, <1>1
<1>5. flying' = s \o t
  BY DEF RemoveAt
<1> HIDE DEF s, t
<1>6. /\ s \o t \in Seq(Modify)
      /\ Len(s \o t) = Len(s) + Len(t)
      /\ \A m \in 1..(Len(s) + Len(t)) :
            (s \o t)[m] = IF m <= Len(s) THEN s[m] ELSE t[m - Len(s)]
  BY <1>3, <1>4, ConcatProperties
<1>7. Len(flying') = Len(flying) - 1
  BY <1>1, <1>3, <1>4, <1>5, <1>6
<1>8. ASSUME NEW m \in 1..Len(flying')
      PROVE  flying'[m] = IF m < d THEN flying[m] ELSE flying[m + 1]
  <2>1. CASE m < d
    BY <2>1, <1>1, <1>3, <1>4, <1>5, <1>6, <1>7
  <2>2. CASE ~(m < d)
    <3>1. flying'[m] = t[m - (d - 1)]
      BY <2>2, <1>1, <1>3, <1>4, <1>5, <1>6, <1>7
    <3>2. m - (d - 1) \in 1..(Len(flying) - d)
      BY <2>2, <1>1, <1>7
    <3>3. t[m - (d - 1)] = flying[d + (m - (d - 1))]
      BY <3>2, <1>4
    <3>4. d + (m - (d - 1)) = m + 1
      BY <1>1, <1>7
    <3> QED
      BY <2>2, <3>1, <3>3, <3>4
  <2> QED
    BY <2>1, <2>2
<1> QED
  BY <1>5, <1>6, <1>7, <1>8

LEMMA Submitting ==
    ASSUME TypeOK, Submit
    PROVE  /\ flying' \in Seq(Modify) /\ Len(flying') = Len(flying) + 1 /\ Len(flying) \in Nat
           /\ \A m \in 1..Len(flying) : flying'[m] = flying[m]
           /\ flying'[Len(flying) + 1] = [seq |-> op.seq, has |-> Contents, moved |-> Moved,
                                          knew |-> op.knew]
<1> DEFINE new == [seq |-> op.seq, has |-> Contents, moved |-> Moved, knew |-> op.knew]
<1>1. new \in Modify
  BY DEF TypeOK, Contents, Moved, Modify
<1>2. flying' = Append(flying, new)
  BY DEF Submit
<1> HIDE DEF new
<1>3. flying \in Seq(Modify) /\ Len(flying) \in Nat
  BY LenProperties DEF TypeOK
<1>4. /\ flying' \in Seq(Modify) /\ Len(flying') = Len(flying) + 1
      /\ \A m \in 1..Len(flying) : flying'[m] = flying[m]
      /\ flying'[Len(flying) + 1] = new
  BY <1>1, <1>2, <1>3, AppendProperties
<1> QED
  BY <1>3, <1>4 DEF new

LEMMA Recording ==
    ASSUME TypeOK, NEW status \in Statuses, Journal(status)
    PROVE  /\ journal' \in Seq(Record) /\ Len(journal') = Len(journal) /\ Len(journal) \in Nat
           /\ \A k \in 1..Len(journal) :
                 /\ journal'[k].kind = journal[k].kind /\ journal'[k].seq = journal[k].seq
                 /\ journal'[k].take = journal[k].take /\ journal'[k].give = journal[k].give
                 /\ journal'[k].status = IF k = Len(journal) THEN status ELSE journal[k].status
<1> DEFINE n == Len(journal)
           e == [journal[n] EXCEPT !.status = status]
<1>1. /\ journal \in Seq(Record) /\ n \in Nat /\ DOMAIN journal = 1..n
      /\ \A k \in 1..n : journal[k] \in Record
  BY LenProperties, ElementOfSeq DEF TypeOK
<1>2. journal' = [journal EXCEPT ![n] = e]
  BY DEF Journal
<1>3. CASE n = 0
  <2>1. journal' = journal
    BY <1>1, <1>2, <1>3, EmptySeq
  <2> QED
    BY <2>1, <1>1, <1>3
<1>4. CASE n # 0
  <2>1. n \in 1..n
    BY <1>1, <1>4
  <2>2. /\ e \in Record /\ e.status = status /\ e.kind = journal[n].kind
        /\ e.seq = journal[n].seq /\ e.take = journal[n].take /\ e.give = journal[n].give
    BY <1>1, <2>1 DEF Record
  <2> HIDE DEF e
  <2>3. /\ journal' \in Seq(Record) /\ Len(journal') = n
        /\ \A k \in 1..n : journal'[k] = IF k = n THEN e ELSE journal[k]
    BY <1>1, <1>2, <2>1, <2>2, ExceptSeq
  <2> QED
    BY <2>2, <2>3, <1>1
<1> QED
  BY <1>3, <1>4

LEMMA Beginning ==
    ASSUME TypeOK, NEW kind \in OnCharacter \cup OnToken,
           NEW take \in SUBSET Unit, NEW give \in SUBSET Unit, Begin(kind, take, give)
    PROVE  /\ journal' \in Seq(Record) /\ Len(journal') = Len(journal) + 1 /\ Len(journal) \in Nat
           /\ \A k \in 1..Len(journal) : journal'[k] = journal[k]
           /\ journal'[Len(journal) + 1] = [status |-> "running", kind |-> kind, take |-> take,
                                            give |-> give, seq |-> op.seq + 1]
<1> DEFINE new == [status |-> "running", kind |-> kind, take |-> take, give |-> give,
                   seq |-> op.seq + 1]
<1>1. new \in Record
  BY DEF TypeOK, Record, Statuses
<1>2. journal' = Append(journal, new)
  BY DEF Begin
<1> HIDE DEF new
<1>3. journal \in Seq(Record) /\ Len(journal) \in Nat
  BY LenProperties DEF TypeOK
<1>4. /\ journal' \in Seq(Record) /\ Len(journal') = Len(journal) + 1
      /\ \A k \in 1..Len(journal) : journal'[k] = journal[k]
      /\ journal'[Len(journal) + 1] = new
  BY <1>1, <1>2, <1>3, AppendProperties
<1> QED
  BY <1>3, <1>4 DEF new

-----------------------------------------------------------------------------
(* Types.                                                                  *)

LEMMA ShapeIsTyped == Shape => TypeOK
  BY DEF Shape, LedgerShape, ChainShape, MirrorShape, OpShape, JournalShape, FillShape,
         ListenerShape, Few, TypeOK

LEMMA VersionsAre ==
    ASSUME Shape
    PROVE  /\ \A v \in 1..Len(chain) : chain[v] \in Version
           /\ \A m \in 1..Len(flying) : flying[m] \in Modify
           /\ \A k \in 1..Len(journal) : journal[k] \in Record
  BY ElementOfSeq DEF Shape, ChainShape, JournalShape

LEMMA InitShape == Init => Shape
<1> SUFFICES ASSUME Init PROVE Shape
  OBVIOUS
<1> DEFINE first == [seq |-> 0, has |-> Loose, moved |-> FALSE]
<1>1. first \in Version
  BY ClosetAssumption DEF Version
<1>2. chain = <<first>>
  BY DEF Init
<1> HIDE DEF first
<1>3. ChainShape
  <2>1. chain \in Seq(Version) /\ Len(chain) = 1
    BY <1>1, <1>2
  <2>2. flying \in Seq(Modify) /\ Len(flying) = 0
    BY EmptySeq DEF Init
  <2> QED
    BY <2>1, <2>2 DEF ChainShape
<1>4. Len(chain) = 1
  BY <1>1, <1>2
<1>5. PICK u \in Unit : Worn \subseteq {u}
  BY ClosetAssumption
<1>6. fill.unit \in Unit /\ FillShape
  BY <1>5 DEF Init, FillShape
<1>7. LedgerShape /\ MirrorShape
  BY <1>4, <1>5, ClosetAssumption DEF Init, LedgerShape, MirrorShape, Few
<1>8. OpShape
  BY <1>5 DEF Init, OpShape, Few, NoOp, Kinds, OnToken, InFlow, Busy
<1>9. JournalShape
  BY EmptySeq DEF Init, JournalShape
<1>10. ListenerShape
  BY <1>4, ClosetAssumption DEF Init, ListenerShape, NoPeek
<1> QED
  BY <1>3, <1>6, <1>7, <1>8, <1>9, <1>10 DEF Shape

LEMMA JournalShaped ==
    ASSUME Shape, NEW status \in Statuses, Journal(status)
    PROVE  JournalShape'
<1>1. TypeOK
  BY ShapeIsTyped
<1>2. journal' \in Seq(Record) /\ Len(journal') = Len(journal) /\ Len(journal) \in Nat
  BY <1>1, Recording
<1> QED
  BY <1>2 DEF JournalShape

LEMMA EndShape ==
    ASSUME Shape, NEW status \in Statuses, End(status)
    PROVE  OpShape' /\ JournalShape'
<1>1. OpShape'
  <2>1. op' = [NoOp EXCEPT !.seq = op.seq] /\ op.seq \in Nat /\ \E u \in Unit : TRUE
    BY DEF End, Shape, OpShape, Few
  <2> QED
    BY <2>1 DEF OpShape, NoOp, Few, Kinds, OnToken, InFlow, Busy
<1>2. JournalShape'
  <2>1. CASE op.kind = "mirror"
    BY <2>1 DEF End, Shape, JournalShape
  <2>2. CASE op.kind # "mirror"
    BY <2>2, JournalShaped DEF End
  <2> QED
    BY <2>1, <2>2
<1> QED
  BY <1>1, <1>2

\* A part whose variables are left alone.
LEMMA ShapeFrames ==
    /\ LedgerShape /\ UNCHANGED <<worn, tokens>> => LedgerShape'
    /\ ChainShape /\ UNCHANGED <<chain, flying>> => ChainShape'
    /\ MirrorShape /\ UNCHANGED <<mirror, chain>> => MirrorShape'
    /\ OpShape /\ UNCHANGED op => OpShape'
    /\ JournalShape /\ UNCHANGED journal => JournalShape'
    /\ FillShape /\ UNCHANGED fill => FillShape'
    /\ ListenerShape /\ UNCHANGED <<lis, chain>> /\ faults' \in 0..MaxFaults => ListenerShape'
<1>1. LedgerShape /\ UNCHANGED <<worn, tokens>> => LedgerShape'
  BY DEF LedgerShape, Few
<1>2. ChainShape /\ UNCHANGED <<chain, flying>> => ChainShape'
  BY DEF ChainShape
<1>3. MirrorShape /\ UNCHANGED <<mirror, chain>> => MirrorShape'
  BY DEF MirrorShape
<1>4. OpShape /\ UNCHANGED op => OpShape'
  BY DEF OpShape, Few, InFlow, Busy
<1>5. JournalShape /\ UNCHANGED journal => JournalShape'
  BY DEF JournalShape
<1>6. FillShape /\ UNCHANGED fill => FillShape'
  BY DEF FillShape
<1>7. ListenerShape /\ UNCHANGED <<lis, chain>> /\ faults' \in 0..MaxFaults => ListenerShape'
  BY DEF ListenerShape, lis
<1> QED
  BY <1>1, <1>2, <1>3, <1>4, <1>5, <1>6, <1>7

LEMMA FaultsCounted == Shape /\ (Fault \/ NoFault) => faults' \in 0..MaxFaults
  BY ClosetAssumption DEF Shape, ListenerShape, Fault, NoFault

\* What the guards of a flow give its record.
Fits(kind, take, give) ==
    /\ kind \in OnCharacter \cup OnToken
    /\ Few(take) /\ Few(give)
    /\ kind \in OnToken => take = {} \/ give = {}
    /\ kind \in OnCharacter => give = worn

Begins == \E kind \in OnCharacter \cup OnToken, take, give \in SUBSET Unit :
              Fits(kind, take, give) /\ Begin(kind, take, give)

LEMMA FlowsBegin ==
    ASSUME Shape,
           Harvest \/ \E u \in Unit : Assemble(u) \/ Equip(u) \/ Extract(u) \/ Deposit(u)
    PROVE  Begins
<1>1. Few(worn) /\ Few({}) /\ worn \in SUBSET Unit
  BY DEF Shape, LedgerShape, Few
<1>2. CASE Harvest
  BY <1>1, <1>2 DEF Harvest, Begins, Fits, OnCharacter, OnToken
<1>3. ASSUME NEW u \in Unit, Assemble(u) \/ Equip(u) \/ Extract(u) \/ Deposit(u)
      PROVE  Begins
  <2>1. Few({u}) /\ {u} \in SUBSET Unit
    BY DEF Few
  <2>2. CASE Assemble(u)
    BY <1>1, <2>1, <2>2 DEF Assemble, Begins, Fits, OnCharacter, OnToken
  <2>3. CASE Equip(u)
    BY <1>1, <2>1, <2>3 DEF Equip, Begins, Fits, OnCharacter, OnToken
  <2>4. CASE Extract(u)
    BY <1>1, <2>1, <2>4 DEF Extract, Begins, Fits, OnCharacter, OnToken
  <2>5. CASE Deposit(u)
    BY <1>1, <2>1, <2>5 DEF Deposit, Begins, Fits, OnCharacter, OnToken
  <2> QED
    BY <1>3, <2>2, <2>3, <2>4, <2>5
<1> QED
  BY <1>2, <1>3

\* The actions, with those that start a flow as one.
LEMMA Actions ==
    ASSUME Shape, Next
    PROVE  \/ Begins \/ StepConfirmed \/ StepFails \/ StepUnclear \/ Undo
           \/ Submit \/ SyncFails \/ SyncUnclear \/ SyncConfirmed \/ Mark
           \/ \E u \in Unit, side \in {"seller", "buyer"} : Promise(u, side)
           \/ MoveAsset \/ MirrorFill \/ Settle
           \/ Land \/ Die \/ Read \/ Apply \/ Archive \/ Crash
<1>1. CASE Flow
  BY <1>1, FlowsBegin DEF Flow
<1>2. CASE Market
  BY <1>2 DEF Market
<1> QED
  BY <1>1, <1>2 DEF Next

LEMMA BeginShape == ASSUME Shape, Begins PROVE Shape'
<1>1. PICK kind \in OnCharacter \cup OnToken, take \in SUBSET Unit, give \in SUBSET Unit :
          Fits(kind, take, give) /\ Begin(kind, take, give)
  BY DEF Begins
<1>2. Known \in Nat
  BY DEF Shape, MirrorShape, ListenerShape, ChainShape, Known, Newer
<1>3. OpShape'
  <2>1. op' = [kind |-> kind, step |-> "first", take |-> take, give |-> give,
               read |-> mirror.has, knew |-> Known, seq |-> op.seq + 1]
    BY <1>1 DEF Begin
  <2>2. mirror.has \in SUBSET Unit /\ op.seq + 1 \in Nat
    BY DEF Shape, MirrorShape, OpShape
  <2> QED
    BY <1>1, <1>2, <2>1, <2>2 DEF OpShape, Fits, Few, Kinds, InFlow, Busy, OnCharacter, OnToken
<1>4. JournalShape'
  <2>1. TypeOK
    BY ShapeIsTyped
  <2>2. journal' \in Seq(Record) /\ Len(journal') = Len(journal) + 1 /\ Len(journal) \in Nat
    BY <1>1, <2>1, Beginning
  <2> QED
    BY <2>2 DEF JournalShape
<1>5. faults' \in 0..MaxFaults
  BY <1>1 DEF Begin, Shape, ListenerShape
<1> QED
  BY <1>1, <1>3, <1>4, <1>5, ShapeFrames DEF Shape, Begin, ledger, lis

LEMMA StepTypes ==
    ASSUME Shape, InFlow
    PROVE  (DoStep => LedgerShape') /\ (UndoStep => LedgerShape')
  BY DEF Shape, LedgerShape, OpShape, Few, DoStep, UndoStep

LEMMA StepConfirmedShape == ASSUME Shape, StepConfirmed PROVE Shape'
<1>1. InFlow
  BY DEF StepConfirmed, Shape, OpShape, InFlow, Busy
<1>2. LedgerShape'
  BY <1>1, StepTypes DEF StepConfirmed
<1>3. OpShape'
  <2>1. mirror.has \in SUBSET Unit /\ mirror.uri \in Nat
    BY DEF Shape, MirrorShape, ChainShape
  <2>2. Newer(op.knew, mirror.uri) \in Nat
    BY <2>1 DEF Shape, OpShape, Newer
  <2>3. /\ op' \in [kind : Kinds, step : {"idle", "first", "sync", "sent", "mark", "undo"},
                    take : SUBSET Unit, give : SUBSET Unit, read : SUBSET Unit,
                    knew : Nat, seq : Nat]
        /\ op'.kind = op.kind /\ op'.take = op.take /\ op'.give = op.give /\ op'.step = "sync"
    <3>1. CASE op.kind \in {"harvest", "upgrade", "deposit"}
      BY <3>1, <2>1, <2>2 DEF StepConfirmed, Shape, OpShape
    <3>2. CASE op.kind \notin {"harvest", "upgrade", "deposit"}
      BY <3>2 DEF StepConfirmed, Shape, OpShape
    <3> QED
      BY <3>1, <3>2
  <2>4. /\ op.kind = op'.kind /\ op.kind # "mirror"
        /\ op'.step # "idle" /\ op.kind \in OnCharacter \cup OnToken
    BY <1>1, <2>3 DEF Shape, OpShape, InFlow, Busy
  <2> QED
    BY <2>3, <2>4 DEF Shape, OpShape, Few, InFlow, Busy
<1>4. faults' \in 0..MaxFaults
  BY DEF StepConfirmed, Shape, ListenerShape
<1> QED
  BY <1>2, <1>3, <1>4, ShapeFrames DEF Shape, StepConfirmed, lis

LEMMA StatusNames ==
    /\ {"complete", "complete_pending_mirror", "failed", "pending_closet", "sync_indeterminate",
        "failed_step", "reverted", "step_indeterminate", "failed_revert",
        "revert_indeterminate", "running"} = Statuses
    /\ Stepped \cap Nothing = {} /\ Whole \cap Unsynced = {}
  BY DEF Statuses, Stepped, Whole, Nothing, Unsynced

LEMMA StepFailsShape == ASSUME Shape, StepFails PROVE Shape'
<1>1. OpShape' /\ JournalShape'
  BY EndShape, StatusNames DEF StepFails
<1> QED
  BY <1>1, FaultsCounted, ShapeFrames DEF Shape, StepFails, ledger

LEMMA StepUnclearShape == ASSUME Shape, StepUnclear PROVE Shape'
<1>1. InFlow
  BY DEF StepUnclear, Shape, OpShape, InFlow, Busy
<1>2. LedgerShape'
  BY <1>1, StepTypes, ShapeFrames DEF StepUnclear, Shape
<1>3. OpShape' /\ JournalShape'
  BY EndShape, StatusNames DEF StepUnclear
<1> QED
  BY <1>2, <1>3, FaultsCounted, ShapeFrames DEF Shape, StepUnclear

LEMMA SubmitShape == ASSUME Shape, Submit PROVE Shape'
<1>1. TypeOK
  BY ShapeIsTyped
<1>2. flying' \in Seq(Modify) /\ Len(flying') = Len(flying) + 1 /\ Len(flying) \in Nat
  BY <1>1, Submitting
<1>3. ChainShape'
  BY <1>2 DEF Shape, ChainShape, Submit
<1>4. OpShape'
  BY DEF Shape, OpShape, Submit, Few, InFlow, Busy
<1>5. faults' \in 0..MaxFaults
  BY DEF Submit, Shape, ListenerShape
<1> QED
  BY <1>3, <1>4, <1>5, ShapeFrames DEF Shape, Submit, lis

\* A flow that a fill's mirror is not goes back to undo its step.
LEMMA ToUndo ==
    ASSUME Shape, InFlow, op' = [op EXCEPT !.step = "undo"]
    PROVE  OpShape'
  BY DEF Shape, OpShape, Few, InFlow, Busy

LEMMA SyncFailsShape == ASSUME Shape, SyncFails PROVE Shape'
<1>1. OpShape' /\ JournalShape'
  <2>1. CASE op.kind \in {"harvest", "assemble", "equip", "extract"}
    <3>1. InFlow
      BY <2>1 DEF SyncFails, SyncRefused, InFlow, Busy
    <3> QED
      BY <2>1, <3>1, ToUndo, ShapeFrames DEF SyncFails, Shape
  <2>2. CASE op.kind \notin {"harvest", "assemble", "equip", "extract"}
    BY <2>2, EndShape, StatusNames DEF SyncFails
  <2> QED
    BY <2>1, <2>2
<1> QED
  BY <1>1, FaultsCounted, ShapeFrames DEF Shape, SyncFails, SyncRefused, ledger

LEMMA UndoShape == ASSUME Shape, Undo PROVE Shape'
<1>1. InFlow
  BY DEF Undo, Shape, OpShape, InFlow, Busy
<1>2. LedgerShape'
  BY <1>1, StepTypes, ShapeFrames DEF Undo, Shape
<1>3. OpShape' /\ JournalShape'
  BY EndShape, StatusNames DEF Undo
<1>4. faults' \in 0..MaxFaults
  BY FaultsCounted DEF Undo
<1> QED
  BY <1>2, <1>3, <1>4, ShapeFrames DEF Shape, Undo

LEMMA SyncUnclearShape == ASSUME Shape, SyncUnclear PROVE Shape'
<1>1. OpShape' /\ JournalShape'
  BY EndShape, StatusNames DEF SyncUnclear
<1> QED
  BY <1>1, FaultsCounted, ShapeFrames DEF Shape, SyncUnclear, ledger

LEMMA SyncConfirmedShape == ASSUME Shape, SyncConfirmed PROVE Shape'
<1>1. PICK v \in 1..Len(chain) :
          \/ /\ NoFault
             /\ mirror' = IF op.kind = "mirror"
                          THEN [mirror EXCEPT !.uri = v, !.stamp = v]
                          ELSE [has |-> Contents, uri |-> v, stamp |-> v, pending |-> FALSE]
             /\ IF op.kind = "mirror"
                THEN op' = [op EXCEPT !.step = "mark"] /\ UNCHANGED journal
                ELSE End("complete")
          \/ /\ Fault /\ UNCHANGED mirror
             /\ op' = [op EXCEPT !.step = "mark"] /\ UNCHANGED journal
  BY DEF SyncConfirmed
<1>2. Contents \in SUBSET Unit
  BY DEF Contents, Shape, OpShape
<1>3. MirrorShape'
  <2>1. /\ mirror \in [has : SUBSET Unit, uri : 1..Len(chain), stamp : 1..Len(chain),
                      pending : BOOLEAN]
        /\ chain' = chain
    BY DEF Shape, MirrorShape, SyncConfirmed, ledger
  <2>2. CASE mirror' = [mirror EXCEPT !.uri = v, !.stamp = v]
    BY <2>1, <2>2 DEF MirrorShape
  <2>3. CASE mirror' = [has |-> Contents, uri |-> v, stamp |-> v, pending |-> FALSE]
    BY <2>1, <2>3, <1>2 DEF MirrorShape
  <2>4. CASE UNCHANGED mirror
    BY <2>1, <2>4 DEF MirrorShape
  <2> QED
    BY <1>1, <2>2, <2>3, <2>4
<1>4. op' = [op EXCEPT !.step = "mark"] => OpShape'
  BY DEF SyncConfirmed, Shape, OpShape, Few, InFlow, Busy
<1>5. OpShape' /\ JournalShape'
  BY <1>1, <1>4, EndShape, StatusNames, ShapeFrames DEF Shape
<1>6. faults' \in 0..MaxFaults
  BY <1>1, FaultsCounted
<1> QED
  BY <1>3, <1>5, <1>6, ShapeFrames DEF Shape, SyncConfirmed, ledger

LEMMA MarkShape == ASSUME Shape, Mark PROVE Shape'
<1>1. OpShape' /\ JournalShape'
  BY EndShape, StatusNames DEF Mark
<1>2. MirrorShape'
  BY DEF Mark, Shape, MirrorShape, ledger
<1>3. FillShape'
  BY DEF Mark, Shape, FillShape
<1>4. faults' \in 0..MaxFaults
  BY FaultsCounted DEF Mark
<1> QED
  BY <1>1, <1>2, <1>3, <1>4, ShapeFrames DEF Shape, Mark, ledger

LEMMA MarketShape ==
    ASSUME Shape, \/ \E u \in Unit, side \in {"seller", "buyer"} : Promise(u, side)
                  \/ MoveAsset
    PROVE  Shape'
<1>1. FillShape'
  BY DEF Promise, MoveAsset, Shape, FillShape
<1>2. MirrorShape'
  BY DEF Promise, MoveAsset, Shape, MirrorShape, FillShape, ledger
<1>3. faults' \in 0..MaxFaults
  BY DEF Promise, MoveAsset, Shape, ListenerShape
<1> QED
  BY <1>1, <1>2, <1>3, ShapeFrames DEF Shape, Promise, MoveAsset, ledger, lis

LEMMA MirrorFillShape == ASSUME Shape, MirrorFill PROVE Shape'
<1>1. Known \in Nat
  BY DEF Shape, MirrorShape, ListenerShape, ChainShape, Known, Newer
<1>2. OpShape'
  BY <1>1 DEF MirrorFill, Shape, MirrorShape, OpShape, Few, Kinds, OnToken, OnCharacter,
              InFlow, Busy
<1>3. faults' \in 0..MaxFaults
  BY DEF MirrorFill, Shape, ListenerShape
<1> QED
  BY <1>2, <1>3, ShapeFrames DEF Shape, MirrorFill, ledger, lis

LEMMA SettleShape == ASSUME Shape, Settle PROVE Shape'
<1>1. FillShape'
  BY DEF Settle, Shape, FillShape
<1>2. ListenerShape'
  BY DEF Settle, Shape, ListenerShape, ledger
<1> QED
  BY <1>1, <1>2, ShapeFrames DEF Shape, Settle, ledger

LEMMA LandShape == ASSUME Shape, Land PROVE Shape'
<1>1. TypeOK
  BY ShapeIsTyped
<1>2. /\ chain' \in Seq(Version) /\ Len(chain') = Len(chain) + 1 /\ Len(flying) >= 1
      /\ flying' \in Seq(Modify) /\ Len(flying') = Len(flying) - 1
  BY <1>1, Landing
<1>3. ChainShape'
  BY <1>2 DEF Shape, ChainShape
<1>4. MirrorShape'
  BY <1>2 DEF Shape, MirrorShape, ChainShape, Land
<1>5. ListenerShape'
  BY <1>2 DEF Shape, ListenerShape, ChainShape, Land, lis
<1> QED
  BY <1>3, <1>4, <1>5, ShapeFrames DEF Shape, Land

LEMMA DieShape == ASSUME Shape, Die PROVE Shape'
<1>1. TypeOK
  BY ShapeIsTyped
<1>2. PICK d \in 1..Len(flying) : flying' = RemoveAt(flying, d)
  BY DEF Die
<1>3. flying' \in Seq(Modify) /\ Len(flying') = Len(flying) - 1
  BY <1>1, <1>2, Dying
<1>4. ChainShape'
  BY <1>2, <1>3 DEF Shape, ChainShape, Die
<1> QED
  BY <1>4, FaultsCounted, ShapeFrames DEF Shape, Die

LEMMA VerdictNames ==
    \A v \in Nat, resolved \in BOOLEAN : Verdict(v, resolved) \in {"skip", "keep", "name", "rebuild"}
  BY DEF Verdict

LEMMA ReadShape == ASSUME Shape, Read PROVE Shape'
<1>1. applied \in Nat /\ applied < Len(chain) /\ mirror.uri \in 1..Len(chain) /\ Len(chain) \in Nat
  BY DEF Read, Shape, ListenerShape, MirrorShape, ChainShape
<1>2. PICK resolved \in BOOLEAN :
          /\ IF resolved THEN NoFault ELSE Fault
          /\ peek' = [verdict |-> Verdict(applied + 1, resolved), uri |-> mirror.uri]
  BY DEF Read
<1>3. Verdict(applied + 1, resolved) \in {"skip", "keep", "name", "rebuild"}
  BY <1>1, VerdictNames
<1>4. faults' \in 0..MaxFaults
  BY <1>2, FaultsCounted
<1>5. ListenerShape'
  BY <1>1, <1>2, <1>3, <1>4 DEF Read, Shape, ListenerShape, ledger
<1> QED
  BY <1>5, ShapeFrames DEF Shape, Read, ledger

LEMMA ApplyShape == ASSUME Shape, Apply PROVE Shape'
<1>1. /\ applied \in Nat /\ applied < Len(chain) /\ Len(chain) \in Nat \ {0}
      /\ applied' = applied + 1 /\ peek' = NoPeek
  BY DEF Apply, Shape, ListenerShape, ChainShape
<1>2. ListenerShape'
  <2>1. slips' \subseteq {"torn", "late"}
    BY DEF Apply, Shape, ListenerShape
  <2>2. NoPeek \in [verdict : {"none", "skip", "keep", "name", "rebuild"}, uri : 0..Len(chain)]
    BY <1>1 DEF NoPeek
  <2> QED
    BY <1>1, <2>1, <2>2 DEF Apply, Shape, ListenerShape, ledger
<1>3. MirrorShape'
  <2>1. mirror' = Written(peek.verdict, applied + 1, peek.uri)
    BY <1>1 DEF Apply
  <2>2. applied + 1 \in 1..Len(chain) /\ chain[applied + 1].has \in SUBSET Unit
    BY <1>1, VersionsAre DEF Version
  <2>3. peek.uri \in 1..Len(chain)
    BY DEF Apply, Shape, ListenerShape
  <2>4. /\ mirror \in [has : SUBSET Unit, uri : 1..Len(chain), stamp : 1..Len(chain),
                      pending : BOOLEAN]
        /\ chain' = chain
    BY DEF Shape, MirrorShape, Apply, ledger
  <2>5. mirror' \in [has : SUBSET Unit, uri : 1..Len(chain), stamp : 1..Len(chain),
                     pending : BOOLEAN]
    <3>1. CASE peek.verdict = "rebuild"
      BY <3>1, <2>1, <2>2 DEF Written
    <3>2. CASE peek.verdict = "name"
      BY <3>2, <2>1, <2>2, <2>4 DEF Written
    <3>3. CASE peek.verdict = "keep"
      BY <3>3, <2>1, <2>3, <2>4 DEF Written
    <3>4. CASE peek.verdict \notin {"rebuild", "name", "keep"}
      BY <3>4, <2>1, <2>4 DEF Written
    <3> QED
      BY <3>1, <3>2, <3>3, <3>4
  <2> QED
    BY <2>4, <2>5 DEF MirrorShape
<1> QED
  BY <1>2, <1>3, ShapeFrames DEF Shape, Apply, ledger

LEMMA ArchiveShape == ASSUME Shape, Archive PROVE Shape'
<1>1. archived \in 1..Len(chain) /\ archived < Len(chain) /\ Len(chain) \in Nat
      /\ archived' = archived + 1
  BY DEF Archive, Shape, ListenerShape, ChainShape
<1>2. faults' \in 0..MaxFaults
  BY FaultsCounted DEF Archive
<1>3. ListenerShape'
  BY <1>1, <1>2 DEF Archive, Shape, ListenerShape, ledger
<1> QED
  BY <1>3, ShapeFrames DEF Shape, Archive, ledger

LEMMA CrashShape == ASSUME Shape, Crash PROVE Shape'
<1>1. op' = [NoOp EXCEPT !.seq = op.seq] /\ op.seq \in Nat /\ \E u \in Unit : TRUE
  BY DEF Crash, Shape, OpShape, Few
<1>2. OpShape'
  BY <1>1 DEF OpShape, NoOp, Few, Kinds, OnToken, InFlow, Busy
<1> QED
  BY <1>2, FaultsCounted, ShapeFrames DEF Shape, Crash, ledger

LEMMA ShapeStep == Shape /\ [Next]_vars => Shape'
<1> SUFFICES ASSUME Shape, [Next]_vars PROVE Shape'
  OBVIOUS
<1>1. CASE Next
  BY <1>1, Actions, BeginShape, StepConfirmedShape, StepFailsShape, StepUnclearShape, UndoShape,
     SubmitShape, SyncFailsShape, SyncUnclearShape, SyncConfirmedShape, MarkShape, MarketShape,
     MirrorFillShape, SettleShape, LandShape, DieShape, ReadShape, ApplyShape, ArchiveShape,
     CrashShape
<1>2. CASE UNCHANGED vars
  <2>1. faults' \in 0..MaxFaults
    BY <1>2 DEF vars, Shape, ListenerShape
  <2> QED
    BY <1>2, <2>1, ShapeFrames DEF Shape, vars, ledger
<1> QED
  BY <1>1, <1>2

-----------------------------------------------------------------------------
(* The journal.                                                            *)

LEMMA InitTruth == Init => Truth
<1> SUFFICES ASSUME Init PROVE Truth
  OBVIOUS
<1>1. /\ op = NoOp /\ journal = <<>> /\ flying = <<>>
      /\ chain = <<[seq |-> 0, has |-> Loose, moved |-> FALSE]>>
  BY DEF Init
<1>2. Len(chain) = 1 /\ chain[1].seq = 0 /\ Len(journal) = 0 /\ Len(flying) = 0
  BY <1>1
<1>3. op.seq = 0 /\ op.step = "idle" /\ op.kind = "none"
  BY <1>1 DEF NoOp
<1>4. Numbered
  BY <1>2, <1>3 DEF Numbered, InFlow, Busy
<1> QED
  BY <1>2, <1>3, <1>4 DEF Truth, Progress, JournalIsTrue

LEMMA InFlowRecord ==
    ASSUME Shape, Truth, InFlow
    PROVE  /\ Len(journal) \in 1..Len(journal)
           /\ journal[Len(journal)].status = "running" /\ journal[Len(journal)].kind = op.kind
           /\ journal[Len(journal)].take = op.take /\ journal[Len(journal)].give = op.give
           /\ journal[Len(journal)].seq = op.seq
           /\ \A k \in 1..Len(journal) : k # Len(journal) =>
                 journal[k].seq < op.seq /\ k < Len(journal)
  BY DEF Shape, JournalShape, Truth, Numbered, OurRecord

\* Every step of the process ends with what is left alone of the journal.
LEMMA TruthFrame ==
    ASSUME Truth, UNCHANGED <<worn, tokens, chain, flying, op, journal>>
    PROVE  Truth'
  BY DEF Truth, Numbered, Progress, JournalIsTrue, StepStands, IsLatest, SamePlace, Units,
         Unsent, Made, OurRecord, InFlow, Busy

\* The ledger moves on: what was made stays, what was not sent stays unsent.
LEMMA TrafficTruth ==
    ASSUME Truth, UNCHANGED <<worn, tokens, op, journal>>,
           \A s \in Nat : (Unsent(s) => Unsent(s)') /\ (Made(s) => Made(s)'),
           \A v \in 1..Len(chain') : chain'[v].seq <= op.seq,
           \A m \in 1..Len(flying') : flying'[m].seq <= op.seq,
           Shape
    PROVE  Truth'
<1>1. Numbered'
  BY DEF Truth, Numbered, OurRecord, InFlow, Busy
<1>2. op.seq \in Nat /\ \A k \in 1..Len(journal) : journal[k].seq \in Nat
  BY VersionsAre DEF Shape, OpShape, Record
<1>3. Progress'
  <2>1. op' = op
    OBVIOUS
  <2>2. (Unsent(op.seq) => Unsent(op.seq)') /\ (Made(op.seq) => Made(op.seq)')
    <3>1. PICK s \in Nat : s = op.seq
      BY <1>2
    <3>2. (Unsent(s) => Unsent(s)') /\ (Made(s) => Made(s)')
      OBVIOUS
    <3>3. (Unsent(s)' => Unsent(op.seq)') /\ (Made(s)' => Made(op.seq)')
      BY <2>1, <3>1 DEF Unsent, Made
    <3> QED
      BY <3>1, <3>2, <3>3
  <2>3. /\ op.step \in {"first", "sync", "undo"} => Unsent(op.seq)'
        /\ op.step = "mark" => Made(op.seq)'
    BY <2>2 DEF Truth, Progress
  <2>4. (op.step = "first" /\ op.kind \in OnCharacter => worn = op.give)'
    BY DEF Truth, Progress
  <2>5. (op.step \in {"sync", "sent", "mark", "undo"} /\ op.kind # "mirror" => StepStands(op))'
    BY DEF Truth, Progress, StepStands
  <2> QED
    BY <2>1, <2>3, <2>4, <2>5 DEF Progress
<1>4. JournalIsTrue'
  <2> SUFFICES ASSUME NEW k \in 1..Len(journal)
               PROVE  LET r == journal[k] IN
                      /\ r.status \in Whole => Made(r.seq)'
                      /\ r.status \in Unsynced => Unsent(r.seq)'
                      /\ r.status \in Stepped /\ IsLatest(k)' => StepStands(r)'
                      /\ r.status \in Nothing /\ r.kind \in OnCharacter /\ IsLatest(k)' => worn' = r.give
    BY DEF JournalIsTrue, Made, Unsent
  <2>1. (IsLatest(k)' <=> IsLatest(k)) /\ (StepStands(journal[k])' <=> StepStands(journal[k]))
    BY DEF IsLatest, SamePlace, Units, StepStands
  <2>2. /\ journal[k].status \in Whole => Made(journal[k].seq)
        /\ journal[k].status \in Unsynced => Unsent(journal[k].seq)
        /\ journal[k].status \in Stepped /\ IsLatest(k) => StepStands(journal[k])
        /\ journal[k].status \in Nothing /\ journal[k].kind \in OnCharacter /\ IsLatest(k)
              => worn = journal[k].give
    BY DEF Truth, JournalIsTrue, Made, Unsent
  <2>3. /\ Unsent(journal[k].seq) => Unsent(journal[k].seq)'
        /\ Made(journal[k].seq) => Made(journal[k].seq)'
    BY <1>2
  <2> QED
    BY <2>1, <2>2, <2>3
<1> QED
  BY <1>1, <1>3, <1>4 DEF Truth

LEMMA LandTruth == ASSUME Shape, Truth, Land PROVE Truth'
<1>1. /\ Len(chain') = Len(chain) + 1 /\ Len(chain) \in Nat
      /\ \A v \in 1..Len(chain) : chain'[v] = chain[v]
      /\ chain'[Len(chain) + 1].seq = flying[1].seq
      /\ Len(flying) \in Nat /\ Len(flying) >= 1
      /\ Len(flying') = Len(flying) - 1
      /\ \A m \in 1..Len(flying') : flying'[m] = flying[m + 1]
  BY ShapeIsTyped, Landing DEF Shape, ChainShape
<1>2. \A s \in Nat : Unsent(s) => Unsent(s)'
  <2> SUFFICES ASSUME NEW s \in Nat, Unsent(s) PROVE Unsent(s)'
    OBVIOUS
  <2>1. ASSUME NEW v \in 1..Len(chain') PROVE chain'[v].seq # s
    <3>1. CASE v \in 1..Len(chain)
      BY <3>1, <1>1 DEF Unsent
    <3>2. CASE v = Len(chain) + 1
      BY <3>2, <1>1 DEF Unsent
    <3> QED
      BY <3>1, <3>2, <1>1
  <2>2. ASSUME NEW m \in 1..Len(flying') PROVE flying'[m].seq # s
    <3>1. m + 1 \in 1..Len(flying) /\ flying'[m] = flying[m + 1]
      BY <1>1
    <3> QED
      BY <3>1 DEF Unsent
  <2> QED
    BY <2>1, <2>2 DEF Unsent
<1>3. \A s \in Nat : Made(s) => Made(s)'
  BY <1>1 DEF Made
<1>4. ASSUME NEW v \in 1..Len(chain') PROVE chain'[v].seq <= op.seq
  <2>1. CASE v \in 1..Len(chain)
    BY <2>1, <1>1 DEF Truth, Numbered
  <2>2. CASE v = Len(chain) + 1
    BY <2>2, <1>1 DEF Truth, Numbered
  <2> QED
    BY <2>1, <2>2, <1>1
<1>5. ASSUME NEW m \in 1..Len(flying') PROVE flying'[m].seq <= op.seq
  <2>1. m + 1 \in 1..Len(flying) /\ flying'[m] = flying[m + 1]
    BY <1>1
  <2> QED
    BY <2>1 DEF Truth, Numbered
<1>6. UNCHANGED <<worn, tokens, op, journal>>
  BY DEF Land
<1> QED
  BY <1>2, <1>3, <1>4, <1>5, <1>6, TrafficTruth

LEMMA DieTruth == ASSUME Shape, Truth, Die PROVE Truth'
<1>1. PICK d \in 1..Len(flying) : flying' = RemoveAt(flying, d)
  BY DEF Die
<1>2. /\ Len(flying') = Len(flying) - 1 /\ Len(flying) \in Nat
      /\ \A m \in 1..Len(flying') : flying'[m] = IF m < d THEN flying[m] ELSE flying[m + 1]
  BY <1>1, ShapeIsTyped, Dying DEF Shape, ChainShape
<1>3. \A m \in 1..Len(flying') : \E n \in 1..Len(flying) : flying'[m] = flying[n]
  <2> SUFFICES ASSUME NEW m \in 1..Len(flying')
               PROVE  \E n \in 1..Len(flying) : flying'[m] = flying[n]
    OBVIOUS
  <2>1. m \in 1..Len(flying) /\ m + 1 \in 1..Len(flying)
    BY <1>2
  <2> QED
    BY <1>2, <2>1
<1>4. UNCHANGED <<worn, tokens, chain, op, journal>>
  BY DEF Die
<1>5. \A s \in Nat : (Unsent(s) => Unsent(s)') /\ (Made(s) => Made(s)')
  BY <1>3, <1>4 DEF Unsent, Made
<1>6. \A v \in 1..Len(chain') : chain'[v].seq <= op.seq
  BY <1>4 DEF Truth, Numbered
<1>7. \A m \in 1..Len(flying') : flying'[m].seq <= op.seq
  BY <1>3 DEF Truth, Numbered
<1> QED
  BY <1>4, <1>5, <1>6, <1>7, TrafficTruth

\* The lock is released with the journal as it is: a crash, or a fill's mirror.
LEMMA LeaveTruth ==
    ASSUME Shape, Truth, UNCHANGED <<worn, tokens, chain, flying, journal>>,
           op' = [NoOp EXCEPT !.seq = op.seq]
    PROVE  Truth'
<1>1. op'.seq = op.seq /\ op'.step = "idle" /\ op'.kind = "none"
  BY DEF NoOp
<1>2. Numbered'
  BY <1>1 DEF Truth, Numbered, InFlow, Busy
<1>3. Progress'
  BY <1>1 DEF Progress
<1>4. JournalIsTrue'
  BY DEF Truth, JournalIsTrue, IsLatest, SamePlace, Units, StepStands
<1> QED
  BY <1>2, <1>3, <1>4 DEF Truth

\* A step touches no other place than its own.
LEMMA OthersUnmoved ==
    ASSUME Shape, InFlow, DoStep \/ UndoStep \/ UNCHANGED <<worn, tokens>>,
           NEW r \in Record, ~SamePlace(r, op)
    PROVE  /\ r.kind \in OnCharacter => worn' = worn
           /\ StepStands(r) => IF r.kind \in OnCharacter THEN worn' = r.take
                               ELSE r.take \subseteq tokens' /\ r.give \cap tokens' = {}
<1>1. r.kind \in OnCharacter \cup OnToken /\ op.kind \in OnCharacter \cup OnToken
  BY DEF Record, Shape, OpShape
<1>2. CASE r.kind \in OnCharacter
  <2>1. op.kind \notin OnCharacter
    BY <1>2 DEF SamePlace
  <2> QED
    BY <2>1, <1>2 DEF DoStep, UndoStep, StepStands
<1>3. CASE r.kind \notin OnCharacter
  <2>1. CASE op.kind \in OnToken
    BY <2>1, <1>1, <1>3 DEF SamePlace, Units, DoStep, UndoStep, StepStands
  <2>2. CASE op.kind \notin OnToken
    BY <2>2, <1>3 DEF DoStep, UndoStep, StepStands
  <2> QED
    BY <2>1, <2>2
<1> QED
  BY <1>2, <1>3

\* What the records before the flow's own say stays true over its step.
LEMMA EarlierStand ==
    ASSUME Shape, Truth, InFlow, DoStep \/ UndoStep \/ UNCHANGED <<worn, tokens>>,
           NEW k \in 1..Len(journal), k # Len(journal), IsLatest(k)
    PROVE  LET r == journal[k] IN
           /\ r.status \in Stepped => IF r.kind \in OnCharacter THEN worn' = r.take
                                      ELSE r.take \subseteq tokens' /\ r.give \cap tokens' = {}
           /\ r.status \in Nothing /\ r.kind \in OnCharacter => worn' = r.give
<1>1. /\ Len(journal) \in k + 1 .. Len(journal)
      /\ journal[k] \in Record
      /\ journal[Len(journal)].kind = op.kind /\ journal[Len(journal)].take = op.take
      /\ journal[Len(journal)].give = op.give
  BY InFlowRecord, VersionsAre DEF Shape, JournalShape
<1>2. ~SamePlace(journal[k], journal[Len(journal)])
  BY <1>1 DEF IsLatest
<1>3. ~SamePlace(journal[k], op)
  BY <1>1, <1>2 DEF SamePlace, Units
<1>4. /\ journal[k].status \in Stepped => StepStands(journal[k])
      /\ journal[k].status \in Nothing /\ journal[k].kind \in OnCharacter => worn = journal[k].give
  BY DEF Truth, JournalIsTrue
<1> QED
  BY <1>1, <1>3, <1>4, OthersUnmoved

LEMMA EndTruth ==
    ASSUME Shape, Truth, InFlow, NEW status \in Statuses, End(status),
           UNCHANGED <<chain, flying>>,
           DoStep \/ UndoStep \/ UNCHANGED <<worn, tokens>>,
           status \in Whole => Made(op.seq),
           status \in Unsynced => Unsent(op.seq),
           status \in Stepped => IF op.kind \in OnCharacter THEN worn' = op.take
                                 ELSE op.take \subseteq tokens' /\ op.give \cap tokens' = {},
           status \in Nothing /\ op.kind \in OnCharacter => worn' = op.give
    PROVE  Truth'
<1> DEFINE n == Len(journal)
<1>1. Journal(status) /\ op' = [NoOp EXCEPT !.seq = op.seq]
  BY DEF End, InFlow
<1>2. /\ Len(journal') = n /\ n \in Nat
      /\ \A k \in 1..n :
            /\ journal'[k].kind = journal[k].kind /\ journal'[k].seq = journal[k].seq
            /\ journal'[k].take = journal[k].take /\ journal'[k].give = journal[k].give
            /\ journal'[k].status = IF k = n THEN status ELSE journal[k].status
  BY <1>1, ShapeIsTyped, Recording
<1>3. op'.seq = op.seq /\ op'.step = "idle" /\ op'.kind = "none"
  BY <1>1 DEF NoOp
<1>4. /\ n \in 1..n
      /\ journal[n].kind = op.kind /\ journal[n].seq = op.seq
      /\ journal[n].take = op.take /\ journal[n].give = op.give
  BY InFlowRecord
<1>5. Numbered'
  BY <1>2, <1>3 DEF Truth, Numbered, InFlow, Busy
<1>6. Progress'
  BY <1>3 DEF Progress
<1>7. ASSUME NEW k \in 1..n
      PROVE  LET r == journal'[k] IN
             /\ r.status \in Whole => Made(r.seq)
             /\ r.status \in Unsynced => Unsent(r.seq)
             /\ r.status \in Stepped /\ IsLatest(k)' =>
                   IF r.kind \in OnCharacter THEN worn' = r.take
                   ELSE r.take \subseteq tokens' /\ r.give \cap tokens' = {}
             /\ r.status \in Nothing /\ r.kind \in OnCharacter /\ IsLatest(k)' => worn' = r.give
  <2>1. CASE k = n
    BY <2>1, <1>2, <1>4
  <2>2. CASE k # n
    <3>1. /\ journal[k].status \in Whole => Made(journal[k].seq)
          /\ journal[k].status \in Unsynced => Unsent(journal[k].seq)
      BY DEF Truth, JournalIsTrue, Made, Unsent
    <3>2. IsLatest(k)' => IsLatest(k)
      <4> SUFFICES ASSUME IsLatest(k)', NEW j \in k + 1 .. n, SamePlace(journal[k], journal[j])
                   PROVE  FALSE
        BY DEF IsLatest
      <4>1. j \in 1..n /\ j \in k + 1 .. Len(journal')
        BY <1>2
      <4>2. SamePlace(journal'[k], journal'[j])
        BY <4>1, <1>2 DEF SamePlace, Units
      <4> QED
        BY <4>1, <4>2 DEF IsLatest
    <3>3. IsLatest(k) =>
             LET r == journal[k] IN
             /\ r.status \in Stepped => IF r.kind \in OnCharacter THEN worn' = r.take
                                        ELSE r.take \subseteq tokens' /\ r.give \cap tokens' = {}
             /\ r.status \in Nothing /\ r.kind \in OnCharacter => worn' = r.give
      BY <2>2, EarlierStand
    <3> QED
      BY <2>2, <3>1, <3>2, <3>3, <1>2
  <2> QED
    BY <2>1, <2>2
<1>8. JournalIsTrue'
  BY <1>2, <1>7 DEF JournalIsTrue, Made, Unsent, StepStands
<1> QED
  BY <1>5, <1>6, <1>8 DEF Truth

LEMMA BeginTruth == ASSUME Shape, Truth, Begins PROVE Truth'
<1> DEFINE n == Len(journal)
<1>1. PICK kind \in OnCharacter \cup OnToken, take \in SUBSET Unit, give \in SUBSET Unit :
          Fits(kind, take, give) /\ Begin(kind, take, give)
  BY DEF Begins
<1>2. /\ Len(journal') = n + 1 /\ n \in Nat
      /\ \A k \in 1..n : journal'[k] = journal[k]
      /\ journal'[n + 1] = [status |-> "running", kind |-> kind, take |-> take,
                            give |-> give, seq |-> op.seq + 1]
  BY <1>1, ShapeIsTyped, Beginning
<1>3. /\ op'.kind = kind /\ op'.step = "first" /\ op'.take = take /\ op'.give = give
      /\ op'.seq = op.seq + 1 /\ op.seq \in Nat
  BY <1>1 DEF Begin, Shape, OpShape
<1>4. UNCHANGED <<worn, tokens, chain, flying>>
  BY <1>1 DEF Begin, ledger
<1>5. /\ \A v \in 1..Len(chain) : chain[v].seq \in Nat
      /\ \A m \in 1..Len(flying) : flying[m].seq \in Nat
      /\ \A k \in 1..n : journal[k].seq \in Nat
  BY VersionsAre DEF Version, Modify, Record
<1>6. Numbered'
  <2>1. ASSUME NEW v \in 1..Len(chain) PROVE chain[v].seq <= op'.seq
    BY <1>3, <1>5 DEF Truth, Numbered
  <2>2. ASSUME NEW m \in 1..Len(flying) PROVE flying[m].seq <= op'.seq
    BY <1>3, <1>5 DEF Truth, Numbered
  <2>3. ASSUME NEW k \in 1..n + 1 PROVE journal'[k].seq <= op'.seq
    <3>1. CASE k \in 1..n
      BY <3>1, <1>2, <1>3, <1>5 DEF Truth, Numbered
    <3>2. CASE k = n + 1
      BY <3>2, <1>2, <1>3
    <3> QED
      BY <3>1, <3>2, <1>2
  <2>4. \A j, k \in 1..n + 1 : j < k => journal'[j].seq < journal'[k].seq
    <3> SUFFICES ASSUME NEW j \in 1..n + 1, NEW k \in 1..n + 1, j < k
                 PROVE  journal'[j].seq < journal'[k].seq
      OBVIOUS
    <3>1. j \in 1..n
      BY <1>2
    <3>2. CASE k \in 1..n
      BY <3>1, <3>2, <1>2 DEF Truth, Numbered
    <3>3. CASE k = n + 1
      BY <3>1, <3>3, <1>2, <1>3, <1>5 DEF Truth, Numbered
    <3> QED
      BY <3>2, <3>3, <1>2
  <2>5. OurRecord' = [status |-> "running", kind |-> op'.kind, take |-> op'.take,
                      give |-> op'.give, seq |-> op'.seq]
    BY <1>2, <1>3 DEF OurRecord
  <2>6. op'.kind # "mirror"
    BY <1>3 DEF OnCharacter, OnToken
  <2> QED
    BY <2>1, <2>2, <2>3, <2>4, <2>5, <2>6, <1>2, <1>4 DEF Numbered
<1>7. Progress'
  <2>1. \A v \in 1..Len(chain) : chain[v].seq # op.seq + 1
    BY <1>3, <1>5 DEF Truth, Numbered
  <2>2. \A m \in 1..Len(flying) : flying[m].seq # op.seq + 1
    BY <1>3, <1>5 DEF Truth, Numbered
  <2>3. kind \in OnCharacter => give = worn
    BY <1>1 DEF Fits
  <2> QED
    BY <2>1, <2>2, <2>3, <1>3, <1>4 DEF Progress, Unsent
<1>8. JournalIsTrue'
  <2>1. ASSUME NEW k \in 1..n, IsLatest(k)' PROVE IsLatest(k)
    <3> SUFFICES ASSUME NEW j \in k + 1 .. n, SamePlace(journal[k], journal[j])
                 PROVE  FALSE
      BY DEF IsLatest
    <3>1. j \in 1..n /\ j \in k + 1 .. Len(journal')
      BY <1>2
    <3>2. SamePlace(journal'[k], journal'[j])
      BY <3>1, <1>2
    <3> QED
      BY <3>1, <3>2, <2>1 DEF IsLatest
  <2>2. "running" \notin Stepped \cup Unsynced
    BY DEF Stepped, Whole, Unsynced, Nothing
  <2>3. journal'[n + 1].status = "running"
    BY <1>2
  <2>4. Whole \subseteq Stepped /\ Nothing \subseteq Unsynced
    BY DEF Stepped, Unsynced
  <2> SUFFICES ASSUME NEW k \in 1..n
               PROVE  LET r == journal[k] IN
                      /\ r.status \in Whole => Made(r.seq)
                      /\ r.status \in Unsynced => Unsent(r.seq)
                      /\ r.status \in Stepped /\ IsLatest(k)' => StepStands(r)
                      /\ r.status \in Nothing /\ r.kind \in OnCharacter /\ IsLatest(k)'
                            => worn = r.give
    BY <1>2, <1>4, <2>2, <2>3, <2>4 DEF JournalIsTrue, Made, Unsent, StepStands
  <2> QED
    BY <2>1 DEF Truth, JournalIsTrue, Made, Unsent
<1> QED
  BY <1>6, <1>7, <1>8 DEF Truth

\* The flow goes on with its lock, its record and its number.
LEMMA GoOnTruth ==
    ASSUME Shape, Truth, InFlow, UNCHANGED <<chain, journal>>,
           DoStep \/ UNCHANGED <<worn, tokens>>,
           op'.kind = op.kind, op'.take = op.take, op'.give = op.give, op'.seq = op.seq,
           op'.step # "idle",
           \A s \in Nat : s # op.seq => (Unsent(s) => Unsent(s)'),
           \A m \in 1..Len(flying') : flying'[m].seq <= op.seq,
           Progress'
    PROVE  Truth'
<1> DEFINE n == Len(journal)
<1>1. Numbered'
  BY DEF Truth, Numbered, OurRecord, InFlow, Busy
<1>2. ASSUME NEW k \in 1..n
      PROVE  LET r == journal[k] IN
             /\ r.status \in Whole => Made(r.seq)
             /\ r.status \in Unsynced => Unsent(r.seq)'
             /\ r.status \in Stepped /\ IsLatest(k) =>
                   IF r.kind \in OnCharacter THEN worn' = r.take
                   ELSE r.take \subseteq tokens' /\ r.give \cap tokens' = {}
             /\ r.status \in Nothing /\ r.kind \in OnCharacter /\ IsLatest(k) => worn' = r.give
  <2>1. CASE k = n
    <3>1. journal[k].status = "running"
      BY <2>1, InFlowRecord
    <3>2. "running" \notin Stepped \cup Unsynced /\ Whole \subseteq Stepped /\ Nothing \subseteq Unsynced
      BY DEF Stepped, Whole, Unsynced, Nothing
    <3> QED
      BY <3>1, <3>2
  <2>2. CASE k # n
    <3>1. journal[k].seq \in Nat /\ journal[k].seq # op.seq
      BY <2>2, InFlowRecord, VersionsAre DEF Record, Shape, OpShape
    <3>2. /\ journal[k].status \in Whole => Made(journal[k].seq)
          /\ journal[k].status \in Unsynced => Unsent(journal[k].seq)
      BY DEF Truth, JournalIsTrue, Made, Unsent
    <3>3. IsLatest(k) =>
             LET r == journal[k] IN
             /\ r.status \in Stepped => IF r.kind \in OnCharacter THEN worn' = r.take
                                        ELSE r.take \subseteq tokens' /\ r.give \cap tokens' = {}
             /\ r.status \in Nothing /\ r.kind \in OnCharacter => worn' = r.give
      BY <2>2, EarlierStand
    <3> QED
      BY <3>1, <3>2, <3>3
  <2> QED
    BY <2>1, <2>2
<1>3. \A k \in 1..n : IsLatest(k)' <=> IsLatest(k)
  BY DEF IsLatest, SamePlace, Units
<1>4. JournalIsTrue'
  BY <1>2, <1>3 DEF JournalIsTrue, Made, Unsent, StepStands
<1> QED
  BY <1>1, <1>4 DEF Truth

LEMMA StepLeaves ==
    ASSUME Shape, InFlow, DoStep
    PROVE  IF op.kind \in OnCharacter THEN worn' = op.take
           ELSE op.take \subseteq tokens' /\ op.give \cap tokens' = {}
<1>1. op.kind \in OnCharacter \cup OnToken /\ (op.kind \in OnToken => op.take = {} \/ op.give = {})
  BY DEF Shape, OpShape
<1> QED
  BY <1>1 DEF DoStep

LEMMA StepConfirmedTruth == ASSUME Shape, Truth, StepConfirmed PROVE Truth'
<1>1. InFlow
  BY DEF StepConfirmed, Shape, OpShape, InFlow, Busy
<1>2. /\ op'.kind = op.kind /\ op'.take = op.take /\ op'.give = op.give /\ op'.seq = op.seq
      /\ op'.step = "sync"
  BY DEF StepConfirmed, Shape, OpShape
<1>3. DoStep /\ UNCHANGED <<chain, flying, journal>> /\ op.step = "first"
  BY DEF StepConfirmed
<1>4. Unsent(op.seq)'
  BY <1>2, <1>3 DEF Truth, Progress, Unsent
<1>5. Progress'
  BY <1>1, <1>2, <1>3, <1>4, StepLeaves DEF Progress, StepStands
<1>6. \A s \in Nat : Unsent(s) => Unsent(s)'
  BY <1>3 DEF Unsent
<1>7. \A m \in 1..Len(flying') : flying'[m].seq <= op.seq
  BY <1>3 DEF Truth, Numbered
<1> QED
  BY <1>1, <1>2, <1>3, <1>5, <1>6, <1>7, GoOnTruth

LEMMA StepFailsTruth == ASSUME Shape, Truth, StepFails PROVE Truth'
<1>1. InFlow
  BY DEF StepFails, Shape, OpShape, InFlow, Busy
<1>2. Unsent(op.seq) /\ (op.kind \in OnCharacter => worn = op.give)
  BY DEF StepFails, Truth, Progress
<1>3. "failed_step" \in Statuses /\ "failed_step" \notin Stepped /\ "failed_step" \notin Whole
  BY DEF Statuses, Stepped, Whole, Unsynced, Nothing
<1> QED
  BY <1>1, <1>2, <1>3, EndTruth DEF StepFails, ledger

LEMMA StepUnclearTruth == ASSUME Shape, Truth, StepUnclear PROVE Truth'
<1>1. InFlow
  BY DEF StepUnclear, Shape, OpShape, InFlow, Busy
<1>2. Unsent(op.seq)
  BY DEF StepUnclear, Truth, Progress
<1>3. /\ {"step_indeterminate", "pending_closet"} \subseteq Statuses
      /\ "step_indeterminate" \notin Stepped \cup Whole \cup Nothing
      /\ "pending_closet" \notin Whole \cup Nothing
  BY DEF Statuses, Stepped, Whole, Unsynced, Nothing
<1>4. UNCHANGED <<chain, flying>>
  BY DEF StepUnclear
<1>5. CASE UNCHANGED <<worn, tokens>> /\ End("step_indeterminate")
  BY <1>1, <1>2, <1>3, <1>4, <1>5, EndTruth
<1>6. CASE DoStep /\ End("step_indeterminate")
  BY <1>1, <1>2, <1>3, <1>4, <1>6, EndTruth
<1>7. CASE DoStep /\ End("pending_closet")
  BY <1>1, <1>2, <1>3, <1>4, <1>7, EndTruth, StepLeaves
<1> QED
  BY <1>5, <1>6, <1>7 DEF StepUnclear

LEMMA SubmitTruth == ASSUME Shape, Truth, Submit PROVE Truth'
<1>1. /\ Len(flying') = Len(flying) + 1 /\ Len(flying) \in Nat
      /\ \A m \in 1..Len(flying) : flying'[m] = flying[m]
      /\ flying'[Len(flying) + 1].seq = op.seq
  BY ShapeIsTyped, Submitting
<1>2. /\ op'.kind = op.kind /\ op'.take = op.take /\ op'.give = op.give /\ op'.seq = op.seq
      /\ op'.step = "sent" /\ op.step = "sync"
  BY DEF Submit, Shape, OpShape
<1>3. UNCHANGED <<worn, tokens, chain, journal>> /\ op.seq \in Nat
  BY DEF Submit, Shape, OpShape
<1>4. ASSUME NEW s \in Nat, s # op.seq, Unsent(s) PROVE Unsent(s)'
  <2>1. ASSUME NEW m \in 1..Len(flying') PROVE flying'[m].seq # s
    <3>1. CASE m \in 1..Len(flying)
      BY <3>1, <1>1, <1>4 DEF Unsent
    <3>2. CASE m = Len(flying) + 1
      BY <3>2, <1>1, <1>4
    <3> QED
      BY <3>1, <3>2, <1>1
  <2> QED
    BY <2>1, <1>3, <1>4 DEF Unsent
<1>5. ASSUME NEW m \in 1..Len(flying') PROVE flying'[m].seq <= op.seq
  <2>1. CASE m \in 1..Len(flying)
    BY <2>1, <1>1 DEF Truth, Numbered
  <2>2. CASE m = Len(flying) + 1
    BY <2>2, <1>1, <1>3
  <2> QED
    BY <2>1, <2>2, <1>1
<1>6. Progress'
  BY <1>2, <1>3 DEF Truth, Progress, StepStands
<1>7. CASE op.kind # "mirror"
  BY <1>2, <1>3, <1>4, <1>5, <1>6, <1>7, GoOnTruth DEF InFlow, Busy
<1>8. CASE op.kind = "mirror"
  <2>1. \A k \in 1..Len(journal) : journal[k].seq \in Nat /\ journal[k].seq # op.seq
    BY <1>3, <1>8, VersionsAre DEF Truth, Numbered, Record
  <2>2. Numbered'
    BY <1>2, <1>3, <1>5, <1>8 DEF Truth, Numbered, InFlow, Busy
  <2>3. JournalIsTrue'
    <3>1. ASSUME NEW k \in 1..Len(journal)
          PROVE  /\ IsLatest(k)' <=> IsLatest(k)
                 /\ Unsent(journal[k].seq) => Unsent(journal[k].seq)'
      BY <1>3, <1>4, <2>1 DEF IsLatest, SamePlace, Units
    <3> QED
      BY <3>1, <1>3 DEF Truth, JournalIsTrue, Made, Unsent, StepStands
  <2> QED
    BY <2>2, <2>3, <1>6 DEF Truth
<1> QED
  BY <1>7, <1>8

LEMMA SyncFailsTruth == ASSUME Shape, Truth, SyncFails PROVE Truth'
<1>1. /\ UNCHANGED <<worn, tokens, chain, flying>>
      /\ op.step \in {"sync", "sent"}
  BY DEF SyncFails, SyncRefused, ledger
<1>2. Unsent(op.seq)
  BY DEF SyncFails, SyncRefused, Truth, Progress, Unsent
<1>3. op.kind # "mirror" => InFlow /\ StepStands(op)
  BY <1>1 DEF Truth, Progress, InFlow, Busy
<1>4. CASE op.kind \in {"harvest", "assemble", "equip", "extract"}
  <2>1. /\ op'.kind = op.kind /\ op'.take = op.take /\ op'.give = op.give /\ op'.seq = op.seq
        /\ op'.step = "undo" /\ UNCHANGED journal
    BY <1>4 DEF SyncFails, Shape, OpShape
  <2>2. Progress'
    BY <2>1, <1>1, <1>2, <1>3, <1>4 DEF Progress, Unsent, StepStands
  <2>3. \A s \in Nat : Unsent(s) => Unsent(s)'
    BY <1>1 DEF Unsent
  <2>4. \A m \in 1..Len(flying') : flying'[m].seq <= op.seq
    BY <1>1 DEF Truth, Numbered
  <2> QED
    BY <2>1, <2>2, <2>3, <2>4, <1>1, <1>3, <1>4, GoOnTruth
<1>5. CASE op.kind \notin {"harvest", "assemble", "equip", "extract"} /\ op.kind # "mirror"
  <2>1. "pending_closet" \in Statuses /\ "pending_closet" \notin Whole \cup Nothing
    BY DEF Statuses, Stepped, Whole, Unsynced, Nothing
  <2>2. IF op.kind \in OnCharacter THEN worn' = op.take
        ELSE op.take \subseteq tokens' /\ op.give \cap tokens' = {}
    BY <1>1, <1>3, <1>5 DEF StepStands
  <2>3. End("pending_closet")
    BY <1>5 DEF SyncFails
  <2> QED
    BY <2>1, <2>2, <2>3, <1>1, <1>2, <1>3, <1>5, EndTruth
<1>6. CASE op.kind = "mirror"
  BY <1>6, <1>1, LeaveTruth DEF SyncFails, End
<1> QED
  BY <1>4, <1>5, <1>6

LEMMA UndoTruth == ASSUME Shape, Truth, Undo PROVE Truth'
<1>1. InFlow /\ UNCHANGED <<chain, flying>>
  BY DEF Undo, Shape, OpShape, InFlow, Busy
<1>2. Unsent(op.seq)
  BY DEF Undo, Truth, Progress
<1>3. /\ {"reverted", "failed_revert", "revert_indeterminate"} \subseteq Statuses
      /\ "reverted" \notin Stepped \cup Whole
      /\ "failed_revert" \notin Stepped \cup Whole \cup Nothing
      /\ "revert_indeterminate" \notin Stepped \cup Whole \cup Nothing
  BY DEF Statuses, Stepped, Whole, Unsynced, Nothing
<1>4. CASE UndoStep /\ End("reverted")
  <2>1. op.kind \in OnCharacter => worn' = op.give
    BY <1>4 DEF UndoStep
  <2> QED
    BY <2>1, <1>1, <1>2, <1>3, <1>4, EndTruth
<1>5. CASE UNCHANGED <<worn, tokens>> /\ End("failed_revert")
  BY <1>1, <1>2, <1>3, <1>5, EndTruth
<1>6. CASE UNCHANGED <<worn, tokens>> /\ End("revert_indeterminate")
  BY <1>1, <1>2, <1>3, <1>6, EndTruth
<1>7. CASE UndoStep /\ End("revert_indeterminate")
  BY <1>1, <1>2, <1>3, <1>7, EndTruth
<1> QED
  BY <1>4, <1>5, <1>6, <1>7 DEF Undo

LEMMA SyncUnclearTruth == ASSUME Shape, Truth, SyncUnclear PROVE Truth'
<1>1. UNCHANGED <<worn, tokens, chain, flying>> /\ op.step = "sent" /\ End("sync_indeterminate")
  BY DEF SyncUnclear, ledger
<1>2. CASE op.kind = "mirror"
  BY <1>1, <1>2, LeaveTruth DEF End
<1>3. CASE op.kind # "mirror"
  <2>1. InFlow /\ StepStands(op)
    BY <1>1, <1>3 DEF Truth, Progress, InFlow, Busy
  <2>2. /\ "sync_indeterminate" \in Statuses
        /\ "sync_indeterminate" \notin Whole \cup Nothing \cup Unsynced
    BY DEF Statuses, Stepped, Whole, Unsynced, Nothing
  <2>3. IF op.kind \in OnCharacter THEN worn' = op.take
        ELSE op.take \subseteq tokens' /\ op.give \cap tokens' = {}
    BY <1>1, <2>1 DEF StepStands
  <2> QED
    BY <1>1, <2>1, <2>2, <2>3, EndTruth
<1> QED
  BY <1>2, <1>3

LEMMA MirrorFillTruth == ASSUME Shape, Truth, MirrorFill PROVE Truth'
<1>1. /\ UNCHANGED <<worn, tokens, chain, flying, journal>>
      /\ op'.kind = "mirror" /\ op'.step = "sync" /\ op'.seq = op.seq + 1 /\ op.seq \in Nat
  BY DEF MirrorFill, ledger, Shape, OpShape
<1>2. /\ \A v \in 1..Len(chain) : chain[v].seq \in Nat
      /\ \A m \in 1..Len(flying) : flying[m].seq \in Nat
      /\ \A k \in 1..Len(journal) : journal[k].seq \in Nat
  BY VersionsAre DEF Version, Modify, Record
<1>3. Numbered'
  BY <1>1, <1>2 DEF Truth, Numbered, InFlow, Busy
<1>4. Progress'
  BY <1>1, <1>2 DEF Truth, Numbered, Progress, Unsent
<1>5. JournalIsTrue'
  BY <1>1 DEF Truth, JournalIsTrue, IsLatest, SamePlace, Units, StepStands
<1> QED
  BY <1>3, <1>4, <1>5 DEF Truth

LEMMA SyncConfirmedTruth == ASSUME Shape, Truth, SyncConfirmed PROVE Truth'
<1>1. UNCHANGED <<worn, tokens, chain, flying>> /\ op.step = "sent" /\ Made(op.seq)
  BY DEF SyncConfirmed, ledger, Made
<1>2. CASE op' = [op EXCEPT !.step = "mark"] /\ UNCHANGED journal
  <2>1. /\ op'.kind = op.kind /\ op'.take = op.take /\ op'.give = op.give /\ op'.seq = op.seq
        /\ op'.step = "mark"
    BY <1>2 DEF Shape, OpShape
  <2>2. Progress'
    BY <2>1, <1>1 DEF Truth, Progress, Made, StepStands
  <2>3. Numbered'
    BY <2>1, <1>1, <1>2 DEF Truth, Numbered, OurRecord, InFlow, Busy
  <2>4. JournalIsTrue'
    BY <1>1, <1>2 DEF Truth, JournalIsTrue, IsLatest, SamePlace, Units, StepStands
  <2> QED
    BY <2>2, <2>3, <2>4 DEF Truth
<1>3. CASE op.kind # "mirror" /\ End("complete")
  <2>1. InFlow /\ StepStands(op)
    BY <1>1, <1>3 DEF Truth, Progress, InFlow, Busy
  <2>2. "complete" \in Statuses /\ "complete" \notin Nothing \cup Unsynced
    BY DEF Statuses, Stepped, Whole, Unsynced, Nothing
  <2>3. IF op.kind \in OnCharacter THEN worn' = op.take
        ELSE op.take \subseteq tokens' /\ op.give \cap tokens' = {}
    BY <1>1, <2>1 DEF StepStands
  <2> QED
    BY <1>1, <1>3, <2>1, <2>2, <2>3, EndTruth
<1> QED
  BY <1>2, <1>3 DEF SyncConfirmed

LEMMA MarkTruth == ASSUME Shape, Truth, Mark PROVE Truth'
<1>1. UNCHANGED <<worn, tokens, chain, flying>> /\ op.step = "mark" /\ Made(op.seq)
  BY DEF Mark, ledger, Truth, Progress
<1>2. CASE op.kind = "mirror"
  BY <1>1, <1>2, LeaveTruth DEF Mark, End
<1>3. CASE op.kind # "mirror"
  <2>1. InFlow /\ StepStands(op)
    BY <1>1, <1>3 DEF Truth, Progress, InFlow, Busy
  <2>2. PICK status \in {"complete_pending_mirror", "failed"} : End(status)
    BY <1>3 DEF Mark
  <2>3. status \in Statuses /\ status \notin Nothing \cup Unsynced
    BY DEF Statuses, Stepped, Whole, Unsynced, Nothing
  <2>4. IF op.kind \in OnCharacter THEN worn' = op.take
        ELSE op.take \subseteq tokens' /\ op.give \cap tokens' = {}
    BY <1>1, <2>1 DEF StepStands
  <2> QED
    BY <1>1, <2>1, <2>2, <2>3, <2>4, EndTruth
<1> QED
  BY <1>2, <1>3

LEMMA CrashTruth == ASSUME Shape, Truth, Crash PROVE Truth'
  BY LeaveTruth DEF Crash, ledger

LEMMA QuietTruth ==
    ASSUME Truth,
           \/ \E u \in Unit, side \in {"seller", "buyer"} : Promise(u, side)
           \/ MoveAsset \/ Settle \/ Read \/ Apply \/ Archive
    PROVE  Truth'
<1>1. UNCHANGED <<worn, tokens, chain, flying, op, journal>>
  BY DEF Promise, MoveAsset, Settle, Read, Apply, Archive, ledger
<1> QED
  BY <1>1, TruthFrame

LEMMA TruthStep == Shape /\ Truth /\ [Next]_vars => Truth'
<1> SUFFICES ASSUME Shape, Truth, [Next]_vars PROVE Truth'
  OBVIOUS
<1>1. CASE Next
  BY <1>1, Actions, BeginTruth, StepConfirmedTruth, StepFailsTruth, StepUnclearTruth, UndoTruth,
     SubmitTruth, SyncFailsTruth, SyncUnclearTruth, SyncConfirmedTruth, MarkTruth,
     MirrorFillTruth, LandTruth, DieTruth, CrashTruth, QuietTruth
<1>2. CASE UNCHANGED vars
  BY <1>2, TruthFrame DEF vars, ledger
<1> QED
  BY <1>1, <1>2

-----------------------------------------------------------------------------
(* The order of the versions, and what was sent.                           *)

LEMMA InitOrder == Init => Order
<1> SUFFICES ASSUME Init PROVE Order
  OBVIOUS
<1>1. /\ op = NoOp /\ flying = <<>> /\ fill.st = "none"
      /\ chain = <<[seq |-> 0, has |-> Loose, moved |-> FALSE]>>
  BY DEF Init
<1>2. Len(chain) = 1 /\ chain[1].moved = FALSE /\ Len(flying) = 0
  BY <1>1
<1>3. op.step = "idle" /\ op.kind = "none" /\ op.knew = 0
  BY <1>1 DEF NoOp
<1> QED
  BY <1>2, <1>3 DEF Order, MovesInOrder, SentIsOurs, MirrorOfFill, NoneFromTheFuture

LEMMA MovesFrame ==
    ASSUME MovesInOrder, UNCHANGED <<chain, flying>>, Moved => Moved'
    PROVE  MovesInOrder'
  BY DEF MovesInOrder

\* The lock is let go of, or goes to a flow that has sent nothing yet.
LEMMA OrderFrame ==
    ASSUME Order, UNCHANGED <<chain, flying, fill>>, op'.step # "sent",
           op'.kind = "mirror" => fill.st = "asset_moved", op'.knew <= Len(chain)
    PROVE  Order'
<1>1. MovesInOrder'
  BY MovesFrame DEF Order, Moved
<1> QED
  BY <1>1 DEF Order, SentIsOurs, MirrorOfFill, NoneFromTheFuture

LEMMA EndOrder ==
    ASSUME Shape, Order, UNCHANGED <<chain, flying>>, Moved' = Moved,
           op' = [NoOp EXCEPT !.seq = op.seq]
    PROVE  Order'
<1>1. op'.step = "idle" /\ op'.kind = "none" /\ op'.knew = 0 /\ Len(chain) \in Nat
  BY DEF NoOp, Shape, ChainShape
<1>2. MovesInOrder'
  BY MovesFrame DEF Order
<1> QED
  BY <1>1, <1>2 DEF Order, SentIsOurs, MirrorOfFill, NoneFromTheFuture

LEMMA BeginOrder == ASSUME Shape, Order, Begins PROVE Order'
<1>1. PICK kind \in OnCharacter \cup OnToken, take \in SUBSET Unit, give \in SUBSET Unit :
          Begin(kind, take, give)
  BY DEF Begins
<1>2. Known <= Len(chain)
  BY DEF Known, Newer, Shape, ListenerShape, MirrorShape, ChainShape
<1>3. op'.step = "first" /\ op'.kind # "mirror" /\ op'.knew = Known
  BY <1>1 DEF Begin, OnCharacter, OnToken
<1>4. UNCHANGED <<chain, flying, fill>>
  BY <1>1 DEF Begin, ledger
<1> QED
  BY <1>2, <1>3, <1>4, OrderFrame

LEMMA StepConfirmedOrder == ASSUME Shape, Order, StepConfirmed PROVE Order'
<1>1. Newer(op.knew, mirror.uri) <= Len(chain) /\ op.knew <= Len(chain)
  BY DEF Newer, Shape, MirrorShape, ChainShape, Order, NoneFromTheFuture
<1>2. /\ op'.step = "sync" /\ op'.kind = op.kind /\ UNCHANGED <<chain, flying, fill>>
      /\ op'.knew \in {op.knew, Newer(op.knew, mirror.uri)}
  BY DEF StepConfirmed, Shape, OpShape
<1>3. op.kind # "mirror"
  BY DEF StepConfirmed, Shape, OpShape
<1> QED
  BY <1>1, <1>2, <1>3, OrderFrame

LEMMA EndingOrder ==
    ASSUME Shape, Order,
           StepFails \/ StepUnclear \/ SyncFails \/ Undo \/ SyncUnclear \/ SyncConfirmed \/ Crash
    PROVE  Order'
<1>1. UNCHANGED <<chain, flying, fill>>
  BY DEF StepFails, StepUnclear, SyncFails, Undo, SyncUnclear, SyncConfirmed, Crash, ledger
<1>2. \/ op' = [NoOp EXCEPT !.seq = op.seq]
      \/ op' = [op EXCEPT !.step = "undo"]
      \/ op' = [op EXCEPT !.step = "mark"]
  BY DEF StepFails, StepUnclear, SyncFails, Undo, SyncUnclear, SyncConfirmed, Crash, End
<1>3. CASE op' = [NoOp EXCEPT !.seq = op.seq]
  BY <1>1, <1>3, EndOrder DEF Moved
<1>4. CASE op' = [op EXCEPT !.step = "undo"] \/ op' = [op EXCEPT !.step = "mark"]
  <2>1. op'.step # "sent" /\ op'.kind = op.kind /\ op'.knew = op.knew
    BY <1>4 DEF Shape, OpShape
  <2> QED
    BY <2>1, <1>1, OrderFrame DEF Order, MirrorOfFill, NoneFromTheFuture
<1> QED
  BY <1>2, <1>3, <1>4

LEMMA MarkOrder == ASSUME Shape, Order, Mark PROVE Order'
<1>1. op' = [NoOp EXCEPT !.seq = op.seq] /\ UNCHANGED <<chain, flying>>
  BY DEF Mark, End, ledger
<1>2. Moved' = Moved
  BY DEF Mark, Moved, Shape, FillShape, Order, MirrorOfFill
<1> QED
  BY <1>1, <1>2, EndOrder

LEMMA SubmitOrder == ASSUME Shape, Truth, Order, Submit PROVE Order'
<1> DEFINE n == Len(flying)
<1>1. /\ Len(flying') = n + 1 /\ n \in Nat
      /\ \A m \in 1..n : flying'[m] = flying[m]
      /\ flying'[n + 1] = [seq |-> op.seq, has |-> Contents, moved |-> Moved,
                           knew |-> op.knew]
  BY ShapeIsTyped, Submitting
<1>2. /\ UNCHANGED <<chain, fill>> /\ op.step = "sync" /\ op'.step = "sent"
      /\ op'.kind = op.kind /\ op'.seq = op.seq /\ op'.knew = op.knew
      /\ op'.read = op.read /\ op'.take = op.take /\ op'.give = op.give
  BY DEF Submit, Shape, OpShape
<1>3. Contents' = Contents /\ Moved' = Moved /\ Unsent(op.seq)
  BY <1>2 DEF Contents, Moved, Truth, Progress
<1>4. MovesInOrder'
  <2>1. ASSUME NEW v \in 1..Len(chain), chain[v].moved
        PROVE  Moved /\ (\A w \in v..Len(chain) : chain[w].moved)
                     /\ \A m \in 1..n + 1 : flying'[m].moved
    <3>1. Moved /\ (\A w \in v..Len(chain) : chain[w].moved) /\ \A m \in 1..n : flying[m].moved
      BY <2>1 DEF Order, MovesInOrder
    <3> QED
      BY <3>1, <1>1
  <2>2. ASSUME NEW m \in 1..n + 1, flying'[m].moved
        PROVE  Moved /\ \A k \in m..n + 1 : flying'[k].moved
    <3>1. CASE m \in 1..n
      <4>1. Moved /\ \A k \in m..n : flying[k].moved
        BY <2>2, <3>1, <1>1 DEF Order, MovesInOrder
      <4> QED
        BY <4>1, <1>1
    <3>2. CASE m = n + 1
      BY <2>2, <3>2, <1>1
    <3> QED
      BY <3>1, <3>2, <1>1
  <2> QED
    BY <2>1, <2>2, <1>1, <1>2, <1>3 DEF MovesInOrder
<1>5. SentIsOurs'
  <2>1. ASSUME NEW m \in 1..n + 1, flying'[m].seq = op.seq
        PROVE  flying'[m].has = Contents /\ flying'[m].moved = Moved
    <3>1. m = n + 1
      BY <2>1, <1>1, <1>3 DEF Unsent
    <3> QED
      BY <3>1, <1>1
  <2>2. \A v \in 1..Len(chain) : chain[v].seq # op.seq
    BY <1>3 DEF Unsent
  <2> QED
    BY <2>1, <2>2, <1>1, <1>2, <1>3 DEF SentIsOurs
<1>6. NoneFromTheFuture'
  <2>1. ASSUME NEW m \in 1..n + 1 PROVE flying'[m].knew <= Len(chain)
    <3>1. CASE m \in 1..n
      BY <3>1, <1>1 DEF Order, NoneFromTheFuture
    <3>2. CASE m = n + 1
      BY <3>2, <1>1 DEF Order, NoneFromTheFuture
    <3> QED
      BY <3>1, <3>2, <1>1
  <2> QED
    BY <2>1, <1>1, <1>2 DEF Order, NoneFromTheFuture
<1>7. MirrorOfFill'
  BY <1>2 DEF Order, MirrorOfFill
<1> QED
  BY <1>4, <1>5, <1>6, <1>7 DEF Order

LEMMA MarketOrder ==
    ASSUME Shape, Order,
           \/ \E u \in Unit, side \in {"seller", "buyer"} : Promise(u, side)
           \/ MoveAsset \/ Settle
    PROVE  Order'
<1>1. UNCHANGED <<chain, flying, op>> /\ (Moved => Moved')
  BY DEF Promise, MoveAsset, Settle, ledger, Moved, Shape, FillShape
<1>2. MovesInOrder'
  BY <1>1, MovesFrame DEF Order
<1>3. op.step = "sent" => Moved' = Moved
  BY DEF Promise, MoveAsset, Settle, Free, Moved, Shape, FillShape
<1>4. SentIsOurs'
  BY <1>1, <1>3 DEF Order, SentIsOurs, Contents
<1>5. MirrorOfFill'
  BY <1>1 DEF Order, MirrorOfFill, Promise, MoveAsset, Settle, Free, Shape, OpShape
<1>6. NoneFromTheFuture'
  BY <1>1 DEF Order, NoneFromTheFuture
<1> QED
  BY <1>2, <1>4, <1>5, <1>6 DEF Order

LEMMA MirrorFillOrder == ASSUME Shape, Order, MirrorFill PROVE Order'
<1>1. Known <= Len(chain)
  BY DEF Known, Newer, Shape, ListenerShape, MirrorShape, ChainShape
<1> QED
  BY <1>1, OrderFrame DEF MirrorFill, ledger

LEMMA LandOrder == ASSUME Shape, Order, Land PROVE Order'
<1> DEFINE n == Len(chain)
<1>1. /\ Len(chain') = n + 1 /\ n \in Nat
      /\ \A v \in 1..n : chain'[v] = chain[v]
      /\ chain'[n + 1].seq = flying[1].seq /\ chain'[n + 1].has = flying[1].has
      /\ chain'[n + 1].moved = flying[1].moved
      /\ Len(flying) \in Nat /\ Len(flying) >= 1
      /\ Len(flying') = Len(flying) - 1
      /\ \A m \in 1..Len(flying') : flying'[m] = flying[m + 1]
  BY ShapeIsTyped, Landing DEF Shape, ChainShape
<1>2. UNCHANGED <<op, fill>> /\ Moved' = Moved /\ Contents' = Contents
  BY DEF Land, Moved, Contents
<1>3. MovesInOrder'
  <2>1. ASSUME NEW v \in 1..n + 1, chain'[v].moved
        PROVE  Moved /\ (\A w \in v..n + 1 : chain'[w].moved)
                     /\ \A m \in 1..Len(flying') : flying'[m].moved
    <3>1. CASE v \in 1..n
      <4>1. /\ Moved /\ \A w \in v..n : chain[w].moved
            /\ \A m \in 1..Len(flying) : flying[m].moved
        BY <2>1, <3>1, <1>1 DEF Order, MovesInOrder
      <4>2. chain'[n + 1].moved
        <5>1. 1 \in 1..Len(flying)
          BY <1>1
        <5> QED
          BY <4>1, <5>1, <1>1
      <4>3. ASSUME NEW w \in v..n + 1 PROVE chain'[w].moved
        <5>1. CASE w = n + 1
          BY <5>1, <4>2
        <5>2. CASE w # n + 1
          <6>1. w \in v..n /\ w \in 1..n
            BY <5>2, <3>1, <1>1
          <6> QED
            BY <6>1, <4>1, <1>1
        <5> QED
          BY <5>1, <5>2
      <4>4. ASSUME NEW m \in 1..Len(flying') PROVE flying'[m].moved
        <5>1. m + 1 \in 1..Len(flying)
          BY <1>1
        <5> QED
          BY <5>1, <4>1, <1>1
      <4> QED
        BY <4>1, <4>3, <4>4
    <3>2. CASE v = n + 1
      <4>1. Moved /\ \A m \in 1..Len(flying) : flying[m].moved
        BY <2>1, <3>2, <1>1 DEF Order, MovesInOrder
      <4>2. ASSUME NEW m \in 1..Len(flying') PROVE flying'[m].moved
        <5>1. m + 1 \in 1..Len(flying)
          BY <1>1
        <5> QED
          BY <5>1, <4>1, <1>1
      <4>3. \A w \in v..n + 1 : w = n + 1
        BY <3>2, <1>1
      <4> QED
        BY <4>1, <4>2, <4>3, <2>1, <3>2
    <3> QED
      BY <3>1, <3>2, <1>1
  <2>2. ASSUME NEW m \in 1..Len(flying'), flying'[m].moved
        PROVE  Moved /\ \A k \in m..Len(flying') : flying'[k].moved
    <3>1. m + 1 \in 1..Len(flying) /\ flying[m + 1].moved
      BY <2>2, <1>1
    <3>2. Moved /\ \A k \in m + 1 .. Len(flying) : flying[k].moved
      BY <3>1 DEF Order, MovesInOrder
    <3> QED
      BY <3>2, <1>1
  <2> QED
    BY <2>1, <2>2, <1>1, <1>2 DEF MovesInOrder
<1>4. SentIsOurs'
  <2> SUFFICES ASSUME op.step = "sent"
               PROVE  /\ \A v \in 1..n + 1 : chain'[v].seq = op.seq
                            => chain'[v].has = Contents /\ chain'[v].moved = Moved
                      /\ \A m \in 1..Len(flying') : flying'[m].seq = op.seq
                            => flying'[m].has = Contents /\ flying'[m].moved = Moved
    BY <1>1, <1>2 DEF SentIsOurs
  <2>1. /\ \A v \in 1..n : chain[v].seq = op.seq => chain[v].has = Contents /\ chain[v].moved = Moved
        /\ \A m \in 1..Len(flying) : flying[m].seq = op.seq
              => flying[m].has = Contents /\ flying[m].moved = Moved
    BY DEF Order, SentIsOurs
  <2>2. ASSUME NEW v \in 1..n + 1, chain'[v].seq = op.seq
        PROVE  chain'[v].has = Contents /\ chain'[v].moved = Moved
    <3>1. CASE v \in 1..n
      BY <3>1, <2>1, <2>2, <1>1
    <3>2. CASE v = n + 1
      BY <3>2, <2>1, <2>2, <1>1
    <3> QED
      BY <3>1, <3>2, <1>1
  <2> QED
    BY <2>1, <2>2, <1>1
<1>5. NoneFromTheFuture'
  <2>1. /\ op.knew <= n /\ op.knew \in Nat
        /\ \A m \in 1..Len(flying) : flying[m].knew <= n /\ flying[m].knew \in Nat
    BY VersionsAre DEF Order, NoneFromTheFuture, Shape, OpShape, Modify
  <2>2. op'.knew <= n + 1
    BY <2>1, <1>1, <1>2
  <2>3. ASSUME NEW m \in 1..Len(flying') PROVE flying'[m].knew <= n + 1
    <3>1. m + 1 \in 1..Len(flying) /\ flying'[m] = flying[m + 1]
      BY <1>1
    <3>2. flying[m + 1].knew <= n /\ flying[m + 1].knew \in Nat
      BY <3>1, <2>1
    <3> QED
      BY <3>1, <3>2, <1>1
  <2> QED
    BY <2>2, <2>3, <1>1 DEF NoneFromTheFuture
<1>6. MirrorOfFill'
  BY <1>2 DEF Order, MirrorOfFill
<1> QED
  BY <1>3, <1>4, <1>5, <1>6 DEF Order

LEMMA DieOrder == ASSUME Shape, Order, Die PROVE Order'
<1>1. PICK d \in 1..Len(flying) : flying' = RemoveAt(flying, d)
  BY DEF Die
<1>2. /\ Len(flying') = Len(flying) - 1 /\ Len(flying) \in Nat
      /\ \A m \in 1..Len(flying') : flying'[m] = IF m < d THEN flying[m] ELSE flying[m + 1]
  BY <1>1, ShapeIsTyped, Dying DEF Shape, ChainShape
<1> DEFINE at(m) == IF m < d THEN m ELSE m + 1
<1>3. \A m \in 1..Len(flying') : at(m) \in 1..Len(flying) /\ flying'[m] = flying[at(m)]
  BY <1>2
<1>4. \A k, m \in 1..Len(flying') : k >= m => at(k) >= at(m)
  OBVIOUS
<1>5. UNCHANGED <<chain, op, fill>> /\ Moved' = Moved /\ Contents' = Contents
  BY DEF Die, Moved, Contents
<1> HIDE DEF at
<1>6. MovesInOrder'
  <2>1. ASSUME NEW m \in 1..Len(flying'), flying'[m].moved
        PROVE  Moved /\ \A k \in m..Len(flying') : flying'[k].moved
    <3>1. at(m) \in 1..Len(flying) /\ flying[at(m)].moved
      BY <2>1, <1>3
    <3>2. Moved /\ \A k \in at(m)..Len(flying) : flying[k].moved
      BY <3>1 DEF Order, MovesInOrder
    <3>3. ASSUME NEW k \in m..Len(flying') PROVE flying'[k].moved
      <4>1. k \in 1..Len(flying') /\ k >= m
        BY <1>2
      <4>2. at(k) \in 1..Len(flying) /\ flying'[k] = flying[at(k)]
        BY <4>1, <1>3
      <4>3. at(k) >= at(m)
        BY <4>1, <1>4
      <4>4. at(k) \in at(m)..Len(flying)
        BY <4>2, <4>3, <3>1, <1>2
      <4> QED
        BY <4>2, <4>4, <3>2
    <3> QED
      BY <3>2, <3>3
  <2>2. ASSUME NEW v \in 1..Len(chain), chain[v].moved
        PROVE  Moved /\ (\A w \in v..Len(chain) : chain[w].moved)
                     /\ \A m \in 1..Len(flying') : flying'[m].moved
    <3>1. Moved /\ (\A w \in v..Len(chain) : chain[w].moved) /\ \A m \in 1..Len(flying) : flying[m].moved
      BY <2>2 DEF Order, MovesInOrder
    <3> QED
      BY <3>1, <1>3
  <2> QED
    BY <2>1, <2>2, <1>5 DEF MovesInOrder
<1>7. SentIsOurs'
  BY <1>3, <1>5 DEF Order, SentIsOurs
<1>8. MirrorOfFill' /\ NoneFromTheFuture'
  BY <1>3, <1>5 DEF Order, MirrorOfFill, NoneFromTheFuture
<1> QED
  BY <1>6, <1>7, <1>8 DEF Order

LEMMA QuietOrder ==
    ASSUME Order, UNCHANGED <<chain, flying, op, fill>>
    PROVE  Order'
  BY DEF Order, MovesInOrder, SentIsOurs, MirrorOfFill, NoneFromTheFuture, Moved, Contents

LEMMA OrderStep == Shape /\ Truth /\ Order /\ [Next]_vars => Order'
<1> SUFFICES ASSUME Shape, Truth, Order, [Next]_vars PROVE Order'
  OBVIOUS
<1>1. CASE Next
  <2>1. CASE Read \/ Apply \/ Archive
    BY <2>1, QuietOrder DEF Read, Apply, Archive, ledger
  <2> QED
    BY <1>1, <2>1, Actions, BeginOrder, StepConfirmedOrder, EndingOrder, MarkOrder, SubmitOrder,
       MarketOrder, MirrorFillOrder, LandOrder, DieOrder
<1>2. CASE UNCHANGED vars
  BY <1>2, QuietOrder DEF vars, ledger
<1> QED
  BY <1>1, <1>2

-----------------------------------------------------------------------------
(* The mirror and the version it names, and what a flow knew of.           *)

\* The fill's share, and what was known, while the fill does not move.
LEMMA StandingFrame ==
    ASSUME Moved' = Moved, fill'.unit = fill.unit, fill'.side = fill.side
    PROVE  \A x \in Version : Standing(x)' = Standing(x)
  BY DEF Standing, Sold, Bought

LEMMA MineGrows ==
    ASSUME Len(journal) \in Nat, Len(journal') \in Nat, Len(journal') >= Len(journal),
           \A k \in 1..Len(journal) :
              /\ journal'[k].seq = journal[k].seq
              /\ journal'[k].take = journal[k].take /\ journal'[k].give = journal[k].give,
           NEW f \in Modify
    PROVE  Mine(f) \subseteq Mine(f)'
<1> SUFFICES ASSUME NEW u \in Mine(f) PROVE u \in Mine(f)'
  OBVIOUS
<1>1. PICK k \in 1..Len(journal) : journal[k].seq = f.seq /\ u \in Units(journal[k])
  BY DEF Mine
<1>2. k \in 1..Len(journal') /\ journal'[k].seq = f.seq /\ u \in Units(journal'[k])
  BY <1>1 DEF Units
<1> QED
  BY <1>2 DEF Mine

\* A modify that overwrites nothing goes on to overwrite nothing.
LEMMA StaysSafe ==
    ASSUME UNCHANGED chain, NEW f \in Modify, Mine(f) \subseteq Mine(f)',
           Moved => Moved' /\ fill'.unit = fill.unit, Overwritten(f) = {}
    PROVE  Overwritten(f)' = {}
  BY DEF Overwritten, Top

LEMMA FlyersFrame ==
    ASSUME Shape, FlyersSafe, UNCHANGED <<chain, flying>>,
           Len(journal') \in Nat, Len(journal') >= Len(journal),
           \A k \in 1..Len(journal) :
              /\ journal'[k].seq = journal[k].seq
              /\ journal'[k].take = journal[k].take /\ journal'[k].give = journal[k].give,
           Moved => Moved' /\ fill'.unit = fill.unit
    PROVE  FlyersSafe'
<1> SUFFICES ASSUME NEW f \in Modify, Flies(f), f.knew = Len(chain)
             PROVE  Overwritten(f)' = {}
  BY DEF FlyersSafe, Flies
<1>1. Overwritten(f) = {} /\ Len(journal) \in Nat
  BY DEF FlyersSafe, Shape, JournalShape
<1>2. Mine(f) \subseteq Mine(f)'
  BY <1>1, MineGrows
<1> QED
  BY <1>1, <1>2, StaysSafe

LEMMA NamedFrame ==
    ASSUME Shape, Named, UNCHANGED <<mirror, chain>>, Moved' = Moved,
           fill'.unit = fill.unit, fill'.side = fill.side
    PROVE  Named'
  BY DEF Named, Standing, Sold, Bought

\* The journal as a flow leaves it: the same records, or the last one's status new.
LEMMA EndKeepsRecords ==
    ASSUME Shape, NEW status \in Statuses, End(status)
    PROVE  /\ Len(journal') \in Nat /\ Len(journal') >= Len(journal)
           /\ \A k \in 1..Len(journal) :
                 /\ journal'[k].seq = journal[k].seq
                 /\ journal'[k].take = journal[k].take /\ journal'[k].give = journal[k].give
<1>1. CASE op.kind = "mirror"
  BY <1>1 DEF End, Shape, JournalShape
<1>2. CASE op.kind # "mirror"
  <2>1. Journal(status)
    BY <1>2 DEF End
  <2> QED
    BY <2>1, ShapeIsTyped, Recording
<1> QED
  BY <1>1, <1>2

LEMMA TellsIs == Tells <=> (slips = {} => /\ Named /\ SettledIsSeen /\ FlyersSafe
    /\ (op.kind = "mirror" /\ op.step \in {"sync", "sent"} => op.read = mirror.has)
    /\ (op.step \in {"first", "sync"} /\ op.knew = Len(chain) => op.read = Standing(Top))
    /\ (op.step = "first" /\ op.knew = Len(chain) => mirror.uri = Len(chain)))
  BY DEF Tells, Mirrored, Informed

LEMMA InitTells == Init => Tells
<1> SUFFICES ASSUME Init PROVE Tells
  OBVIOUS
<1>1. /\ op = NoOp /\ flying = <<>> /\ fill.st = "none"
      /\ chain = <<[seq |-> 0, has |-> Loose, moved |-> FALSE]>>
      /\ mirror = [has |-> Loose, uri |-> 1, stamp |-> 1, pending |-> FALSE]
  BY DEF Init
<1>2. chain[1].moved = FALSE /\ chain[1].has = Loose /\ Len(flying) = 0
  BY <1>1
<1>3. op.step = "idle" /\ op.kind = "none"
  BY <1>1 DEF NoOp
<1>4. Sold = {} /\ Bought = {}
  BY <1>1 DEF Sold, Bought, Moved
<1>5. mirror.stamp = 1 /\ mirror.uri = 1 /\ mirror.has = Loose
  BY <1>1
<1>6. Named
  BY <1>2, <1>4, <1>5 DEF Named, Standing
<1> QED
  BY <1>1, <1>2, <1>3, <1>6, TellsIs DEF SettledIsSeen, FlyersSafe, Flies

\* A guard that passes: the mirror names the newest version that is known.
LEMMA UsableKnows ==
    ASSUME Shape, Tells, slips = {}, Usable, Known = Len(chain)
    PROVE  mirror.uri = Len(chain) /\ mirror.has = Standing(Top)
<1>1. mirror.stamp = mirror.uri /\ mirror.has = Standing(chain[mirror.uri])
  BY DEF Tells, Mirrored, Named
<1>2. archived \in Nat /\ mirror.uri \in Nat /\ archived <= mirror.uri
  BY <1>1 DEF Usable, Behind, Shape, ListenerShape, MirrorShape, ChainShape
<1>3. mirror.uri = Len(chain)
  BY <1>2 DEF Known, Newer
<1> QED
  BY <1>1, <1>3 DEF Top

LEMMA BeginTells == ASSUME Shape, Tells, Begins PROVE Tells'
<1>1. PICK kind \in OnCharacter \cup OnToken, take \in SUBSET Unit, give \in SUBSET Unit :
          Begin(kind, take, give)
  BY DEF Begins
<1>2. /\ Len(journal') = Len(journal) + 1 /\ Len(journal) \in Nat
      /\ \A k \in 1..Len(journal) : journal'[k] = journal[k]
  BY <1>1, ShapeIsTyped, Beginning
<1>3. /\ UNCHANGED <<chain, flying, mirror, fill, applied, slips>> /\ Usable
      /\ op'.kind = kind /\ op'.step = "first" /\ op'.read = mirror.has /\ op'.knew = Known
  BY <1>1 DEF Begin, ledger, lis
<1> SUFFICES ASSUME slips = {} PROVE Mirrored' /\ Informed'
  BY <1>3 DEF Tells
<1>4. FlyersSafe'
  <2>1. Moved' = Moved /\ FlyersSafe
    BY <1>3, TellsIs DEF Moved
  <2> QED
    BY <1>2, <1>3, <2>1, FlyersFrame
<1>5. Named'
  <2>1. Moved' = Moved /\ Named
    BY <1>3, TellsIs DEF Moved
  <2> QED
    BY <1>3, <2>1, NamedFrame
<1>6. kind # "mirror"
  BY DEF OnCharacter, OnToken
<1>7. SettledIsSeen'
  BY <1>3, TellsIs DEF SettledIsSeen
<1>8. op'.knew = Len(chain') => op'.read = Standing(Top)' /\ mirror'.uri = Len(chain')
  BY <1>3, UsableKnows DEF Standing, Sold, Bought, Moved, Top
<1> QED
  BY <1>3, <1>4, <1>5, <1>6, <1>7, <1>8 DEF Mirrored, Informed

\* The lock is let go of, and nothing else of this changes.
LEMMA LeaveTells ==
    ASSUME Shape, Tells, UNCHANGED <<chain, flying, mirror, applied, slips>>,
           Len(journal') \in Nat, Len(journal') >= Len(journal),
           \A k \in 1..Len(journal) :
              /\ journal'[k].seq = journal[k].seq
              /\ journal'[k].take = journal[k].take /\ journal'[k].give = journal[k].give,
           Moved' = Moved, fill'.unit = fill.unit, fill'.side = fill.side,
           fill'.st = "settled" => fill.st = "settled",
           op'.step \notin {"first", "sync", "sent"}
    PROVE  Tells'
<1> SUFFICES ASSUME slips = {} PROVE Mirrored' /\ Informed'
  BY DEF Tells
<1>1. Named' /\ FlyersSafe'
  BY TellsIs, NamedFrame, FlyersFrame
<1>2. SettledIsSeen'
  BY TellsIs DEF SettledIsSeen
<1> QED
  BY <1>1, <1>2 DEF Mirrored, Informed

LEMMA EndingTells ==
    ASSUME Shape, Tells, StepFails \/ StepUnclear \/ SyncFails \/ Undo \/ SyncUnclear \/ Crash
    PROVE  Tells'
<1>1. UNCHANGED <<chain, flying, mirror, applied, slips, fill>>
  BY DEF StepFails, StepUnclear, SyncFails, Undo, SyncUnclear, Crash, ledger, lis
<1>2. \/ \E status \in Statuses : End(status)
      \/ UNCHANGED journal /\ op' = [op EXCEPT !.step = "undo"]
      \/ UNCHANGED journal /\ op' = [NoOp EXCEPT !.seq = op.seq]
  BY DEF StepFails, StepUnclear, SyncFails, Undo, SyncUnclear, Crash,
         Statuses, Stepped, Whole, Unsynced, Nothing
<1>3. op'.step \notin {"first", "sync", "sent"}
  BY <1>2 DEF End, NoOp, Shape, OpShape
<1>4. /\ Len(journal') \in Nat /\ Len(journal') >= Len(journal)
      /\ \A k \in 1..Len(journal) :
            /\ journal'[k].seq = journal[k].seq
            /\ journal'[k].take = journal[k].take /\ journal'[k].give = journal[k].give
  BY <1>2, EndKeepsRecords DEF Shape, JournalShape
<1>5. Moved' = Moved
  BY <1>1 DEF Moved
<1> QED
  BY <1>1, <1>3, <1>4, <1>5, LeaveTells

LEMMA MarkTells == ASSUME Shape, Order, Tells, Mark PROVE Tells'
<1>1. UNCHANGED <<chain, flying, applied, slips>>
  BY DEF Mark, ledger, lis
<1>2. PICK status \in Statuses : End(status)
  BY DEF Mark, Statuses, Stepped, Whole
<1>3. op'.step = "idle"
  BY <1>2 DEF End, NoOp
<1>4. /\ Moved' = Moved /\ fill'.unit = fill.unit /\ fill'.side = fill.side
      /\ (fill'.st = "settled" => fill.st = "settled")
  BY DEF Mark, Moved, Shape, FillShape, Order, MirrorOfFill
<1>5. /\ mirror'.has = mirror.has /\ mirror'.uri = mirror.uri /\ mirror'.stamp = mirror.stamp
  BY DEF Mark, Shape, MirrorShape
<1> SUFFICES ASSUME slips = {} PROVE Mirrored' /\ Informed'
  BY <1>1 DEF Tells
<1>6. FlyersSafe'
  BY <1>1, <1>2, <1>4, TellsIs, FlyersFrame, EndKeepsRecords
<1>7. Named'
  BY <1>1, <1>4, <1>5, TellsIs DEF Named, Standing, Sold, Bought
<1>8. SettledIsSeen'
  BY <1>1, <1>4, TellsIs DEF SettledIsSeen
<1> QED
  BY <1>3, <1>6, <1>7, <1>8 DEF Mirrored, Informed

LEMMA StepConfirmedTells == ASSUME Shape, Order, Tells, StepConfirmed PROVE Tells'
<1>1. /\ UNCHANGED <<chain, flying, mirror, journal, fill, applied, slips>>
      /\ op.step = "first" /\ op'.step = "sync" /\ op'.kind = op.kind
  BY DEF StepConfirmed, lis, Shape, OpShape
<1>2. op.kind # "mirror"
  BY DEF StepConfirmed, Shape, OpShape
<1>3. \/ op'.read = op.read /\ op'.knew = op.knew
      \/ op'.read = mirror.has /\ op'.knew = Newer(op.knew, mirror.uri)
  BY DEF StepConfirmed, Shape, OpShape
<1>4. Moved' = Moved
  BY <1>1 DEF Moved
<1> SUFFICES ASSUME slips = {} PROVE Mirrored' /\ Informed'
  BY <1>1 DEF Tells
<1>5. Named' /\ FlyersSafe' /\ SettledIsSeen'
  <2>1. Named' /\ SettledIsSeen'
    BY <1>1, <1>4, TellsIs, NamedFrame DEF SettledIsSeen
  <2>2. FlyersSafe'
    BY <1>1, <1>4, TellsIs, FlyersFrame DEF Shape, JournalShape
  <2> QED
    BY <2>1, <2>2
<1>6. op'.knew = Len(chain) => op'.read = Standing(Top)
  <2>1. CASE op'.read = op.read /\ op'.knew = op.knew
    BY <2>1, <1>1, TellsIs
  <2>2. CASE op'.read = mirror.has /\ op'.knew = Newer(op.knew, mirror.uri)
    <3> SUFFICES ASSUME op'.knew = Len(chain) PROVE mirror.has = Standing(Top)
      BY <2>2
    <3>1. op.knew = Len(chain) \/ mirror.uri = Len(chain)
      BY <2>2 DEF Newer
    <3>2. mirror.uri = Len(chain)
      BY <3>1, <1>1, TellsIs
    <3> QED
      BY <3>2, TellsIs DEF Named, Top
  <2> QED
    BY <1>3, <2>1, <2>2
<1>7. Standing(Top)' = Standing(Top)
  BY <1>1, <1>4 DEF Standing, Sold, Bought, Top
<1> QED
  BY <1>1, <1>2, <1>5, <1>6, <1>7 DEF Mirrored, Informed

\* Sent on what the newest version stands for, a modify overwrites nothing.
LEMMA SentIsSafe ==
    ASSUME Shape, Truth, Tells, slips = {}, op.step = "sync", op.knew = Len(chain),
           NEW f \in Modify, f.seq = op.seq, f.has = Contents
    PROVE  Overwritten(f) = {}
<1>1. op.read = Standing(Top)
  BY TellsIs
<1>2. Differ(Contents, Top.has) \subseteq op.take \cup op.give \cup Sold \cup Bought
  BY <1>1 DEF Differ, Contents, Standing
<1>3. Sold \cup Bought \subseteq IF Moved THEN {fill.unit} ELSE {}
  BY DEF Sold, Bought
<1>4. op.take \cup op.give \subseteq Mine(f)
  <2>1. CASE op.kind = "mirror"
    BY <2>1 DEF Shape, OpShape
  <2>2. CASE op.kind # "mirror"
    <3>1. InFlow
      BY <2>2 DEF InFlow, Busy
    <3> DEFINE n == Len(journal)
    <3>2. n \in 1..n /\ journal[n].seq = f.seq /\ Units(journal[n]) = op.take \cup op.give
      BY <3>1, InFlowRecord DEF Units
    <3> QED
      BY <3>2 DEF Mine
  <2> QED
    BY <2>1, <2>2
<1> QED
  BY <1>2, <1>3, <1>4 DEF Overwritten

LEMMA SubmitTells == ASSUME Shape, Truth, Tells, Submit PROVE Tells'
<1> DEFINE n == Len(flying)
<1>1. /\ Len(flying') = n + 1 /\ n \in Nat
      /\ \A m \in 1..n : flying'[m] = flying[m]
      /\ flying'[n + 1] = [seq |-> op.seq, has |-> Contents, moved |-> Moved,
                           knew |-> op.knew]
      /\ flying' \in Seq(Modify)
  BY ShapeIsTyped, Submitting
<1>2. /\ UNCHANGED <<chain, mirror, journal, fill, applied, slips>>
      /\ op.step = "sync" /\ op'.step = "sent" /\ op'.kind = op.kind /\ op'.read = op.read
  BY DEF Submit, lis, Shape, OpShape
<1>3. Moved' = Moved
  BY <1>2 DEF Moved
<1> SUFFICES ASSUME slips = {} PROVE Mirrored' /\ Informed'
  BY <1>2 DEF Tells
<1>4. Named' /\ SettledIsSeen'
  BY <1>2, <1>3, TellsIs, NamedFrame DEF SettledIsSeen
<1>5. ASSUME NEW f \in Modify, Flies(f)', f.knew = Len(chain)
      PROVE  Overwritten(f) = {}
  <2>1. PICK m \in 1..n + 1 : flying'[m] = f
    BY <1>1, <1>5 DEF Flies
  <2>2. CASE m \in 1..n
    BY <2>1, <2>2, <1>1, <1>5, TellsIs DEF FlyersSafe, Flies
  <2>3. CASE m = n + 1
    BY <2>1, <2>3, <1>1, <1>2, <1>5, SentIsSafe
  <2> QED
    BY <2>1, <2>2, <2>3, <1>1
<1>6. FlyersSafe'
  <2> SUFFICES ASSUME NEW f \in Modify, Flies(f)', f.knew = Len(chain)
               PROVE  Overwritten(f)' = {}
    BY <1>2 DEF FlyersSafe
  <2>1. Overwritten(f) = {}
    BY <1>5
  <2>2. Mine(f) = Mine(f)'
    BY <1>2 DEF Mine, Units
  <2> QED
    BY <2>1, <2>2, <1>2, <1>3, StaysSafe
<1> QED
  BY <1>2, <1>4, <1>6, TellsIs DEF Mirrored, Informed

LEMMA SyncConfirmedTells == ASSUME Shape, Order, Tells, SyncConfirmed PROVE Tells'
<1>1. /\ UNCHANGED <<chain, flying, fill, applied, slips>> /\ op.step = "sent"
  BY DEF SyncConfirmed, ledger, lis
<1>2. Moved' = Moved
  BY <1>1 DEF Moved
<1>3. \/ \E status \in Statuses : End(status)
      \/ UNCHANGED journal /\ op' = [op EXCEPT !.step = "mark"]
  BY DEF SyncConfirmed, Statuses, Stepped, Whole
<1>4. op'.step \notin {"first", "sync", "sent"}
  BY <1>3 DEF End, NoOp, Shape, OpShape
<1>5. /\ Len(journal') \in Nat /\ Len(journal') >= Len(journal)
      /\ \A k \in 1..Len(journal) :
            /\ journal'[k].seq = journal[k].seq
            /\ journal'[k].take = journal[k].take /\ journal'[k].give = journal[k].give
  BY <1>3, EndKeepsRecords DEF Shape, JournalShape
<1> SUFFICES ASSUME slips = {} PROVE Mirrored' /\ Informed'
  BY <1>1 DEF Tells
<1>6. FlyersSafe' /\ SettledIsSeen'
  BY <1>1, <1>2, <1>5, TellsIs, FlyersFrame DEF SettledIsSeen
<1>7. PICK v \in 1..Len(chain) :
          /\ chain[v].seq = op.seq
          /\ \/ mirror' = IF op.kind = "mirror"
                          THEN [mirror EXCEPT !.uri = v, !.stamp = v]
                          ELSE [has |-> Contents, uri |-> v, stamp |-> v, pending |-> FALSE]
             \/ UNCHANGED mirror
  BY DEF SyncConfirmed
<1>8. chain[v].has = Contents /\ chain[v].moved = Moved
  BY <1>1, <1>7 DEF Order, SentIsOurs
<1>9. Standing(chain[v]) = Contents
  BY <1>8 DEF Standing, Sold, Bought
<1>10. op.kind = "mirror" => mirror.has = Contents
  <2> SUFFICES ASSUME op.kind = "mirror" PROVE mirror.has = Contents
    OBVIOUS
  <2>1. op.read = mirror.has /\ op.take = {} /\ op.give = {}
    BY <1>1, TellsIs DEF Shape, OpShape
  <2> QED
    BY <2>1 DEF Contents
<1>11. Named'
  <2>1. CASE UNCHANGED mirror
    BY <2>1, <1>1, <1>2, TellsIs, NamedFrame
  <2>2. CASE mirror' = IF op.kind = "mirror"
                       THEN [mirror EXCEPT !.uri = v, !.stamp = v]
                       ELSE [has |-> Contents, uri |-> v, stamp |-> v, pending |-> FALSE]
    <3>1. mirror'.uri = v /\ mirror'.stamp = v /\ mirror'.has = Contents
      BY <2>2, <1>7, <1>10 DEF Shape, MirrorShape
    <3>2. (chain[mirror.uri])' = chain[v] /\ Sold' = Sold /\ Bought' = Bought
      BY <3>1, <1>1, <1>2 DEF Sold, Bought
    <3>3. Standing(chain[mirror.uri])' = Contents
      BY <3>2, <1>8 DEF Standing, Sold, Bought
    <3> QED
      BY <3>1, <3>3 DEF Named
  <2> QED
    BY <2>1, <2>2, <1>7
<1> QED
  BY <1>4, <1>6, <1>11 DEF Mirrored, Informed

LEMMA PromiseTells ==
    ASSUME Shape, Tells, NEW u \in Unit, NEW side \in {"seller", "buyer"}, Promise(u, side)
    PROVE  Tells'
<1>1. /\ UNCHANGED <<chain, flying, mirror, journal, op, applied, slips>>
      /\ op.step = "idle" /\ fill.st = "none" /\ fill'.st = "promised"
  BY DEF Promise, Free, ledger, lis
<1>2. Moved = FALSE /\ Moved' = FALSE
  BY <1>1 DEF Moved
<1>3. Sold = {} /\ Sold' = {} /\ Bought = {} /\ Bought' = {}
  BY <1>2 DEF Sold, Bought
<1> SUFFICES ASSUME slips = {} PROVE Mirrored' /\ Informed'
  BY <1>1 DEF Tells
<1>4. FlyersSafe'
  BY <1>1, <1>2, TellsIs, FlyersFrame DEF Shape, JournalShape
<1>5. Named'
  BY <1>1, <1>3, TellsIs DEF Named, Standing
<1>6. SettledIsSeen'
  BY <1>1 DEF SettledIsSeen
<1> QED
  BY <1>1, <1>4, <1>5, <1>6 DEF Mirrored, Informed

\* The move in the database goes with every version being older than it.
LEMMA MoveAssetTells == ASSUME Shape, Order, Tells, MoveAsset PROVE Tells'
<1>1. /\ UNCHANGED <<chain, flying, journal, op, applied, slips>>
      /\ op.step = "idle" /\ fill.st = "promised" /\ fill'.st \in {"ended", "asset_moved"}
      /\ fill'.unit = fill.unit /\ fill'.side = fill.side
  BY DEF MoveAsset, Free, ledger, lis, Shape, FillShape
<1>2. ~Moved /\ Sold = {} /\ Bought = {}
  BY <1>1 DEF Moved, Sold, Bought
<1> SUFFICES ASSUME slips = {} PROVE Mirrored' /\ Informed'
  BY <1>1 DEF Tells
<1>3. FlyersSafe'
  BY <1>1, <1>2, TellsIs, FlyersFrame DEF Shape, JournalShape
<1>4. SettledIsSeen'
  BY <1>1 DEF SettledIsSeen
<1>5. /\ mirror.uri \in 1..Len(chain) /\ ~chain[mirror.uri].moved
      /\ mirror.stamp = mirror.uri /\ mirror.has = chain[mirror.uri].has
  BY <1>2, TellsIs, VersionsAre DEF Named, Standing, Order, MovesInOrder, Shape, MirrorShape, Version
<1>6. Named'
  <2>1. CASE UNCHANGED mirror /\ fill'.st = "ended"
    BY <2>1, <1>1, <1>5 DEF Named, Standing, Sold, Bought, Moved
  <2>2. CASE /\ fill'.st = "asset_moved"
             /\ mirror' = [mirror EXCEPT !.has = IF fill.side = "seller" THEN @ \ {fill.unit}
                                                 ELSE @ \cup {fill.unit}]
    <3>1. /\ mirror'.uri = mirror.uri /\ mirror'.stamp = mirror.stamp
          /\ mirror'.has = IF fill.side = "seller" THEN mirror.has \ {fill.unit}
                           ELSE mirror.has \cup {fill.unit}
      BY <2>2 DEF Shape, MirrorShape
    <3>2. Moved' /\ fill.side \in {"seller", "buyer"}
      BY <2>2 DEF Moved, Shape, FillShape
    <3>3. /\ Sold' = IF fill.side = "seller" THEN {fill.unit} ELSE {}
          /\ Bought' = IF fill.side = "buyer" THEN {fill.unit} ELSE {}
      BY <1>1, <3>2 DEF Sold, Bought
    <3>4. Standing(chain[mirror.uri])' = (chain[mirror.uri].has \ Sold') \cup Bought'
      BY <1>1, <1>5, <3>1 DEF Standing
    <3> QED
      BY <1>5, <3>1, <3>2, <3>3, <3>4 DEF Named
  <2> QED
    BY <2>1, <2>2 DEF MoveAsset, Shape, FillShape
<1> QED
  BY <1>1, <1>3, <1>4, <1>6 DEF Mirrored, Informed

LEMMA MirrorFillTells == ASSUME Shape, Tells, MirrorFill PROVE Tells'
<1>1. /\ UNCHANGED <<chain, flying, mirror, journal, fill, applied, slips>> /\ Usable
      /\ op'.step = "sync" /\ op'.read = mirror.has /\ op'.knew = Known
  BY DEF MirrorFill, ledger, lis
<1>2. Moved' = Moved
  BY <1>1 DEF Moved
<1> SUFFICES ASSUME slips = {} PROVE Mirrored' /\ Informed'
  BY <1>1 DEF Tells
<1>3. FlyersSafe'
  BY <1>1, <1>2, TellsIs, FlyersFrame DEF Shape, JournalShape
<1>4. Named' /\ SettledIsSeen'
  BY <1>1, <1>2, TellsIs, NamedFrame DEF SettledIsSeen
<1>5. op'.knew = Len(chain) => op'.read = Standing(Top)
  BY <1>1, UsableKnows
<1>6. Standing(Top)' = Standing(Top)
  BY <1>1, <1>2 DEF Standing, Sold, Bought, Top
<1> QED
  BY <1>1, <1>3, <1>4, <1>5, <1>6 DEF Mirrored, Informed

LEMMA SettleTells == ASSUME Shape, Order, Tells, Settle PROVE Tells'
<1>1. /\ UNCHANGED <<chain, flying, mirror, journal, op, applied>>
      /\ fill.st = "mirrored" /\ fill'.st = "settled"
      /\ fill'.unit = fill.unit /\ fill'.side = fill.side
  BY DEF Settle, ledger, Shape, FillShape
<1>2. Moved /\ Moved'
  BY <1>1 DEF Moved
<1> SUFFICES ASSUME slips' = {} PROVE Mirrored' /\ Informed'
  BY DEF Tells
<1>3. slips = {} /\ \E v \in 1..applied : chain[v].moved
  BY DEF Settle
<1>4. FlyersSafe'
  BY <1>1, <1>2, <1>3, TellsIs, FlyersFrame DEF Shape, JournalShape
<1>5. Named' /\ SettledIsSeen'
  BY <1>1, <1>2, <1>3, TellsIs, NamedFrame DEF SettledIsSeen
<1>6. Standing(Top)' = Standing(Top)
  BY <1>1, <1>2 DEF Standing, Sold, Bought, Top
<1> QED
  BY <1>1, <1>3, <1>4, <1>5, <1>6, TellsIs DEF Mirrored, Informed

\* The new version is one that nobody knew of.
LEMMA LandTells == ASSUME Shape, Order, Tells, Land PROVE Tells'
<1> DEFINE n == Len(chain)
<1>1. /\ Len(chain') = n + 1 /\ n \in Nat
      /\ \A v \in 1..n : chain'[v] = chain[v]
      /\ Len(flying) \in Nat /\ Len(flying') = Len(flying) - 1
      /\ \A m \in 1..Len(flying') : flying'[m] = flying[m + 1]
  BY ShapeIsTyped, Landing DEF Shape, ChainShape
<1>2. UNCHANGED <<mirror, op, journal, fill, applied, slips>>
  BY DEF Land, lis
<1> SUFFICES ASSUME slips = {} PROVE Mirrored' /\ Informed'
  BY <1>2 DEF Tells
<1>3. FlyersSafe'
  <2> SUFFICES ASSUME NEW f \in Modify, Flies(f)', f.knew = n + 1 PROVE FALSE
    BY <1>1 DEF FlyersSafe
  <2>1. PICK m \in 1..Len(flying') : flying'[m] = f
    BY DEF Flies
  <2>2. m + 1 \in 1..Len(flying) /\ flying[m + 1] = f
    BY <1>1, <2>1
  <2>3. f.knew <= n
    BY <2>2 DEF Order, NoneFromTheFuture
  <2> QED
    BY <2>3, <1>1
<1>4. op.knew # n + 1
  BY <1>1 DEF Order, NoneFromTheFuture
<1>5. mirror.uri \in 1..n /\ applied \in 1..n
  BY DEF Shape, MirrorShape, ListenerShape
<1>6. Named'
  <2>1. (chain[mirror.uri])' = chain[mirror.uri] /\ Sold' = Sold /\ Bought' = Bought
    BY <1>1, <1>2, <1>5 DEF Sold, Bought, Moved
  <2>2. Standing(chain[mirror.uri])' = Standing(chain[mirror.uri])
    BY <2>1 DEF Standing
  <2> QED
    BY <2>2, <1>2, TellsIs DEF Named
<1>7. SettledIsSeen'
  BY <1>1, <1>2, <1>5, TellsIs DEF SettledIsSeen
<1> QED
  BY <1>1, <1>2, <1>3, <1>4, <1>6, <1>7, TellsIs DEF Mirrored, Informed

LEMMA DieTells == ASSUME Shape, Tells, Die PROVE Tells'
<1>1. PICK d \in 1..Len(flying) : flying' = RemoveAt(flying, d)
  BY DEF Die
<1>2. /\ Len(flying') = Len(flying) - 1 /\ Len(flying) \in Nat
      /\ \A m \in 1..Len(flying') : flying'[m] = IF m < d THEN flying[m] ELSE flying[m + 1]
  BY <1>1, ShapeIsTyped, Dying DEF Shape, ChainShape
<1>3. UNCHANGED <<chain, mirror, op, journal, fill, applied, slips>>
  BY DEF Die, lis
<1> SUFFICES ASSUME slips = {} PROVE Mirrored' /\ Informed'
  BY <1>3 DEF Tells
<1>4. Moved' = Moved
  BY <1>3 DEF Moved
<1>5. FlyersSafe'
  <2> SUFFICES ASSUME NEW f \in Modify, Flies(f)', f.knew = Len(chain)
               PROVE  Overwritten(f)' = {}
    BY <1>3 DEF FlyersSafe
  <2>1. PICK m \in 1..Len(flying') : flying'[m] = f
    BY DEF Flies
  <2>2. m \in 1..Len(flying) /\ m + 1 \in 1..Len(flying)
    BY <1>2
  <2>3. Flies(f)
    BY <1>2, <2>1, <2>2 DEF Flies
  <2>4. Mine(f)' = Mine(f)
    BY <1>3 DEF Mine, Units
  <2> QED
    BY <2>3, <2>4, <1>3, <1>4, TellsIs, StaysSafe DEF FlyersSafe
<1>6. Named' /\ SettledIsSeen'
  BY <1>3, <1>4, TellsIs, NamedFrame DEF SettledIsSeen
<1>7. Standing(Top)' = Standing(Top)
  BY <1>3, <1>4 DEF Standing, Sold, Bought, Top
<1> QED
  BY <1>3, <1>5, <1>6, <1>7, TellsIs DEF Mirrored, Informed

-----------------------------------------------------------------------------
(* The listener.                                                           *)

\* What a write that is not torn may be.
LEMMA Applying ==
    ASSUME Shape, Apply, slips' = {}, mirror.stamp = mirror.uri
    PROVE  LET v == applied + 1 IN
           /\ slips = {} /\ v \in 1..Len(chain)
           /\ \/ mirror' = mirror
              \/ /\ mirror.stamp <= v /\ RecentFill /\ mirror.has = chain[v].has
                 /\ mirror' = [mirror EXCEPT !.uri = v, !.stamp = v]
              \/ /\ mirror.stamp <= v /\ ~RecentFill
                 /\ mirror' = [has |-> chain[v].has, uri |-> v, stamp |-> v, pending |-> FALSE]
<1> DEFINE v == applied + 1
<1>1. applied' = v /\ applied \in Nat /\ v \in 1..Len(chain) /\ slips = {}
  BY DEF Apply, Shape, ListenerShape, ChainShape
<1>2. PICK resolved \in BOOLEAN : mirror' = Written(Verdict(v, resolved), v, mirror.uri)
  BY <1>1 DEF Apply
<1>3. mirror.stamp \in Nat /\ [mirror EXCEPT !.uri = mirror.uri] = mirror
  BY DEF Shape, MirrorShape, ChainShape
<1>4. CASE mirror.stamp > v
  BY <1>1, <1>2, <1>3, <1>4 DEF Verdict, Written
<1>5. CASE mirror.stamp <= v /\ ~resolved
  BY <1>1, <1>2, <1>3, <1>5 DEF Verdict, Written
<1>6. CASE mirror.stamp <= v /\ resolved /\ RecentFill
  <2>1. Verdict(v, resolved) = IF mirror.has = chain[v].has THEN "name" ELSE "keep"
    BY <1>1, <1>3, <1>6 DEF Verdict
  <2> QED
    BY <1>1, <1>2, <1>3, <1>6, <2>1 DEF Written
<1>7. CASE mirror.stamp <= v /\ resolved /\ ~RecentFill
  <2>1. Verdict(v, resolved) = "rebuild"
    BY <1>1, <1>3, <1>7 DEF Verdict
  <2> QED
    BY <1>1, <1>2, <1>3, <1>7, <2>1 DEF Written
<1> QED
  BY <1>1, <1>3, <1>4, <1>5, <1>6, <1>7

LEMMA ApplyTells == ASSUME Shape, Order, Tells, Apply PROVE Tells'
<1> DEFINE v == applied + 1
<1>1. /\ UNCHANGED <<chain, flying, journal, op, fill>> /\ applied' = v
      /\ applied \in Nat /\ Len(chain) \in Nat
  BY DEF Apply, ledger, Shape, ListenerShape, ChainShape
<1>2. Moved' = Moved /\ Sold' = Sold /\ Bought' = Bought
  BY <1>1 DEF Moved, Sold, Bought
<1> SUFFICES ASSUME slips' = {} PROVE Mirrored' /\ Informed'
  BY DEF Tells
<1>3. slips = {}
  BY DEF Apply
<1>4. Named /\ SettledIsSeen /\ FlyersSafe
  BY <1>3, TellsIs
<1>5. /\ v \in 1..Len(chain)
      /\ \/ mirror' = mirror
         \/ /\ mirror.stamp <= v /\ RecentFill /\ mirror.has = chain[v].has
            /\ mirror' = [mirror EXCEPT !.uri = v, !.stamp = v]
         \/ /\ mirror.stamp <= v /\ ~RecentFill
            /\ mirror' = [has |-> chain[v].has, uri |-> v, stamp |-> v, pending |-> FALSE]
  BY <1>4, Applying DEF Named
<1>6. mirror.uri \in 1..Len(chain) /\ mirror.stamp = mirror.uri
      /\ mirror.has = Standing(chain[mirror.uri])
  BY <1>4 DEF Named, Shape, MirrorShape
<1>7. /\ mirror'.stamp = mirror'.uri /\ mirror'.uri \in 1..Len(chain)
      /\ mirror'.uri >= mirror.uri
      /\ mirror'.has = Standing(chain[mirror'.uri])
      /\ RecentFill => mirror'.has = mirror.has
  <2>1. CASE mirror' = mirror
    BY <2>1, <1>1, <1>6
  <2>2. CASE /\ mirror.stamp <= v /\ RecentFill /\ mirror.has = chain[v].has
             /\ mirror' = [mirror EXCEPT !.uri = v, !.stamp = v]
    <3>1. mirror'.uri = v /\ mirror'.stamp = v /\ mirror'.has = mirror.has
      BY <2>2 DEF Shape, MirrorShape
    <3>2. chain[mirror.uri].moved => chain[v].moved
      BY <2>2, <1>1, <1>5, <1>6 DEF Order, MovesInOrder
    <3>3. chain[v] \in Version /\ chain[mirror.uri] \in Version
      BY <1>5, <1>6, VersionsAre
    <3>4. Sold \cap Bought = {}
      BY DEF Sold, Bought
    <3>5. Standing(chain[v]) = chain[v].has
      BY <2>2, <3>2, <3>3, <3>4, <1>6 DEF Standing, Version
    <3> QED
      BY <2>2, <3>1, <3>5, <1>5, <1>6, <1>1
  <2>3. CASE /\ mirror.stamp <= v /\ ~RecentFill
             /\ mirror' = [has |-> chain[v].has, uri |-> v, stamp |-> v, pending |-> FALSE]
    <3>1. fill.st = "settled" => chain[v].moved
      <4> SUFFICES ASSUME fill.st = "settled" PROVE chain[v].moved
        OBVIOUS
      <4>1. PICK w \in 1..applied : chain[w].moved
        BY <1>4 DEF SettledIsSeen
      <4>2. w \in 1..Len(chain) /\ v \in w..Len(chain)
        BY <1>1, <1>5
      <4> QED
        BY <4>1, <4>2 DEF Order, MovesInOrder
    <3>2. chain[v].moved \/ ~Moved
      BY <2>3, <3>1 DEF RecentFill, Moved
    <3>3. Standing(chain[v]) = chain[v].has
      BY <3>2 DEF Standing, Sold, Bought
    <3> QED
      BY <2>3, <3>3, <1>5, <1>6, <1>1
  <2> QED
    BY <1>5, <2>1, <2>2, <2>3
<1>8. Named'
  <2>1. Standing(chain[mirror.uri])' = Standing(chain[mirror'.uri])
    BY <1>1, <1>2 DEF Standing, Sold, Bought
  <2> QED
    BY <2>1, <1>7 DEF Named
<1>9. SettledIsSeen'
  BY <1>1, <1>4 DEF SettledIsSeen
<1>10. FlyersSafe'
  BY <1>1, <1>2, <1>4, FlyersFrame DEF Shape, JournalShape
<1>11. op.kind = "mirror" => RecentFill
  BY DEF Order, MirrorOfFill, RecentFill
<1>12. op.kind = "mirror" /\ op.step \in {"sync", "sent"} => op'.read = mirror'.has
  BY <1>1, <1>3, <1>7, <1>11, TellsIs
<1>13. op.step = "first" /\ op.knew = Len(chain) => mirror'.uri = Len(chain)
  BY <1>1, <1>3, <1>6, <1>7, TellsIs
<1>14. Standing(Top)' = Standing(Top)
  BY <1>1, <1>2 DEF Standing, Sold, Bought, Top
<1> QED
  BY <1>1, <1>3, <1>8, <1>9, <1>10, <1>12, <1>13, <1>14, TellsIs DEF Mirrored, Informed

LEMMA QuietTells ==
    ASSUME Shape, Tells, UNCHANGED <<chain, flying, mirror, op, journal, fill, slips>>,
           applied' \in Nat, applied <= applied'
    PROVE  Tells'
<1>1. Moved' = Moved /\ applied \in Nat
  BY DEF Moved, Shape, ListenerShape
<1> SUFFICES ASSUME slips = {} PROVE Mirrored' /\ Informed'
  BY DEF Tells
<1>2. FlyersSafe'
  BY <1>1, TellsIs, FlyersFrame DEF Shape, JournalShape
<1>3. Named' /\ SettledIsSeen'
  BY <1>1, TellsIs, NamedFrame DEF SettledIsSeen
<1>4. Standing(Top)' = Standing(Top)
  BY <1>1 DEF Standing, Sold, Bought, Top
<1> QED
  BY <1>2, <1>3, <1>4, TellsIs DEF Mirrored, Informed

LEMMA ListenerTells == ASSUME Shape, Tells, Read \/ Archive PROVE Tells'
<1>1. applied \in Nat
  BY DEF Shape, ListenerShape
<1>2. UNCHANGED <<chain, flying, mirror, op, journal, fill, slips>>
  BY DEF Read, Archive, ledger
<1>3. applied' \in Nat /\ applied <= applied'
  BY <1>1 DEF Read, Archive
<1> QED
  BY <1>2, <1>3, QuietTells

LEMMA TellsStep == Shape /\ Truth /\ Order /\ Tells /\ [Next]_vars => Tells'
<1> SUFFICES ASSUME Shape, Truth, Order, Tells, [Next]_vars PROVE Tells'
  OBVIOUS
<1>1. CASE Next
  BY <1>1, Actions, BeginTells, StepConfirmedTells, EndingTells, MarkTells, SubmitTells,
     SyncConfirmedTells, PromiseTells, MoveAssetTells, MirrorFillTells, SettleTells,
     LandTells, DieTells, ApplyTells, ListenerTells
<1>2. CASE UNCHANGED vars
  <2>1. applied \in Nat
    BY DEF Shape, ListenerShape
  <2> QED
    BY <1>2, <2>1, QuietTells DEF vars, ledger, lis
<1> QED
  BY <1>1, <1>2

-----------------------------------------------------------------------------
(* The theorems.                                                           *)

(* The inductive invariant that the others follow from.                    *)
THEOREM InductiveInvariant == Spec => []IInv
<1>1. Init => IInv
  BY InitShape, InitTruth, InitOrder, InitTells DEF IInv
<1>2. IInv /\ [Next]_vars => IInv'
  BY ShapeStep, TruthStep, OrderStep, TellsStep DEF IInv
<1> QED
  BY <1>1, <1>2, PTL DEF Spec

(* Every variable stays in its type: versions the mirror and the listener  *)
(* name exist, the listener never writes for a version that is not there,  *)
(* and faults stay in their bound.                                         *)
THEOREM TypeCorrect == Spec => []TypeOK
<1>1. IInv => TypeOK
  BY ShapeIsTyped DEF IInv
<1> QED
  BY <1>1, InductiveInvariant, PTL

(* What a record of the journal says was done, or left undone, is so, over *)
(* every crash, fault and late landing.                                    *)
THEOREM JournalTellsTheTruth == Spec => []JournalIsTrue
<1>1. IInv => JournalIsTrue
  BY DEF IInv, Truth
<1> QED
  BY <1>1, InductiveInvariant, PTL

(* As long as the listener has neither torn a write nor been later than a  *)
(* fill's settling, the mirror is the version that its record names.       *)
THEOREM MirrorTellsItsVersion == Spec => []MirrorIsItsVersion
<1>1. IInv => MirrorIsItsVersion
  BY DEF IInv, Tells, Mirrored, Named, MirrorIsItsVersion
<1> QED
  BY <1>1, InductiveInvariant, PTL

LEMMA OnlyLanding ==
    ASSUME Shape, [Next]_vars, Len(chain') > Len(chain)
    PROVE  Land
<1>1. Len(chain) \in Nat
  BY DEF Shape, ChainShape
<1>2. CASE UNCHANGED vars
  BY <1>1, <1>2 DEF vars, ledger
<1>3. CASE Next
  <2>1. CASE Begins
    BY <2>1, <1>1 DEF Begins, Begin, ledger
  <2>2. CASE \/ StepConfirmed \/ StepFails \/ StepUnclear \/ Undo \/ Submit \/ SyncFails
             \/ SyncUnclear \/ SyncConfirmed \/ Mark
    <3>1. UNCHANGED chain
      BY <2>2 DEF StepConfirmed, StepFails, StepUnclear, Undo, Submit, SyncFails,
                  SyncUnclear, SyncConfirmed, Mark, ledger
    <3> QED
      BY <3>1, <1>1
  <2>3. CASE \/ \E u \in Unit, side \in {"seller", "buyer"} : Promise(u, side)
             \/ MoveAsset \/ MirrorFill \/ Settle
    BY <2>3, <1>1 DEF Promise, MoveAsset, MirrorFill, Settle, ledger
  <2>4. CASE Die \/ Read \/ Apply \/ Archive \/ Crash
    BY <2>4, <1>1 DEF Die, Read, Apply, Archive, Crash, ledger
  <2> QED
    BY <1>3, <2>1, <2>2, <2>3, <2>4, Actions
<1> QED
  BY <1>2, <1>3

(* Under the same, no version is overwritten that the archive held, or the *)
(* mirror named, when its flow or fill read the mirror.                    *)
THEOREM KnownVersionsKept == Spec => KnownIsKept
<1>1. ASSUME IInv, [Next]_vars, Len(chain') > Len(chain), Head(flying).knew = Len(chain),
             slips = {}
      PROVE  Overwritten(Head(flying)) = {}
  <2>1. Land
    BY <1>1, OnlyLanding DEF IInv
  <2>2. Len(flying) \in Nat /\ Len(flying) >= 1 /\ Head(flying) = flying[1]
    BY <2>1, <1>1, ShapeIsTyped, Landing DEF IInv
  <2>3. flying[1] \in Modify /\ Flies(flying[1])
    BY <2>2, <1>1, VersionsAre DEF IInv, Flies
  <2>4. FlyersSafe
    BY <1>1 DEF IInv, Tells, Informed
  <2> QED
    BY <1>1, <2>2, <2>3, <2>4 DEF FlyersSafe
<1>2. IInv /\ [Next]_vars
      => [Len(chain') > Len(chain) /\ Head(flying).knew = Len(chain) /\ slips = {}
            => Overwritten(Head(flying)) = {}]_vars
  BY <1>1
<1> QED
  BY <1>2, InductiveInvariant, PTL DEF Spec, KnownIsKept
=============================================================================
