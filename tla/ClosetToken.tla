---------------------------- MODULE ClosetToken -----------------------------
(***************************************************************************)
(* One owner's Closet: the token on the ledger whose metadata lists the    *)
(* loose traits, its mirror in the service's database, the economy flows   *)
(* and Closet Market fills that overwrite the whole token from the mirror, *)
(* and the listener, another process, that rebuilds the mirror from the    *)
(* versions it sees.                                                       *)
(*                                                                         *)
(* Code: lfg_core/closet_token.py, economy_flow.py, economy_store.py,      *)
(* nft_listener.py, closet_market_store.py, closet_market_flow.py.         *)
(* A version of the token is named by its place in the order in which they *)
(* validated, which is what the code's (ledger, tx index) positions are.   *)
(* One character with one slot stands for all: what it wears is a unit or  *)
(* nothing.                                                                *)
(***************************************************************************)
EXTENDS Integers, Sequences, SequencesExt

CONSTANTS
    Unit,           \* loose assets, told apart although the code counts them
    Worn, Loose,    \* what the character wears, and what the Closet holds, at first
    MaxOps, MaxFaults   \* bounds; a crash is a fault

ASSUME ClosetAssumption ==
    /\ \E u \in Unit : Worn \subseteq {u}
    /\ Loose \subseteq Unit /\ Worn \cap Loose = {}
    /\ MaxOps \in Nat /\ MaxFaults \in Nat

VARIABLES
    worn,      \* the character's unit, on the ledger
    tokens,    \* units that are trait tokens of the owner
    chain,     \* the versions of the Closet token; seq: who submitted it
    flying,    \* submitted Closet modifies the ledger has not decided, in order
    mirror,    \* closet_assets and closet_tokens: contents, version named, stamp, flag
    op,        \* the flow or fill mirror that holds the owner's lock
    journal,   \* the flows' journal records, in order
    fill,      \* one Closet Market fill of the owner
    applied,   \* versions the listener has applied
    archived,  \* versions the history archive holds
    peek,      \* what the listener has read before it writes, or NoPeek
    slips,     \* history: how the listener's slowness has shown
    faults

ledger == <<worn, tokens, chain, flying>>
lis    == <<applied, archived, peek, slips>>
vars   == <<ledger, mirror, op, journal, fill, lis, faults>>

OnCharacter == {"harvest", "upgrade", "assemble", "equip"}
OnToken     == {"extract", "deposit"}
NoPeek   == [verdict |-> "none", uri |-> 0]
NoOp     == [kind |-> "none", step |-> "idle", take |-> {}, give |-> {}, read |-> {},
             knew |-> 0, seq |-> 0]

\* What a record says was done: both parts; the step but maybe not the Closet; nothing.
Whole    == {"complete", "complete_pending_mirror", "failed"}
Stepped  == Whole \cup {"pending_closet", "sync_indeterminate"}
Nothing  == {"failed_step", "reverted"}
Unsynced == Nothing \cup {"step_indeterminate", "pending_closet", "failed_revert",
                         "revert_indeterminate"}
Statuses == Stepped \cup Unsynced \cup {"running"}

Top   == chain[Len(chain)]
Moved == fill.st \in {"asset_moved", "mirrored", "settled"}
Sold   == IF Moved /\ fill.side = "seller" THEN {fill.unit} ELSE {}
Bought == IF Moved /\ fill.side = "buyer"  THEN {fill.unit} ELSE {}
Elsewhere ==
    (Unit \ (Worn \cup Loose \cup Bought)) \cup Sold

Kinds   == OnCharacter \cup OnToken \cup {"none", "mirror"}
Version == [seq : Nat, has : SUBSET Unit, moved : BOOLEAN]
Modify  == [seq : Nat, has : SUBSET Unit, moved : BOOLEAN, knew : Nat]
Record  == [status : Statuses, kind : OnCharacter \cup OnToken, take : SUBSET Unit,
            give : SUBSET Unit, seq : Nat]

TypeOK ==
    /\ worn \subseteq Unit /\ tokens \subseteq Unit
    /\ \E u \in Unit : worn \subseteq {u}
    /\ chain \in Seq(Version) /\ flying \in Seq(Modify)
    /\ mirror \in [has : SUBSET Unit, uri : 1..Len(chain), stamp : 1..Len(chain),
                   pending : BOOLEAN]
    /\ op \in [kind : Kinds, step : {"idle", "first", "sync", "sent", "mark", "undo"},
               take : SUBSET Unit, give : SUBSET Unit, read : SUBSET Unit,
               knew : Nat, seq : Nat]
    /\ journal \in Seq(Record)
    /\ fill \in [st : {"none", "promised", "asset_moved", "mirrored", "settled", "ended"},
                 unit : Unit, side : {"seller", "buyer"}]
    /\ archived \in 1..Len(chain) /\ applied \in 1..Len(chain)
    /\ peek \in [verdict : {"none", "skip", "keep", "name", "rebuild"}, uri : 0..Len(chain)]
    /\ slips \subseteq {"torn", "late"}
    /\ faults \in 0..MaxFaults

Init ==
    /\ worn = Worn /\ tokens = {}
    /\ chain = <<[seq |-> 0, has |-> Loose, moved |-> FALSE]>>
    /\ flying = <<>>
    /\ mirror = [has |-> Loose, uri |-> 1, stamp |-> 1, pending |-> FALSE]
    /\ op = NoOp /\ journal = <<>>
    /\ fill = [st |-> "none", unit |-> CHOOSE u \in Unit : TRUE, side |-> "seller"]
    /\ applied = 1 /\ archived = 1 /\ peek = NoPeek /\ slips = {}
    /\ faults = 0

-----------------------------------------------------------------------------
(* Guards.                                                                 *)

Fault   == faults < MaxFaults /\ faults' = faults + 1
NoFault == UNCHANGED faults
Free    == op.step = "idle"

\* ensure_mirror_current: the newest archived version is newer than the mirror's,
\* dated by its stamp or by where the archive saw its URI.
Behind ==
    /\ archived > mirror.stamp
    /\ mirror.uri <= archived => archived > mirror.uri

\* Mutant: the flag alone decides.
UsableByFlag == ~mirror.pending

Usable == ~mirror.pending /\ ~Behind

\* For KnownIsKept: the newest version that the archive holds or the mirror names.
Newer(v, w) == IF v < w THEN w ELSE v
Known == Newer(archived, mirror.uri)

Promised == IF fill.st = "promised" /\ fill.side = "seller" THEN {fill.unit} ELSE {}

-----------------------------------------------------------------------------
(* The economy flows.  Each is a step on the character or a trait token,   *)
(* then an overwrite of the Closet token, then the mirror.                 *)

Begin(kind, take, give) ==
    /\ Free /\ Len(journal) < MaxOps
    /\ Usable
    /\ op' = [kind |-> kind, step |-> "first", take |-> take, give |-> give,
              read |-> mirror.has, knew |-> Known, seq |-> op.seq + 1]
    /\ journal' = Append(journal, [status |-> "running", kind |-> kind, take |-> take,
                                   give |-> give, seq |-> op.seq + 1])
    /\ UNCHANGED <<ledger, mirror, fill, lis, faults>>

Harvest == \E kind \in {"harvest", "upgrade"} : worn # {} /\ Begin(kind, {}, worn)

Assemble(u) == worn = {} /\ u \in mirror.has \ Promised /\ Begin("assemble", {u}, {})

Equip(u) == worn # {} /\ u \in mirror.has \ Promised /\ Begin("equip", {u}, worn)

Extract(u) == u \in mirror.has \ Promised /\ Begin("extract", {u}, {})

Deposit(u) == u \in tokens /\ Begin("deposit", {}, {u})

\* Mutant: what was displaced stays on the character.
DoStepKeepsDisplaced ==
    /\ worn' = IF op.kind \in OnCharacter \ {"equip"} THEN op.take ELSE worn \cup op.take
    /\ tokens' = IF op.kind \in OnToken THEN (tokens \ op.give) \cup op.take ELSE tokens

DoStep ==
    /\ worn' = IF op.kind \in OnCharacter THEN op.take ELSE worn
    /\ tokens' = IF op.kind \in OnToken THEN (tokens \ op.give) \cup op.take ELSE tokens

UndoStep ==
    /\ worn' = IF op.kind \in OnCharacter THEN op.give ELSE worn
    /\ tokens' = IF op.kind \in OnToken THEN tokens \ op.take ELSE tokens

Journal(status) == journal' = [journal EXCEPT ![Len(journal)].status = status]

\* The flow ends, or a fill mirror gives up, which keeps no journal.
End(status) ==
    /\ op' = [NoOp EXCEPT !.seq = op.seq]
    /\ IF op.kind = "mirror" THEN UNCHANGED journal ELSE Journal(status)

\* The character's modify or burn and remint, the token's mint or burn.
\* Harvest and deposit read the Closet's contents only now.
StepConfirmed ==
    /\ op.step = "first"
    /\ DoStep
    /\ op' = IF op.kind \in {"harvest", "upgrade", "deposit"}
             THEN [op EXCEPT !.step = "sync", !.read = mirror.has,
                             !.knew = Newer(@, mirror.uri)]
             ELSE [op EXCEPT !.step = "sync"]
    /\ UNCHANGED <<chain, flying, mirror, journal, fill, lis, faults>>

StepFails ==
    /\ op.step = "first" /\ Fault
    /\ End("failed_step")
    /\ UNCHANGED <<ledger, mirror, fill, lis>>

\* Unknown, landed or not; or the legacy character is burned and not reminted.
StepUnclear ==
    /\ op.step = "first" /\ Fault
    /\ \/ /\ UNCHANGED <<worn, tokens>>
          /\ End("step_indeterminate")
       \/ /\ DoStep
          /\ End("step_indeterminate")
       \/ /\ op.kind = "upgrade" /\ DoStep
          /\ End("pending_closet")
    /\ UNCHANGED <<chain, flying, mirror, fill, lis>>

-----------------------------------------------------------------------------
(* sync_closet, for the flows and for a fill's mirror.                     *)

Contents == (op.read \ op.take) \cup op.give

\* The upload raised or nothing was submitted: certainly not committed.
SyncRefused ==
    \/ op.step = "sync" /\ Fault
    \/ /\ op.step = "sent" /\ NoFault
       /\ \A v \in 1..Len(chain) : chain[v].seq # op.seq
       /\ \A m \in 1..Len(flying) : flying[m].seq # op.seq

Submit ==
    /\ op.step = "sync"
    /\ flying' = Append(flying, [seq |-> op.seq, has |-> Contents, moved |-> Moved,
                                 knew |-> op.knew])
    /\ op' = [op EXCEPT !.step = "sent"]
    /\ UNCHANGED <<worn, tokens, chain, mirror, journal, fill, lis, faults>>

\* A mutable character is modified back, an extracted token burned; what cannot
\* be undone stays in the journal for an operator.
SyncFails ==
    /\ SyncRefused
    /\ IF op.kind \in {"harvest", "assemble", "equip", "extract"}
       THEN op' = [op EXCEPT !.step = "undo"] /\ UNCHANGED journal
       ELSE End("pending_closet")
    /\ UNCHANGED <<ledger, mirror, fill, lis>>

Undo ==
    /\ op.step = "undo"
    /\ \/ UndoStep /\ NoFault /\ End("reverted")
       \/ UNCHANGED <<worn, tokens>> /\ Fault /\ End("failed_revert")
       \/ UNCHANGED <<worn, tokens>> /\ Fault /\ End("revert_indeterminate")
       \/ UndoStep /\ Fault /\ End("revert_indeterminate")
    /\ UNCHANGED <<chain, flying, mirror, fill, lis>>

\* Mutant: an unknown outcome is compensated like a failure.
SyncUnclearCompensated ==
    /\ op.step = "sent" /\ Fault
    /\ IF op.kind \in {"harvest", "assemble", "equip", "extract"}
       THEN op' = [op EXCEPT !.step = "undo"] /\ UNCHANGED journal
       ELSE End("pending_closet")
    /\ UNCHANGED <<ledger, mirror, fill, lis>>

\* Unknown whether it committed: no compensation, and no flag.
SyncUnclear ==
    /\ op.step = "sent" /\ Fault
    /\ End("sync_indeterminate")
    /\ UNCHANGED <<ledger, mirror, fill, lis>>

\* Committed and dated: one transaction writes URI and stamp, and for a flow the
\* contents, which clears the flag.  Undated, or the write fails: nothing.
SyncConfirmed ==
    /\ op.step = "sent"
    /\ \E v \in 1..Len(chain) :
        /\ chain[v].seq = op.seq
        /\ \/ /\ NoFault
              /\ mirror' = IF op.kind = "mirror"
                           THEN [mirror EXCEPT !.uri = v, !.stamp = v]
                           ELSE [has |-> Contents, uri |-> v, stamp |-> v, pending |-> FALSE]
              /\ IF op.kind = "mirror"
                 THEN op' = [op EXCEPT !.step = "mark"] /\ UNCHANGED journal
                 ELSE End("complete")
           \/ /\ Fault /\ UNCHANGED mirror
              /\ op' = [op EXCEPT !.step = "mark"] /\ UNCHANGED journal
    /\ UNCHANGED <<ledger, fill, lis>>

\* set_mirror_pending of a flow, a write of its own; mark_side_mirrored of a fill.
Mark ==
    /\ op.step = "mark"
    /\ \/ /\ op.kind = "mirror" /\ NoFault
          /\ fill' = [fill EXCEPT !.st = "mirrored"]
          /\ End("complete") /\ UNCHANGED mirror
       \/ /\ op.kind # "mirror" /\ NoFault
          /\ mirror' = [mirror EXCEPT !.pending = TRUE]
          /\ End("complete_pending_mirror") /\ UNCHANGED fill
       \/ /\ op.kind # "mirror" /\ Fault
          /\ End("failed") /\ UNCHANGED <<mirror, fill>>
    /\ UNCHANGED <<ledger, lis>>

-----------------------------------------------------------------------------
(* A fill of the Closet Market: promise, move in the database, mirror.     *)

Promise(u, side) ==
    /\ fill.st = "none" /\ Free
    /\ u \in IF side = "seller" THEN mirror.has ELSE Elsewhere
    /\ fill' = [st |-> "promised", unit |-> u, side |-> side]
    /\ UNCHANGED <<ledger, mirror, op, journal, lis, faults>>

MoveAsset ==
    /\ fill.st = "promised" /\ Free
    /\ IF fill.side = "seller" /\ fill.unit \notin mirror.has
       THEN fill' = [fill EXCEPT !.st = "ended"] /\ UNCHANGED mirror
       ELSE /\ fill' = [fill EXCEPT !.st = "asset_moved"]
            /\ mirror' = [mirror EXCEPT !.has = IF fill.side = "seller" THEN @ \ {fill.unit}
                                                ELSE @ \cup {fill.unit}]
    /\ UNCHANGED <<ledger, op, journal, lis, faults>>

MirrorFill ==
    /\ fill.st = "asset_moved" /\ Free
    /\ Usable
    /\ op' = [kind |-> "mirror", step |-> "sync", take |-> {}, give |-> {},
              read |-> mirror.has, knew |-> Known, seq |-> op.seq + 1]
    /\ UNCHANGED <<ledger, mirror, journal, fill, lis, faults>>

\* MIRROR_SETTLE_SECONDS later, wherever the listener is by then.
Settle ==
    /\ fill.st = "mirrored"
    /\ fill' = [fill EXCEPT !.st = "settled"]
    /\ slips' = IF \E v \in 1..applied : chain[v].moved THEN slips ELSE slips \cup {"late"}
    /\ UNCHANGED <<ledger, mirror, op, journal, applied, archived, peek, faults>>

-----------------------------------------------------------------------------
(* The ledger, the listener and the process.                               *)

\* One account signs them, so its sequence numbers order them.
Land ==
    /\ flying # <<>>
    /\ chain' = Append(chain, [seq |-> Head(flying).seq, has |-> Head(flying).has,
                               moved |-> Head(flying).moved])
    /\ flying' = Tail(flying)
    /\ UNCHANGED <<worn, tokens, mirror, op, journal, fill, lis, faults>>

Die ==
    /\ Fault
    /\ \E m \in 1..Len(flying) : flying' = RemoveAt(flying, m)
    /\ UNCHANGED <<worn, tokens, chain, mirror, op, journal, fill, lis>>

RecentFill == fill.st \in {"asset_moved", "mirrored"}

\* Mutant: while a fill is recent the record names the version all the same.
VerdictNamesAlways(v, resolved) ==
    CASE mirror.stamp > v -> "skip"
      [] mirror.stamp <= v /\ ~resolved -> "keep"
      [] mirror.stamp <= v /\ resolved /\ RecentFill -> "name"
      [] OTHER -> "rebuild"

\* _apply_closet: an older version is skipped, an unread one changes nothing; a
\* recent fill keeps the contents and names the version only if they are its.
Verdict(v, resolved) ==
    CASE mirror.stamp > v -> "skip"
      [] mirror.stamp <= v /\ ~resolved -> "keep"
      [] mirror.stamp <= v /\ resolved /\ RecentFill ->
            IF mirror.has = chain[v].has THEN "name" ELSE "keep"
      [] OTHER -> "rebuild"

\* The checks, before the transaction takes the database's write lock: the service,
\* another process, may commit in between.
Read ==
    /\ peek = NoPeek /\ applied < Len(chain)
    /\ \E resolved \in BOOLEAN :
        /\ IF resolved THEN NoFault ELSE Fault
        /\ peek' = [verdict |-> Verdict(applied + 1, resolved), uri |-> mirror.uri]
    /\ UNCHANGED <<ledger, mirror, op, journal, fill, applied, archived, slips>>

\* set_closet_token writes the URI that was read, and the stamp of a version it names.
Written(verdict, v, uri) ==
    CASE verdict = "rebuild" -> [has |-> chain[v].has, uri |-> v, stamp |-> v, pending |-> FALSE]
      [] verdict = "name"    -> [mirror EXCEPT !.uri = v, !.stamp = v]
      [] verdict = "keep"    -> [mirror EXCEPT !.uri = uri]
      [] OTHER               -> mirror

\* The write is torn if no checks made at the moment of the write would give it.
Apply ==
    /\ peek # NoPeek
    /\ peek' = NoPeek
    /\ applied' = applied + 1
    /\ mirror' = Written(peek.verdict, applied', peek.uri)
    /\ slips' = IF \E resolved \in BOOLEAN :
                     mirror' = Written(Verdict(applied', resolved), applied', mirror.uri)
                THEN slips ELSE slips \cup {"torn"}
    /\ UNCHANGED <<ledger, op, journal, fill, archived, faults>>

\* The history record of what was applied; or, after an outage, the archive is
\* filled from account history and the versions are never applied.
Archive ==
    /\ archived < Len(chain)
    /\ \/ /\ archived < applied /\ NoFault
          /\ UNCHANGED applied
       \/ /\ archived = applied /\ peek = NoPeek /\ Fault
          /\ applied' = applied + 1
    /\ archived' = archived + 1
    /\ UNCHANGED <<ledger, mirror, op, journal, fill, peek, slips>>

\* The service dies; the journal stays at its last checkpoint.
Crash ==
    /\ ~Free /\ Fault
    /\ op' = [NoOp EXCEPT !.seq = op.seq]
    /\ UNCHANGED <<ledger, mirror, journal, fill, lis>>

-----------------------------------------------------------------------------
Flow ==
    \/ Harvest \/ \E u \in Unit : Assemble(u) \/ Equip(u) \/ Extract(u) \/ Deposit(u)
    \/ StepConfirmed \/ StepFails \/ StepUnclear \/ Undo
    \/ Submit \/ SyncFails \/ SyncUnclear \/ SyncConfirmed \/ Mark

Market ==
    \/ \E u \in Unit, side \in {"seller", "buyer"} : Promise(u, side)
    \/ MoveAsset \/ MirrorFill \/ Settle

Next == Flow \/ Market \/ Land \/ Die \/ Read \/ Apply \/ Archive \/ Crash

Spec == Init /\ [][Next]_vars

-----------------------------------------------------------------------------
(* What a record of the journal says was done or left undone is so on the  *)
(* ledger, and stays so.  A record that counts its Closet modify as made   *)
(* has its version; one that does not, though its session is over, has     *)
(* none and none that could still land.  Until a later flow touches the    *)
(* same place, the character or the trait token is as the step left it, or *)
(* for a record that says nothing happened as it was before.               *)
Units(r) == r.take \cup r.give
SamePlace(r, q) ==
    \/ r.kind \in OnCharacter /\ q.kind \in OnCharacter
    \/ r.kind \in OnToken /\ q.kind \in OnToken /\ Units(r) \cap Units(q) # {}
IsLatest(k) == \A j \in k + 1 .. Len(journal) : ~SamePlace(journal[k], journal[j])

StepStands(r) ==
    IF r.kind \in OnCharacter THEN worn = r.take
    ELSE r.take \subseteq tokens /\ r.give \cap tokens = {}

JournalIsTrue ==
    \A k \in 1..Len(journal) :
        LET r == journal[k] IN
        /\ r.status \in Whole => \E v \in 1..Len(chain) : chain[v].seq = r.seq
        /\ r.status \in Unsynced =>
              /\ \A v \in 1..Len(chain) : chain[v].seq # r.seq
              /\ \A m \in 1..Len(flying) : flying[m].seq # r.seq
        /\ r.status \in Stepped /\ IsLatest(k) => StepStands(r)
        /\ r.status \in Nothing /\ r.kind \in OnCharacter /\ IsLatest(k) => worn = r.give

(* The contents a version stands for, with the fill's move where the       *)
(* version is older.                                                       *)
Standing(v) == IF v.moved THEN v.has ELSE (v.has \ Sold) \cup Bought

(* The mirror's contents are those of the version its record names: else   *)
(* the guard that refuses to overwrite from a mirror that is behind judges *)
(* the wrong version (#535).  It takes a torn write of the listener        *)
(* (NeverRolledBack), or one that is slower than MIRROR_SETTLE_SECONDS, to *)
(* break it.                                                               *)
MirrorIsItsVersion == slips = {} => mirror.has = Standing(chain[mirror.uri])

(* What the next version would change beyond what its flow and the fill    *)
(* move: somebody's update, overwritten.                                   *)
Mine(m) == UNION {Units(journal[k]) : k \in {j \in 1..Len(journal) : journal[j].seq = m.seq}}
Differ(S, T) == (S \ T) \cup (T \ S)
Overwritten(m) ==
    Differ(m.has, Top.has) \ (Mine(m) \cup IF Moved THEN {fill.unit} ELSE {})

(* A version is never overwritten that the archive held, or the mirror     *)
(* named, when a flow or a fill read the mirror: what                      *)
(* ensure_mirror_current gives the full overwrite (#522).                  *)
KnownIsKept ==
    [][Len(chain') > Len(chain) /\ Head(flying).knew = Len(chain) /\ slips = {}
          => Overwritten(Head(flying)) = {}]_vars

-----------------------------------------------------------------------------
(* What the code says of itself and TLC refutes.                           *)

(* Every overwrite keeps the version before: "Refuse a full Closet         *)
(* overwrite while the owner's mirror is behind the chain", of which the   *)
(* archive is said to tell without delay (ensure_mirror_current).          *)
NoLostUpdate == [][Len(chain') > Len(chain) => Overwritten(Head(flying)) = {}]_vars

(* "a late or out-of-order tx can never roll the mirror back"              *)
(* (_apply_closet).                                                        *)
NeverRolledBack == [][mirror'.stamp >= mirror.stamp]_vars

(* Conservation, as verify_conservation audits it: a unit is on the        *)
(* character, a token, in the newest version of the Closet or elsewhere,   *)
(* and in one of these only; or its record asks for an operator; or only   *)
(* the mirror of its fill is still to be made.                             *)
AccountedFor ==
    \A u \in Unit :
        \/ \E k \in 1..Len(journal) :
              /\ journal[k].status \notin Nothing \cup {"complete", "complete_pending_mirror"}
              /\ u \in Units(journal[k])
        \/ fill.st = "asset_moved" /\ u = fill.unit /\ u \notin worn \cup tokens
        \/ <<u \in worn, u \in tokens, u \in Top.has, u \in Elsewhere>> \in
            {<<TRUE, FALSE, FALSE, FALSE>>, <<FALSE, TRUE, FALSE, FALSE>>,
             <<FALSE, FALSE, TRUE, FALSE>>, <<FALSE, FALSE, FALSE, TRUE>>}
=============================================================================
