-------------------------------- MODULE Swap --------------------------------
(***************************************************************************)
(* Trait swaps: a session exchanges traits between two NFTs of a wallet.   *)
(* A mutable NFT is modified in place; a legacy one is burned and its      *)
(* replacement, minted before, is offered to its owner.  Reversible steps  *)
(* come first and are unwound when a later one fails.                      *)
(*                                                                         *)
(* A token is an edition and the session that minted it.  A trait is named *)
(* by the edition that had it at first.  Fee, art and metadata are left    *)
(* out; that they can fail is not.                                         *)
(*                                                                         *)
(* Code: lfg_core/swap_flow.py, its handlers in lfg_service/app.py, the    *)
(* index rows of lfg_core/nft_index.py.  Every action is what the event    *)
(* loop runs between two awaits, with the transaction awaited before it.   *)
(***************************************************************************)
EXTENDS Naturals, Sequences

CONSTANTS
    Edition,     \* numbers of the collection
    Session,     \* swap sessions
    Surface,     \* the platforms the wallet's owner comes from
    First,       \* the maker of the tokens there are at first
    MaxFaults    \* bound: refusals, unknown outcomes, failing writes, restarts

ASSUME SwapAssumption ==
    First \notin Session /\ Surface # {} /\ MaxFaults \in Nat

VARIABLES
    legacy,      \* the editions whose first token is burnable, not mutable
    nft,         \* the ledger's tokens
    index,       \* the rows of the on-chain index
    flying,      \* transactions of unknown outcome, not yet decided
    mem,         \* the live sessions, with their tasks
    journal,     \* the swap records on disk
    disturbed,   \* history: a swap did not run to plan, see TraitsConserved
    faults

vars == <<legacy, nft, index, flying, mem, journal, disturbed, faults>>

Token   == Edition \X (Session \cup {First})
NoToken == <<>>
Places  == {"none", "issuer", "user", "burned"}

Replacement(t, s) == <<t[1], s>>
Mutable(t)        == t[2] # First \/ t[1] \notin legacy
Live(t)           == nft[t].at \in {"issuer", "user"}

Phases   == <<"paying", "minting", "modifying", "burning", "offering">>
Position == [checking |-> 0, paying |-> 1, minting |-> 2, modifying |-> 3, burning |-> 4,
             offering |-> 5]

\* What is journaled when a phase begins.
Opening == [paying |-> <<>>, minting |-> <<"minting">>, modifying |-> <<"modifying">>,
            burning |-> <<>>, offering |-> <<>>, ready |-> <<"complete">>]

\* Mutant: the replacements are journaled with the burns, not before.
ClosingLate ==
    [checking |-> <<>>, paying |-> <<"fee_paid">>, minting |-> <<>>,
     modifying |-> <<>>, burning |-> <<"burned">>, offering |-> <<>>]

\* And when it is through.
Closing ==
    [checking |-> <<>>, paying |-> <<"fee_paid">>, minting |-> <<"minted">>,
     modifying |-> <<"modified">>, burning |-> <<"burned">>, offering |-> <<>>]

Unwound == {"failed_minting", "failed_modifying", "failed_burning", "stale_pointer"}
Partial == {"partial_burn_failure", "stale_pointer_partial"}
Rescued(why) == IF why = "partial_burn_failure" THEN "partial" ELSE why
NoOffer(why) == IF why = "partial_burn_failure" THEN "partial_burn_failure_no_offer"
                ELSE "stale_pointer_partial_no_offer"

Statuses ==
    {"none", "fee_paid", "minting", "minted", "modifying", "modified", "burned", "complete",
     "failed_offers", "partial", "partial_burn_failure_no_offer",
     "stale_pointer_partial_no_offer"} \cup Unwound \cup Partial

Item  == [tok : Token, was : Edition, now : Edition, new : Token \cup {NoToken}, done : BOOLEAN]
Tx    == [op : {"mint", "modify", "burn", "offer"}, tok : Token, trait : Edition, by : Session]
Steps == {"none", "checking", "unwinding", "rescuing", "ended"} \cup {Phases[i] : i \in 1..5}
Ends  == {"none", "failed", "timeout", "cancelled", "ready", "gone"}

NoSession == [step |-> "none", surface |-> CHOOSE f \in Surface : TRUE, items |-> <<>>,
              at |-> 0, left |-> {}, why |-> "none", end |-> "none"]

Active(s) == mem[s].step \notin {"none", "ended"}

TypeOK ==
    /\ legacy \in SUBSET Edition
    /\ nft \in [Token -> [at : Places, trait : Edition, offered : BOOLEAN,
                          by : Session \cup {First}]]
    /\ index \in [Token -> [at : Places, trait : Edition]]
    /\ flying \in SUBSET Tx
    /\ mem \in [Session -> [step : Steps, surface : Surface,
                            items : {<<>>} \cup (Item \X Item), at : 0..2,
                            left : SUBSET ({"revert", "burn"} \X (1..2)),
                            why : Statuses, end : Ends]]
    /\ journal \in [Session -> [st : Statuses, names : SUBSET Token, behind : BOOLEAN]]
    /\ disturbed \in BOOLEAN
    /\ faults \in Nat

Init ==
    /\ legacy \in SUBSET Edition
    /\ nft = [t \in Token |-> [at |-> IF t[2] = First THEN "user" ELSE "none",
                               trait |-> t[1], offered |-> FALSE, by |-> First]]
    /\ index = [t \in Token |-> [at |-> IF t[2] = First THEN "user" ELSE "none",
                                 trait |-> t[1]]]
    /\ flying = {}
    /\ mem = [s \in Session |-> NoSession]
    /\ journal = [s \in Session |-> [st |-> "none", names |-> {}, behind |-> FALSE]]
    /\ disturbed = FALSE /\ faults = 0

-----------------------------------------------------------------------------
(* The ledger and its index.                                               *)

Applies(tx) == IF tx.op = "mint" THEN nft[tx.tok].at = "none" ELSE Live(tx.tok)

Effect(tx) ==
    [nft[tx.tok] EXCEPT
        !.at      = CASE tx.op = "mint" -> "issuer" [] tx.op = "burn" -> "burned" [] OTHER -> @,
        !.trait   = IF tx.op \in {"mint", "modify"} THEN tx.trait ELSE @,
        !.offered = @ \/ tx.op = "offer",
        !.by      = IF tx.op = "burn" THEN tx.by ELSE @]

Lands(tx) == Applies(tx) /\ nft' = [nft EXCEPT ![tx.tok] = Effect(tx)]

\* What a backend transaction comes to: it succeeds, it is refused, or nobody
\* can tell, which is an exception and never a refusal; a mint that commits with
\* malformed metadata, for which the code may answer None, is excluded.
Outcome(tx, out) ==
    \/ out = "done" /\ Lands(tx) /\ UNCHANGED flying
    \/ out = "refused" /\ UNCHANGED <<nft, flying>>
    \/ out = "unknown" /\ flying' = flying \cup {tx} /\ UNCHANGED nft

Outcomes == {"done", "refused", "unknown"}

\* Only the ledger's own refusal is no fault.
Cost(tx, out) ==
    IF out = "done" \/ (out = "refused" /\ ~Applies(tx)) THEN 0 ELSE 1

Land(tx) ==
    /\ tx \in flying /\ flying' = flying \ {tx}
    /\ Lands(tx) \/ UNCHANGED nft
    /\ UNCHANGED <<legacy, index, mem, journal, disturbed, faults>>

\* The owner accepts the offer of a replacement.
Accept(t) ==
    /\ nft[t].at = "issuer" /\ nft[t].offered
    /\ nft' = [nft EXCEPT ![t].at = "user"]
    /\ UNCHANGED <<legacy, index, flying, mem, journal, disturbed, faults>>

\* upsert, mark_burned: a row that says burned stays so.
Row(t, at, trait) == [at |-> IF index[t].at = "burned" THEN "burned" ELSE at, trait |-> trait]

\* The listener catches up with a token, or is down for as long as it likes.
Listen(t) ==
    /\ index' = [index EXCEPT ![t] = Row(t, nft[t].at, nft[t].trait)]
    /\ UNCHANGED <<legacy, nft, flying, mem, journal, disturbed, faults>>

\* Mutant: any answer but a clear yes counts.
MaybeAbsent(t) == TRUE

\* nft_exists is False, never None; a burned token may as well be reported.
SeenAbsent(t) == ~Live(t)

\* _heal_stale_index_pointer
Heal(gone) ==
    index' = [t \in Token |-> IF t \in gone THEN Row(t, "burned", index[t].trait) ELSE index[t]]

-----------------------------------------------------------------------------
(* What a session goes on with: its next state, and what it journals on    *)
(* the way there.                                                          *)

Least(S) == CHOOSE i \in S : \A j \in S : i <= j

InPlace(s)  == {i \in DOMAIN mem[s].items : Mutable(mem[s].items[i].tok)}
Reminted(s) == DOMAIN mem[s].items \ InPlace(s)
Names(m)    == {m.items[i].new : i \in DOMAIN m.items} \ {NoToken}

Work(s, phase) == IF phase \in {"paying", "modifying"} THEN InPlace(s) ELSE Reminted(s)

\* The next phase that has anything to do.
Following(s) ==
    LET rest == {i \in 1..5 : i > Position[mem[s].step] /\ Work(s, Phases[i]) # {}} IN
    IF rest = {} THEN "ready" ELSE Phases[Least(rest)]

Stop(m, end) == [m EXCEPT !.step = "ended", !.end = end, !.left = {}]

Enter(s, m, phase) ==
    IF phase = "ready" THEN Stop(m, "ready")
    ELSE [m EXCEPT !.step = phase, !.at = Least(Work(s, phase))]

Proceed(s, m) ==
    [mem |-> Enter(s, m, Following(s)),
     writes |-> Closing[mem[s].step] \o Opening[Following(s)]]

\* On to the next item of the phase, or to the next phase.
GoOn(s, m) ==
    LET rest == {j \in Work(s, mem[s].step) : j > mem[s].at} IN
    IF rest = {} THEN Proceed(s, m)
    ELSE [mem |-> [m EXCEPT !.at = Least(rest)], writes |-> <<>>]

Fail(m, writes) == [mem |-> Stop(m, "failed"), writes |-> writes]

\* The unwinding is through: the failure is journaled, and a first original
\* that is gone has its replacement delivered all the same.
Settle(s, m) ==
    IF m.left # {} THEN [mem |-> m, writes |-> <<>>]
    ELSE IF m.why \in Partial
         THEN [mem |-> [m EXCEPT !.step = "rescuing", !.at = Least(Reminted(s))],
               writes |-> <<m.why>>]
         ELSE Fail(m, <<m.why>>)

Unwind(s, why, left) ==
    Settle(s, [mem[s] EXCEPT !.step = "unwinding", !.why = why, !.left = left])

Undone(s)   == {"revert"} \X {i \in DOMAIN mem[s].items : mem[s].items[i].done}
BurntBack(s) == {"burn"} \X {i \in DOMAIN mem[s].items : mem[s].items[i].new # NoToken}

\* Mutant: the replacements are burned, the modified keep their new traits.
UnwindAllUnreverted(s, why) == Unwind(s, why, BurntBack(s))

UnwindAll(s, why) == Unwind(s, why, Undone(s) \cup BurntBack(s))

\* Mutant: whichever burn fails, everything is unwound.
BurnFailsAnywhere(s, stale) == UnwindAll(s, IF stale THEN "stale_pointer" ELSE "failed_burning")

\* An original was not burned: the first undoes the swap, the second only its
\* own half.
BurnFails(s, stale) ==
    IF mem[s].at = Least(Reminted(s))
    THEN UnwindAll(s, IF stale THEN "stale_pointer" ELSE "failed_burning")
    ELSE Unwind(s, IF stale THEN "stale_pointer_partial" ELSE "partial_burn_failure",
                {<<"burn", mem[s].at>>})

\* The step's end.  Journal writes may fail without a word; of several in one
\* stride the last that does not is what the disk keeps.
Commit(s, next, cost) ==
    \E r \in {next} : \E k \in 0..Len(r.writes) :
        /\ mem' = [mem EXCEPT ![s] = r.mem]
        /\ journal' = [journal EXCEPT ![s] =
              IF k = 0 THEN [journal[s] EXCEPT !.behind = @ \/ r.writes # <<>>]
              ELSE [st |-> r.writes[k], names |-> Names(r.mem), behind |-> FALSE]]
        /\ faults' = faults + cost + (IF k < Len(r.writes) THEN 1 ELSE 0)
        /\ faults' <= MaxFaults

-----------------------------------------------------------------------------
(* The session.                                                            *)

\* The wallet's tokens as the roster has them.
Listed(t) == index[t].at = "user"

\* swap_traits, on what the roster says of both.
Exchanged(t, u) ==
    [tok |-> t, was |-> index[t].trait, now |-> index[u].trait, new |-> NoToken, done |-> FALSE]

\* One session is active per user and surface.
Start(s, f, t, u) ==
    /\ mem[s].step = "none"
    /\ \A r \in Session : Active(r) => mem[r].surface # f
    /\ t # u /\ Listed(t) /\ Listed(u)
    /\ mem' = [mem EXCEPT ![s].step = "checking", ![s].surface = f,
                          ![s].items = <<Exchanged(t, u), Exchanged(u, t)>>]
    /\ disturbed' = (disturbed
          \/ \E v \in {t, u} :
                \/ ~Live(v) \/ nft[v].trait # index[v].trait
                \/ \E r \in Session : Active(r) /\ \E i \in 1..2 : mem[r].items[i].tok = v)
    /\ UNCHANGED <<legacy, nft, index, flying, journal, faults>>

\* Blank sides, missing layers, prices, and the first look at the originals;
\* art and metadata are uploaded before the fee is asked for.
PreCheck(s) ==
    /\ mem[s].step = "checking"
    /\ \/ Commit(s, Fail(mem[s], <<>>), 1) /\ UNCHANGED index
       \/ \E gone \in SUBSET {mem[s].items[i].tok : i \in Reminted(s)} :
            /\ \A t \in gone : SeenAbsent(t)
            /\ Heal(gone)
            /\ Commit(s, IF gone = {} THEN Proceed(s, mem[s]) ELSE Fail(mem[s], <<>>), 0)
    /\ UNCHANGED <<legacy, nft, flying, disturbed>>

PaymentSeen(s) ==
    /\ mem[s].step = "paying"
    /\ Commit(s, Proceed(s, mem[s]), 0)
    /\ UNCHANGED <<legacy, nft, index, flying, disturbed>>

\* cancel(), by its owner or as abandoned, while the payment is awaited.
Cancel(s) ==
    /\ mem[s].step = "paying"
    /\ mem' = [mem EXCEPT ![s] = Stop(@, "cancelled")]
    /\ UNCHANGED <<legacy, nft, index, flying, journal, disturbed, faults>>

\* Mutant: the caller forgets to stamp the time-out.
NoPaymentUnstamped(s) ==
    /\ mem[s].step = "paying"
    /\ UNCHANGED vars

\* The sign request could not be built, or the wait is over.
NoPayment(s) ==
    /\ mem[s].step = "paying"
    /\ \E end \in {"failed", "timeout"} : mem' = [mem EXCEPT ![s] = Stop(@, end)]
    /\ UNCHANGED <<legacy, nft, index, flying, journal, disturbed, faults>>

Now(s) == mem[s].items[mem[s].at]

MintOne(s) ==
    LET m == mem[s]
        new == Replacement(Now(s).tok, s)
        tx == [op |-> "mint", tok |-> new, trait |-> Now(s).now, by |-> s] IN
    /\ m.step = "minting"
    /\ \E out \in Outcomes :
        /\ Outcome(tx, out)
        /\ Commit(s, CASE out = "done"    -> GoOn(s, [m EXCEPT !.items[m.at].new = new])
                       [] out = "refused" -> UnwindAll(s, "failed_minting")
                       [] out = "unknown" -> Fail(m, <<>>), Cost(tx, out))
        /\ disturbed' = (disturbed \/ out = "unknown")
    /\ UNCHANGED <<legacy, index>>

ModifyOne(s) ==
    LET m == mem[s]
        tx == [op |-> "modify", tok |-> Now(s).tok, trait |-> Now(s).now, by |-> s] IN
    /\ m.step = "modifying"
    /\ \E out \in Outcomes :
        /\ Outcome(tx, out)
        /\ Commit(s, CASE out = "done"    -> GoOn(s, [m EXCEPT !.items[m.at].done = TRUE])
                       [] out = "refused" -> UnwindAll(s, "failed_modifying")
                       [] out = "unknown" -> Fail(m, <<>>), Cost(tx, out))
        /\ disturbed' = (disturbed \/ out = "unknown")
    /\ UNCHANGED <<legacy, index>>

\* _persist_remint_to_index: two commits, of which the second or both may fail.
Persisted(item, commits) ==
    [t \in Token |->
        IF t = item.tok /\ commits > 0 THEN Row(t, "burned", index[t].trait)
        ELSE IF t = item.new /\ commits = 2 THEN Row(t, "issuer", item.now)
        ELSE index[t]]

\* The original is gone already, as clio has it.
BurnStale(s) ==
    /\ mem[s].step = "burning" /\ SeenAbsent(Now(s).tok)
    /\ Heal({Now(s).tok})
    /\ Commit(s, BurnFails(s, TRUE), 0)
    /\ disturbed' = (disturbed \/ BurnFails(s, TRUE).mem.why \in Partial)
    /\ UNCHANGED <<legacy, nft, flying>>

BurnOne(s) ==
    LET m == mem[s]
        tx == [op |-> "burn", tok |-> Now(s).tok, trait |-> Now(s).was, by |-> s] IN
    /\ m.step = "burning"
    /\ \E out \in Outcomes, commits \in 0..2 :
        /\ Outcome(tx, out)
        /\ out # "done" => commits = 2
        /\ index' = IF out = "done" THEN Persisted(Now(s), commits) ELSE index
        /\ Commit(s, CASE out = "done"    -> GoOn(s, m)
                       [] out = "refused" -> BurnFails(s, FALSE)
                       [] out = "unknown" -> Fail(m, <<>>),
                  Cost(tx, out) + (IF commits = 2 THEN 0 ELSE 1))
        /\ disturbed' = (disturbed \/ out = "unknown"
                         \/ (out = "refused" /\ BurnFails(s, FALSE).mem.why \in Partial))
    /\ UNCHANGED legacy

\* create_nft_offer with the look for an offer that landed unseen, then the
\* sign request for its acceptance; through says whether both went well.
Offer(s, through) ==
    LET tx == [op |-> "offer", tok |-> Now(s).new, trait |-> Now(s).now, by |-> s] IN
    \E out \in Outcomes :
        /\ Outcome(tx, out)
        /\ through => out = "done"

OfferOne(s) ==
    /\ mem[s].step = "offering"
    /\ \E through \in BOOLEAN :
        /\ Offer(s, through)
        /\ Commit(s, IF through THEN GoOn(s, mem[s]) ELSE Fail(mem[s], <<"failed_offers">>),
                  IF through THEN 0 ELSE 1)
    /\ UNCHANGED <<legacy, index, disturbed>>

\* The half of a swap that cannot be undone is delivered.
Rescue(s) ==
    LET why == mem[s].why IN
    /\ mem[s].step = "rescuing"
    /\ \E through \in BOOLEAN :
        /\ Offer(s, through)
        /\ Commit(s, Fail(mem[s], <<IF through THEN Rescued(why) ELSE NoOffer(why)>>),
                  IF through THEN 0 ELSE 1)
    /\ UNCHANGED <<legacy, index, disturbed>>

\* _revert_modifies, then _burn_replacements, each in the items' order.  What
\* is refused stays as it is; what is unknown ends the session on the spot.
Compensation(s, c) ==
    LET item == mem[s].items[c[2]] IN
    IF c[1] = "revert"
    THEN [op |-> "modify", tok |-> item.tok, trait |-> item.was, by |-> s]
    ELSE [op |-> "burn", tok |-> item.new, trait |-> item.now, by |-> s]

IsNext(c, left) ==
    \A d \in left : d = c \/ (c[1] = "revert" /\ d[1] = "burn") \/ (c[1] = d[1] /\ c[2] < d[2])

UnwindOne(s) ==
    LET m == mem[s] IN
    /\ m.step = "unwinding"
    /\ \E c \in m.left, out \in Outcomes :
        LET tx == Compensation(s, c)
            rest == [m EXCEPT !.left = @ \ {c}]
            undone == IF c[1] = "revert" THEN [rest EXCEPT !.items[c[2]].done = FALSE]
                      ELSE [rest EXCEPT !.items[c[2]].new = NoToken] IN
        /\ IsNext(c, m.left)
        /\ Outcome(tx, out)
        /\ Commit(s, CASE out = "done"    -> Settle(s, undone)
                       [] out = "refused" -> Settle(s, rest)
                       [] out = "unknown" -> Fail(m, <<>>), Cost(tx, out))
        /\ disturbed' = (disturbed \/ out # "done")
    /\ UNCHANGED <<legacy, index>>

-----------------------------------------------------------------------------
\* What a session was waiting for when the process died.
Pending(s) ==
    LET m == mem[s] IN
    CASE m.step = "minting" ->
            {[op |-> "mint", tok |-> Replacement(Now(s).tok, s), trait |-> Now(s).now, by |-> s]}
      [] m.step = "modifying" ->
            {[op |-> "modify", tok |-> Now(s).tok, trait |-> Now(s).now, by |-> s]}
      [] m.step = "burning" ->
            {[op |-> "burn", tok |-> Now(s).tok, trait |-> Now(s).was, by |-> s]}
      [] m.step \in {"offering", "rescuing"} ->
            {[op |-> "offer", tok |-> Now(s).new, trait |-> Now(s).now, by |-> s]}
      [] m.step = "unwinding" -> {Compensation(s, c) : c \in {d \in m.left : IsNext(d, m.left)}}
      [] OTHER -> {}

\* Sessions do not survive; the journal does.
Restart ==
    /\ faults < MaxFaults /\ faults' = faults + 1
    /\ mem' = [s \in Session |-> IF Active(s) THEN Stop(mem[s], "gone") ELSE mem[s]]
    /\ flying' = flying \cup UNION {Pending(s) : s \in Session}
    /\ disturbed' = (disturbed \/ \E s \in Session :
                        mem[s].step \in {"minting", "modifying", "burning", "unwinding"})
    /\ UNCHANGED <<legacy, nft, index, journal>>

Task(s) ==
    \/ PreCheck(s) \/ NoPayment(s)
    \/ MintOne(s) \/ ModifyOne(s) \/ BurnStale(s) \/ BurnOne(s) \/ OfferOne(s)
    \/ Rescue(s) \/ UnwindOne(s)

Next ==
    \/ \E s \in Session :
        \/ \E f \in Surface, t, u \in Token : Start(s, f, t, u)
        \/ PaymentSeen(s) \/ Cancel(s) \/ Task(s)
    \/ \E t \in Token : Accept(t) \/ Listen(t)
    \/ \E tx \in flying : Land(tx)
    \/ Restart

Spec == Init /\ [][Next]_vars

\* The event loop goes on with some task that can go on; a wait for a payment
\* has a deadline, so waiting for ever is no excuse.
Fairness == WF_vars(\E s \in Session : Task(s))

FairSpec == Spec /\ Fairness

-----------------------------------------------------------------------------
InHand(t) == nft[t].at = "user" \/ (Live(t) /\ nft[t].offered)

(* Whatever fails, is unknown, or interleaves: an edition whose original   *)
(* was burned has a live replacement, and its owner never holds or is      *)
(* offered two tokens of one edition.  The burn comes after the mint, the  *)
(* offer after the burn, and what is burned back is never the replacement  *)
(* of a burned original.                                                   *)
OneTokenPerEdition ==
    /\ \A n \in Edition :
        nft[<<n, First>>].at = "burned" => \E s \in Session : Live(<<n, s>>)
    /\ \A t, u \in Token : t[1] = u[1] /\ InHand(t) /\ InHand(u) => t = u

(* A row says burned only of a token that is: the flag is never taken back *)
(* and the roster would hide a live token for good.  This is why only a    *)
(* definite absence heals the row, and only a known burn is persisted.     *)
BurialsAreTrue == \A t \in Token : index[t].at = "burned" => nft[t].at = "burned"

(* A swap exchanges traits, it neither copies nor destroys them, be it     *)
(* completed, cancelled or unwound after any refusal.  Exempt are swaps    *)
(* half of which could not be undone, unknown outcomes, refused            *)
(* compensations, restarts amid the chain work, rosters behind the ledger  *)
(* and two sessions on one token, which nothing in the code prevents.      *)
TraitsConserved ==
    (~disturbed /\ \A s \in Session : ~Active(s)) =>
        /\ \A n \in Edition : \E t \in Token : t[1] = n /\ Live(t)
        /\ \A t, u \in Token :
            Live(t) /\ Live(u) /\ (t[1] = u[1] \/ nft[t].trait = nft[u].trait) => t = u

(* An administrator can rely on the record: an original burned by a swap   *)
(* has its replacement named there, an unwound swap burned and delivered   *)
(* nothing, a partial one burned its first original only, a complete one   *)
(* delivered all it burned.                                                *)
Burned(s)    == {n \in Edition : nft[<<n, First>>].by = s}
Delivered(s) == {n \in Edition : nft[<<n, s>>].offered}

JournalTellsOutcome ==
    \A s \in Session :
        LET st == journal[s].st
            old == {mem[s].items[i].tok[1] : i \in Reminted(s)} IN
        /\ journal[s].behind \/ \A n \in Burned(s) : <<n, s>> \in journal[s].names
        /\ st \in Unwound => Burned(s) = {} /\ Delivered(s) = {}
        /\ st \in Partial \cup {"partial"} =>
            \E n \in old : Burned(s) = {n} /\ Delivered(s) \subseteq {n}
        /\ st = "partial" => Delivered(s) = Burned(s)
        /\ st = "complete" => Burned(s) = old /\ Delivered(s) = old

(* Every session comes to an end, which frees its owner to swap again.     *)
SwapEnds == \A s \in Session : Active(s) ~> ~Active(s)
=============================================================================
