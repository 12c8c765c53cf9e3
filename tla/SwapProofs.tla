----------------------------- MODULE SwapProofs -----------------------------
(***************************************************************************)
(* Proofs about Swap, for any number of editions, sessions, surfaces and   *)
(* faults.  The ledger is sound at every moment (Ledger); every step of a  *)
(* session, and every transaction still undecided, is Safe on it and harms *)
(* no other session (Grows); a session knows where it stands (StepOK).     *)
(* On top of that its journal never says more than it did (Records), and,   *)
(* while swaps run to plan, every edition's trait is where its session      *)
(* left it or took it from (Kept).                                          *)
(***************************************************************************)
EXTENDS Swap, TLAPS

\* Constant-level readings of the ledger N, of the legacy editions L and of
\* a session's state m.
LiveIn(N, t)    == N[t].at \in {"issuer", "user"}
Burner(N, n)    == N[<<n, First>>].by
Gone(N, s, e)   == Burner(N, e.tok[1]) = s
Minted(e)       == e.new # NoToken
Leg(L, t)       == t[2] = First /\ t[1] \in L
Legs(L, m)      == {i \in 1..2 : Leg(L, m.items[i].tok)}
Running(m)      == m.step \notin {"none", "ended"}
Untouched(N, s) == \A n \in Edition : Burner(N, n) # s

TokenState == [at : Places, trait : Edition, offered : BOOLEAN, by : Session \cup {First}]

SessionRec ==
    [step : Steps, surface : Surface, items : {<<>>} \cup (Item \X Item), at : 0..2,
     left : SUBSET ({"revert", "burn"} \X (1..2)), why : Statuses, end : Ends]

Record == [st : Statuses, names : SUBSET Token, behind : BOOLEAN]

\* What burned an edition's original left it a replacement; what is offered
\* or delivered is the replacement made by the original's burner.
Ledger(N) ==
    /\ N \in [Token -> TokenState]
    /\ \A t \in Token : N[t].at = "burned" <=> N[t].by \in Session
    /\ \A n \in Edition : N[<<n, First>>].at \in {"user", "burned"}
    /\ \A n \in Edition, s \in Session :
        /\ N[<<n, s>>].at = "user" \/ N[<<n, s>>].offered => Burner(N, n) = s
        /\ Burner(N, n) = s => LiveIn(N, <<n, s>>)

\* A transaction that may land without breaking that.
Safe(N, tx) ==
    /\ tx.op \in {"mint", "offer"} => tx.tok[2] = tx.by
    /\ tx.op = "offer" => Burner(N, tx.tok[1]) = tx.by
    /\ tx.op = "burn" =>
        \/ tx.tok[2] = First /\ LiveIn(N, <<tx.tok[1], tx.by>>)
        \/ tx.tok[2] = tx.by /\ Burner(N, tx.tok[1]) # tx.by

\* What a step may change for anybody but the sessions of S.
Grows(N, M, S) ==
    /\ \A t \in Token : /\ N[t].at # "none" => M[t].at # "none"
                        /\ N[t].at = "burned" => M[t].at = "burned"
    /\ \A n \in Edition, r \in Session \ S :
        /\ LiveIn(N, <<n, r>>) => LiveIn(M, <<n, r>>)
        /\ Burner(M, n) = r <=> Burner(N, n) = r

ItemOK(N, L, s, e) ==
    /\ N[e.tok].at # "none"
    /\ Minted(e) => Leg(L, e.tok) /\ e.new = <<e.tok[1], s>> /\ LiveIn(N, e.new)

ItemsOK(N, L, s, m) ==
    /\ m.items \in Item \X Item
    /\ m.items[1].tok # m.items[2].tok
    /\ \A i \in 1..2 : ItemOK(N, L, s, m.items[i])

\* The first original is gone, and its replacement is there.
HalfGone(N, L, s, m) ==
    \E i \in Legs(L, m) :
        /\ \A j \in Legs(L, m) : i <= j
        /\ Minted(m.items[i]) /\ Gone(N, s, m.items[i])

\* Where a session stands, by its step.
StepOK(N, L, s, m) ==
    /\ m.step \in {"checking", "paying", "minting", "modifying"} => Untouched(N, s)
    /\ m.step \in {"paying", "modifying"} => m.at \in (1..2) \ Legs(L, m)
    /\ m.step \in {"minting", "burning", "offering", "rescuing"} => m.at \in Legs(L, m)
    /\ m.step = "minting" => \A i \in Legs(L, m) : i < m.at => Minted(m.items[i])
    /\ m.step \in {"modifying", "burning", "offering"} =>
        \A i \in Legs(L, m) : Minted(m.items[i])
    /\ m.step = "burning" => \A i \in Legs(L, m) : Gone(N, s, m.items[i]) <=> i < m.at
    /\ m.step = "offering" => \A i \in Legs(L, m) : Gone(N, s, m.items[i])
    /\ m.step = "rescuing" => Minted(m.items[m.at]) /\ Gone(N, s, m.items[m.at])
    /\ m.step = "unwinding" =>
        /\ \A i \in 1..2 : <<"burn", i>> \in m.left =>
            Minted(m.items[i]) /\ ~Gone(N, s, m.items[i])
        /\ m.why \in Partial => HalfGone(N, L, s, m)

SessionOK(N, L, s, m) ==
    /\ m \in SessionRec
    /\ m.step = "none" => Untouched(N, s)
    /\ Running(m) => ItemsOK(N, L, s, m) /\ StepOK(N, L, s, m)

Sessions == \A s \in Session : SessionOK(nft, legacy, s, mem[s])

\* What is undecided is the last thing its session did.
Undecided ==
    \A tx \in flying :
        /\ mem[tx.by].step = "ended" /\ Safe(nft, tx)
        /\ \A ty \in flying : ty.by = tx.by => ty = tx

IndexKnows ==
    /\ BurialsAreTrue
    /\ \A t \in Token : index[t].at # "none" => nft[t].at # "none"

IInv == TypeOK /\ Ledger(nft) /\ Sessions /\ Undecided /\ IndexKnows

-----------------------------------------------------------------------------
(* Constants, tokens, items.                                               *)

LEMMA StepNames ==
    Steps = {"none", "checking", "unwinding", "rescuing", "ended", "paying", "minting",
             "modifying", "burning", "offering"}
BY DEF Steps, Phases

\* Every token is an edition and a maker, and the empty tuple is none.
LEMMA TokenIsPair ==
    /\ \A t \in Token : /\ t[1] \in Edition /\ t[2] \in Session \cup {First}
                        /\ t = <<t[1], t[2]>>
    /\ \A n \in Edition : <<n, First>> \in Token
    /\ \A n \in Edition, s \in Session : <<n, s>> \in Token /\ <<n, s>> # <<n, First>>
    /\ NoToken \notin Token
<1>1. \A n \in Edition, s \in Session : <<n, s>> # <<n, First>>
  BY SwapAssumption
<1>2. NoToken \notin Token
  BY DEF NoToken, Token
<1>. QED BY <1>1, <1>2 DEF Token

\* Least finds the least of a few positions.
LEMMA LeastIsLeast ==
  ASSUME NEW S, S \subseteq 1..5, S # {}
  PROVE  Least(S) \in S /\ \A j \in S : Least(S) <= j
<1>1. \A j \in S : j \in {1, 2, 3, 4, 5}
  OBVIOUS
<1>2. \E i \in S : \A j \in S : i <= j
  <2>1. CASE 1 \in S
    BY <1>1, <2>1
  <2>2. CASE 1 \notin S /\ 2 \in S
    BY <1>1, <2>2
  <2>3. CASE 1 \notin S /\ 2 \notin S /\ 3 \in S
    BY <1>1, <2>3
  <2>4. CASE 1 \notin S /\ 2 \notin S /\ 3 \notin S /\ 4 \in S
    BY <1>1, <2>4
  <2>5. CASE 1 \notin S /\ 2 \notin S /\ 3 \notin S /\ 4 \notin S
    <3>1. \A j \in S : j = 5
      BY <1>1, <2>5
    <3>2. PICK i \in S : TRUE
      OBVIOUS
    <3>3. \A j \in S : i <= j
      BY <3>1, <3>2
    <3>. QED BY <3>3
  <2>. QED BY <2>1, <2>2, <2>3, <2>4, <2>5
<1>. QED BY <1>2 DEF Least

\* Replacing one of two items.
LEMMA ItemsExcept ==
  ASSUME NEW items \in Item \X Item, NEW i \in 1..2, NEW e \in Item
  PROVE  /\ [items EXCEPT ![i] = e] \in Item \X Item
         /\ \A j \in 1..2 : [items EXCEPT ![i] = e][j] = IF j = i THEN e ELSE items[j]
OBVIOUS

\* The code's two lists of a session's items.
LEMMA LegsAreReminted ==
  ASSUME NEW s \in Session, mem[s].items \in Item \X Item
  PROVE  /\ Reminted(s) = Legs(legacy, mem[s])
         /\ InPlace(s) = (1..2) \ Legs(legacy, mem[s])
         /\ DOMAIN mem[s].items = 1..2
<1>1. DOMAIN mem[s].items = 1..2
  OBVIOUS
<1>2. \A i \in 1..2 : Mutable(mem[s].items[i].tok) <=> ~Leg(legacy, mem[s].items[i].tok)
  BY DEF Mutable, Leg
<1>. QED BY <1>1, <1>2 DEF Reminted, InPlace, Legs

-----------------------------------------------------------------------------
(* The ledger.                                                             *)

\* What a transaction that lands changes.
LEMMA LandsChanges ==
  ASSUME nft \in [Token -> TokenState], NEW tx \in Tx, Lands(tx)
  PROVE  /\ nft' \in [Token -> TokenState]
         /\ \A t \in Token : t # tx.tok => nft'[t] = nft[t]
         /\ tx.op = "mint" => /\ nft[tx.tok].at = "none" /\ nft'[tx.tok].at = "issuer"
                              /\ nft'[tx.tok].offered = nft[tx.tok].offered
                              /\ nft'[tx.tok].by = nft[tx.tok].by
         /\ tx.op # "mint" => LiveIn(nft, tx.tok)
         /\ tx.op = "burn" => /\ nft'[tx.tok].at = "burned" /\ nft'[tx.tok].by = tx.by
                              /\ nft'[tx.tok].offered = nft[tx.tok].offered
         /\ tx.op \in {"modify", "offer"} => /\ nft'[tx.tok].at = nft[tx.tok].at
                                             /\ nft'[tx.tok].by = nft[tx.tok].by
         /\ tx.op = "modify" => nft'[tx.tok].offered = nft[tx.tok].offered
<1>1. tx.tok \in Token /\ nft[tx.tok] \in TokenState /\ tx.op \in {"mint", "modify", "burn", "offer"}
      /\ tx.trait \in Edition /\ tx.by \in Session
  BY DEF Tx
<1>2. Effect(tx) \in TokenState
  BY <1>1 DEF Effect, TokenState, Places
<1>3. nft' = [nft EXCEPT ![tx.tok] = Effect(tx)] /\ Applies(tx)
  BY DEF Lands
<1>4. nft'[tx.tok] = Effect(tx) /\ \A t \in Token : t # tx.tok => nft'[t] = nft[t]
  BY <1>1, <1>3
<1>5. nft' \in [Token -> TokenState]
  BY <1>2, <1>3
<1>6. /\ Effect(tx).at = CASE tx.op = "mint" -> "issuer" [] tx.op = "burn" -> "burned"
                           [] OTHER -> nft[tx.tok].at
      /\ Effect(tx).by = IF tx.op = "burn" THEN tx.by ELSE nft[tx.tok].by
      /\ Effect(tx).offered = (nft[tx.tok].offered \/ tx.op = "offer")
  BY <1>1 DEF Effect, TokenState
<1>7. nft[tx.tok].offered \in BOOLEAN
  BY <1>1 DEF TokenState
<1>. QED BY <1>1, <1>3, <1>4, <1>5, <1>6, <1>7 DEF Applies, Live, LiveIn

\* A safe transaction leaves the ledger sound and the other sessions alone.
LEMMA SafeLanding ==
  ASSUME Ledger(nft), NEW tx \in Tx, Safe(nft, tx), Lands(tx)
  PROVE  Ledger(nft') /\ Grows(nft, nft', {tx.by})
<1> DEFINE k == tx.tok
<1>1. /\ k \in Token /\ tx.by \in Session /\ tx.op \in {"mint", "modify", "burn", "offer"}
      /\ k[1] \in Edition /\ k[2] \in Session \cup {First} /\ k = <<k[1], k[2]>>
  BY TokenIsPair DEF Tx
<1>2. nft \in [Token -> TokenState] /\ nft' \in [Token -> TokenState]
  BY LandsChanges DEF Ledger
<1>3. \A t \in Token : t # k => nft'[t] = nft[t]
  BY LandsChanges DEF Ledger
<1>4. CASE tx.op = "modify"
  <2>1. \A t \in Token : /\ nft'[t].at = nft[t].at /\ nft'[t].by = nft[t].by
                         /\ nft'[t].offered = nft[t].offered
    BY <1>1, <1>2, <1>3, <1>4, LandsChanges
  <2>. QED BY <1>2, <2>1, TokenIsPair DEF Ledger, Grows, Burner, LiveIn
<1>5. CASE tx.op = "offer"
  <2>1. /\ \A t \in Token : nft'[t].at = nft[t].at /\ nft'[t].by = nft[t].by
        /\ \A t \in Token : t # k => nft'[t].offered = nft[t].offered
        /\ k = <<k[1], tx.by>> /\ Burner(nft, k[1]) = tx.by
    BY <1>1, <1>2, <1>3, <1>5, LandsChanges DEF Safe
  <2>2. Grows(nft, nft', {tx.by})
    BY <2>1, TokenIsPair DEF Grows, Burner, LiveIn
  <2>3. ASSUME NEW n \in Edition, NEW s \in Session, nft'[<<n, s>>].at = "user" \/ nft'[<<n, s>>].offered
        PROVE  Burner(nft', n) = s
    <3>1. CASE <<n, s>> = k
      BY <1>1, <2>1, <3>1, TokenIsPair DEF Burner
    <3>2. CASE <<n, s>> # k
      BY <2>1, <2>3, <3>2, TokenIsPair DEF Burner, Ledger
    <3>. QED BY <3>1, <3>2
  <2>. QED BY <1>2, <2>1, <2>2, <2>3, TokenIsPair DEF Ledger, Burner, LiveIn
<1>6. CASE tx.op = "mint"
  <2>1. /\ k = <<k[1], tx.by>> /\ nft[k].at = "none" /\ nft'[k].at = "issuer"
        /\ nft'[k].by = nft[k].by /\ nft'[k].offered = nft[k].offered
    BY <1>1, <1>2, <1>6, LandsChanges DEF Safe
  <2>2. \A n \in Edition : <<n, First>> # k /\ nft'[<<n, First>>] = nft[<<n, First>>]
    BY <1>1, <1>3, <2>1, TokenIsPair
  <2>3. \A t \in Token : nft'[t].by = nft[t].by /\ nft'[t].offered = nft[t].offered
    BY <1>3, <2>1
  <2>4. Grows(nft, nft', {tx.by})
    BY <1>3, <2>1, <2>2, TokenIsPair DEF Grows, Burner, LiveIn
  <2>5. \A t \in Token : nft'[t].at = "burned" <=> nft'[t].by \in Session
    BY <1>1, <1>3, <2>1, <2>3 DEF Ledger
  <2>6. ASSUME NEW n \in Edition, NEW s \in Session
        PROVE  /\ nft'[<<n, s>>].at = "user" \/ nft'[<<n, s>>].offered => Burner(nft', n) = s
               /\ Burner(nft', n) = s => LiveIn(nft', <<n, s>>)
    <3>1. Burner(nft', n) = Burner(nft, n)
      BY <2>2 DEF Burner
    <3>2. CASE <<n, s>> = k
      BY <2>1, <2>3, <3>1, <3>2 DEF Ledger, LiveIn
    <3>3. CASE <<n, s>> # k
      BY <1>3, <3>1, <3>3, TokenIsPair DEF Ledger, LiveIn
    <3>. QED BY <3>2, <3>3
  <2>. QED BY <1>2, <2>2, <2>4, <2>5, <2>6 DEF Ledger
<1>7. CASE tx.op = "burn"
  <2>1. /\ nft[k].at \in {"issuer", "user"} /\ nft'[k].at = "burned" /\ nft'[k].by = tx.by
        /\ nft'[k].offered = nft[k].offered /\ nft[k].by \notin Session
    BY <1>1, <1>2, <1>7, LandsChanges DEF Ledger, LiveIn
  <2>2. \A t \in Token : nft'[t].at = "burned" <=> nft'[t].by \in Session
    BY <1>1, <1>3, <2>1 DEF Ledger
  <2>3. \A n \in Edition : nft'[<<n, First>>].at \in {"user", "burned"}
    BY <1>3, <2>1, TokenIsPair DEF Ledger
  <2>4. /\ \A t \in Token : /\ nft[t].at # "none" => nft'[t].at # "none"
                            /\ nft[t].at = "burned" => nft'[t].at = "burned"
    BY <1>3, <2>1
  <2>5. CASE k[2] = First /\ LiveIn(nft, <<k[1], tx.by>>)
    <3>1. k = <<k[1], First>> /\ \A n \in Edition, s \in Session : <<n, s>> # k
      BY <1>1, <2>5, TokenIsPair
    <3>2. Burner(nft', k[1]) = tx.by /\ Burner(nft, k[1]) \notin Session
      BY <2>1, <3>1 DEF Burner
    <3>3. \A n \in Edition : n # k[1] => Burner(nft', n) = Burner(nft, n)
      <4>1. \A n \in Edition : n # k[1] => <<n, First>> # k
        BY <3>1
      <4>. QED BY <1>3, <4>1, TokenIsPair DEF Burner
    <3>4. \A n \in Edition, s \in Session : nft'[<<n, s>>] = nft[<<n, s>>]
      BY <1>3, <3>1, TokenIsPair
    <3>5. Grows(nft, nft', {tx.by})
      BY <1>1, <2>4, <3>2, <3>3, <3>4 DEF Grows, LiveIn
    <3>6. ASSUME NEW n \in Edition, NEW s \in Session
          PROVE  /\ nft'[<<n, s>>].at = "user" \/ nft'[<<n, s>>].offered => Burner(nft', n) = s
                 /\ Burner(nft', n) = s => LiveIn(nft', <<n, s>>)
      <4>1. CASE n = k[1]
        BY <2>5, <3>2, <3>4, <4>1 DEF Ledger, LiveIn
      <4>2. CASE n # k[1]
        BY <3>3, <3>4, <4>2 DEF Ledger, LiveIn
      <4>. QED BY <4>1, <4>2
    <3>. QED BY <1>2, <2>2, <2>3, <3>5, <3>6 DEF Ledger
  <2>6. CASE k[2] = tx.by /\ Burner(nft, k[1]) # tx.by
    <3>1. k = <<k[1], tx.by>> /\ \A n \in Edition : <<n, First>> # k
      BY <1>1, <2>6, TokenIsPair
    <3>2. \A n \in Edition : Burner(nft', n) = Burner(nft, n)
      BY <1>3, <3>1, TokenIsPair DEF Burner
    <3>3. \A n \in Edition, s \in Session : s # tx.by => nft'[<<n, s>>] = nft[<<n, s>>]
      <4>1. \A n \in Edition, s \in Session : s # tx.by => <<n, s>> # k
        BY <3>1
      <4>. QED BY <1>3, <4>1, TokenIsPair
    <3>4. Grows(nft, nft', {tx.by})
      BY <2>4, <3>2, <3>3 DEF Grows, LiveIn
    <3>5. ASSUME NEW n \in Edition, NEW s \in Session
          PROVE  /\ nft'[<<n, s>>].at = "user" \/ nft'[<<n, s>>].offered => Burner(nft', n) = s
                 /\ Burner(nft', n) = s => LiveIn(nft', <<n, s>>)
      <4>1. CASE <<n, s>> = k
        <5>1. n = k[1] /\ s = tx.by
          BY <3>1, <4>1
        <5>2. Burner(nft', n) # s /\ ~nft[k].offered
          BY <1>1, <2>6, <3>1, <3>2, <5>1 DEF Ledger
        <5>. QED BY <2>1, <4>1, <5>2
      <4>2. CASE <<n, s>> # k
        BY <1>3, <3>2, <4>2, TokenIsPair DEF Ledger, LiveIn
      <4>. QED BY <4>1, <4>2
    <3>. QED BY <1>2, <2>2, <2>3, <3>4, <3>5 DEF Ledger
  <2>. QED BY <1>7, <2>5, <2>6 DEF Safe
<1>. QED BY <1>1, <1>4, <1>5, <1>6, <1>7

\* What the others see of a step that only adds is what they see of none.
LEMMA GrowsByNothing == \A N, S : Grows(N, N, S)
BY DEF Grows

\* The three outcomes of a transaction.
LEMMA OutcomeIsSafe ==
  ASSUME Ledger(nft), NEW tx \in Tx, Safe(nft, tx), NEW out \in Outcomes, Outcome(tx, out)
  PROVE  /\ Ledger(nft') /\ Grows(nft, nft', {tx.by})
         /\ out = "done" => flying' = flying /\ Lands(tx)
         /\ out = "refused" => flying' = flying /\ nft' = nft
         /\ out = "unknown" => flying' = flying \cup {tx} /\ nft' = nft
<1>1. CASE out = "done"
  BY <1>1, SafeLanding DEF Outcome
<1>2. CASE out # "done"
  <2>1. nft' = nft
    BY <1>2 DEF Outcome
  <2>2. Ledger(nft') /\ Grows(nft, nft', {tx.by})
    BY <2>1, GrowsByNothing
  <2>. QED BY <1>2, <2>1, <2>2 DEF Outcome
<1>. QED BY <1>1, <1>2

-----------------------------------------------------------------------------
(* What others do changes nothing for a session, or for a transaction.     *)

LEMMA SessionIsStable ==
  ASSUME NEW N, NEW M, NEW S, NEW L, NEW s \in Session, s \notin S, NEW m,
         Grows(N, M, S), SessionOK(N, L, s, m)
  PROVE  SessionOK(M, L, s, m)
<1>1. \A n \in Edition : Burner(M, n) = s <=> Burner(N, n) = s
  BY DEF Grows
<1>2. m \in SessionRec /\ (m.step = "none" => Untouched(M, s))
  BY <1>1 DEF SessionOK, Untouched
<1>3. ASSUME Running(m) PROVE ItemsOK(M, L, s, m) /\ StepOK(M, L, s, m)
  <2>1. ItemsOK(N, L, s, m) /\ StepOK(N, L, s, m)
    BY <1>3 DEF SessionOK
  <2>2. \A i \in 1..2 : m.items[i] \in Item /\ m.items[i].tok \in Token
                        /\ m.items[i].tok[1] \in Edition
    BY <2>1, TokenIsPair DEF ItemsOK, Item
  <2>3. \A i \in 1..2 : Gone(M, s, m.items[i]) <=> Gone(N, s, m.items[i])
    BY <1>1, <2>2 DEF Gone
  <2>4. \A i \in 1..2 : ItemOK(M, L, s, m.items[i])
    <3>1. TAKE i \in 1..2
    <3>2. ItemOK(N, L, s, m.items[i])
      BY <2>1 DEF ItemsOK
    <3>. QED BY <2>2, <3>2 DEF ItemOK, Grows
  <2>5. ItemsOK(M, L, s, m)
    BY <2>1, <2>4 DEF ItemsOK
  <2>6. \A i \in Legs(L, m) : i \in 1..2
    BY DEF Legs
  <2>7. HalfGone(N, L, s, m) => HalfGone(M, L, s, m)
    BY <2>3, <2>6 DEF HalfGone
  <2>8. Untouched(N, s) => Untouched(M, s)
    BY <1>1 DEF Untouched
  <2>9. StepOK(M, L, s, m)
    BY <2>1, <2>3, <2>6, <2>7, <2>8 DEF StepOK
  <2>. QED BY <2>5, <2>9
<1>. QED BY <1>2, <1>3 DEF SessionOK

LEMMA SafeIsStable ==
  ASSUME NEW N, NEW M, NEW S, NEW tx \in Tx, tx.by \notin S, Grows(N, M, S), Safe(N, tx)
  PROVE  Safe(M, tx)
<1>1. tx.by \in Session /\ tx.tok[1] \in Edition
  BY TokenIsPair DEF Tx
<1>2. /\ Burner(M, tx.tok[1]) = tx.by <=> Burner(N, tx.tok[1]) = tx.by
      /\ LiveIn(N, <<tx.tok[1], tx.by>>) => LiveIn(M, <<tx.tok[1], tx.by>>)
  BY <1>1 DEF Grows
<1>. QED BY <1>2 DEF Safe

LEMMA IndexIsStable ==
  ASSUME IndexKnows, index' = index, NEW S, Grows(nft, nft', S)
  PROVE  IndexKnows'
BY DEF IndexKnows, BurialsAreTrue, Grows

-----------------------------------------------------------------------------
(* What a session goes on with.                                            *)

NextOK(N, s, r) ==
    /\ SessionOK(N, legacy, s, r.mem) /\ r.mem.items \in Item \X Item
    /\ r.writes \in Seq(Statuses)

\* The state a session goes on from: what it holds is sound, and is about the
\* tokens it began with.
From(N, s, m) ==
    /\ m \in SessionRec /\ m.step = mem[s].step /\ m.at = mem[s].at
    /\ ItemsOK(N, legacy, s, m)
    /\ mem[s].items \in Item \X Item
    /\ \A i \in 1..2 : m.items[i].tok = mem[s].items[i].tok

LEMMA SameLegs ==
  ASSUME NEW N, NEW s \in Session, NEW m, From(N, s, m)
  PROVE  /\ Reminted(s) = Legs(legacy, m)
         /\ InPlace(s) = (1..2) \ Legs(legacy, m)
         /\ Legs(legacy, m) \subseteq 1..2
         /\ \A i \in 1..2 : m.items[i] \in Item
<1>1. Legs(legacy, m) = Legs(legacy, mem[s])
  BY DEF From, Legs, Leg
<1>. QED BY <1>1, LegsAreReminted DEF From, ItemsOK, Legs

LEMMA EndIsOK ==
  ASSUME NEW N, NEW s, NEW m \in SessionRec, NEW end \in Ends
  PROVE  /\ Stop(m, end) \in SessionRec /\ Stop(m, end).step = "ended"
         /\ SessionOK(N, legacy, s, Stop(m, end)) /\ Stop(m, end).items = m.items
<1>1. /\ Stop(m, end) \in SessionRec /\ Stop(m, end).step = "ended"
      /\ Stop(m, end).items = m.items
  BY StepNames DEF Stop, SessionRec
<1>. QED BY <1>1 DEF SessionOK, Running

LEMMA FailIsOK ==
  ASSUME NEW N, NEW s, NEW m \in SessionRec, m.items \in Item \X Item,
         NEW writes \in Seq(Statuses)
  PROVE  NextOK(N, s, Fail(m, writes)) /\ Fail(m, writes).mem.step = "ended"
<1>1. Fail(m, writes).mem = Stop(m, "failed") /\ Fail(m, writes).writes = writes
  BY DEF Fail
<1>2. "failed" \in Ends
  BY DEF Ends
<1>. QED BY <1>1, <1>2, EndIsOK DEF NextOK

LEMMA WritesAreStatuses ==
  /\ \A k \in {"checking", "paying", "minting", "modifying", "burning", "offering"} :
        Closing[k] \in Seq(Statuses)
  /\ \A k \in {"paying", "minting", "modifying", "burning", "offering", "ready"} :
        Opening[k] \in Seq(Statuses)
  /\ \A v, w \in Seq(Statuses) : v \o w \in Seq(Statuses)
  /\ \A st \in Statuses : <<st>> \in Seq(Statuses)
  /\ <<>> \in Seq(Statuses)
<1>1. /\ Closing["checking"] = <<>> /\ Closing["paying"] = <<"fee_paid">>
      /\ Closing["minting"] = <<"minted">> /\ Closing["modifying"] = <<"modified">>
      /\ Closing["burning"] = <<"burned">> /\ Closing["offering"] = <<>>
  BY DEF Closing
<1>2. /\ Opening["paying"] = <<>> /\ Opening["minting"] = <<"minting">>
      /\ Opening["modifying"] = <<"modifying">> /\ Opening["burning"] = <<>>
      /\ Opening["offering"] = <<>> /\ Opening["ready"] = <<"complete">>
  BY DEF Opening
<1>3. \A st \in Statuses : <<st>> \in Seq(Statuses)
  OBVIOUS
<1>4. <<>> \in Seq(Statuses) /\ \A v, w \in Seq(Statuses) : v \o w \in Seq(Statuses)
  OBVIOUS
<1>5. {"fee_paid", "minted", "modified", "burned", "minting", "modifying", "complete"}
        \subseteq Statuses
  BY DEF Statuses
<1>. QED BY <1>1, <1>2, <1>3, <1>4, <1>5

FivePhases == {"paying", "minting", "modifying", "burning", "offering"}

\* The next phase has work, and none that has work is skipped.
LEMMA FollowingIs ==
  ASSUME NEW N, NEW s \in Session, NEW m, From(N, s, m), m.step \in FivePhases \cup {"checking"}
  PROVE  LET f == Following(s)
             lg == Legs(legacy, m) IN
         /\ f \in FivePhases \cup {"ready"}
         /\ f \in {"paying", "modifying"} => (1..2) \ lg # {}
         /\ f \in {"minting", "burning", "offering"} => lg # {}
         /\ f = "paying" => m.step = "checking"
         /\ f = "minting" => m.step \in {"checking", "paying"}
         /\ f = "modifying" => m.step = "minting" \/ (m.step \in {"checking", "paying"} /\ lg = {})
         /\ f = "burning" => m.step \in {"minting", "modifying"}
         /\ f = "offering" => m.step = "burning"
<1> DEFINE lg == Legs(legacy, m)
           pos == Position[m.step]
           rest == {i \in 1..5 : i > pos /\ Work(s, Phases[i]) # {}}
<1>1. /\ Phases[1] = "paying" /\ Phases[2] = "minting" /\ Phases[3] = "modifying"
      /\ Phases[4] = "burning" /\ Phases[5] = "offering"
  BY DEF Phases
<1>2. /\ Work(s, "paying") = (1..2) \ lg /\ Work(s, "minting") = lg
      /\ Work(s, "modifying") = (1..2) \ lg /\ Work(s, "burning") = lg /\ Work(s, "offering") = lg
  BY SameLegs DEF Work
<1>3. /\ m.step = "checking" => pos = 0
      /\ m.step = "paying" => pos = 1
      /\ m.step = "minting" => pos = 2
      /\ m.step = "modifying" => pos = 3
      /\ m.step = "burning" => pos = 4
      /\ m.step = "offering" => pos = 5
  BY DEF Position
<1>4. pos \in 0..5
  BY <1>3 DEF FivePhases
<1>5. Following(s) = IF rest = {} THEN "ready" ELSE Phases[Least(rest)]
  BY DEF Following, From
<1>6. CASE rest = {}
  BY <1>5, <1>6 DEF FivePhases
<1>7. CASE rest # {}
  <2>1. \A i \in 1..5 : i \in rest <=> i > pos /\ Work(s, Phases[i]) # {}
    OBVIOUS
  <2>2. PICK k \in 1..5 : k \in rest /\ k = Least(rest) /\ \A j \in rest : k <= j
    <3> HIDE DEF rest
    <3>1. rest \subseteq 1..5
      BY DEF rest
    <3>2. Least(rest) \in rest /\ \A j \in rest : Least(rest) <= j
      BY <1>7, <3>1, LeastIsLeast
    <3>. QED BY <3>1, <3>2
  <2>3. /\ k > pos /\ Work(s, Phases[k]) # {} /\ Following(s) = Phases[k]
        /\ 2 > pos /\ lg # {} => k <= 2
        /\ 4 > pos /\ lg # {} => k <= 4
    <3> HIDE DEF rest, pos, lg
    <3>1. k > pos /\ Work(s, Phases[k]) # {} /\ Following(s) = Phases[k]
      BY <1>5, <1>7, <2>1, <2>2
    <3>2. 2 > pos /\ lg # {} => 2 \in rest
      BY <1>1, <1>2, <2>1
    <3>3. 4 > pos /\ lg # {} => 4 \in rest
      BY <1>1, <1>2, <2>1
    <3>. QED BY <2>2, <3>1, <3>2, <3>3
  <2>4. k \in {1, 2, 3, 4, 5}
    OBVIOUS
  <2> HIDE DEF rest
  <2>5. CASE k = 1
    BY <1>1, <1>2, <1>3, <1>4, <2>3, <2>5 DEF FivePhases
  <2>6. CASE k = 2
    BY <1>1, <1>2, <1>3, <1>4, <2>3, <2>6 DEF FivePhases
  <2>7. CASE k = 3
    BY <1>1, <1>2, <1>3, <1>4, <2>3, <2>7 DEF FivePhases
  <2>8. CASE k = 4
    BY <1>1, <1>2, <1>3, <1>4, <2>3, <2>8 DEF FivePhases
  <2>9. CASE k = 5
    BY <1>1, <1>2, <1>3, <1>4, <2>3, <2>9 DEF FivePhases
  <2>. QED BY <2>4, <2>5, <2>6, <2>7, <2>8, <2>9
<1>. QED BY <1>6, <1>7

\* What a session has done when its phase is over.
Through(N, s, m) ==
    /\ m.step \in {"checking", "paying", "minting", "modifying"} => Untouched(N, s)
    /\ m.step \in {"minting", "modifying", "burning", "offering"} =>
        \A i \in Legs(legacy, m) : Minted(m.items[i])
    /\ m.step \in {"burning", "offering"} => \A i \in Legs(legacy, m) : Gone(N, s, m.items[i])

LEMMA ProceedIsOK ==
  ASSUME NEW N, NEW s \in Session, NEW m, From(N, s, m), Through(N, s, m),
         m.step \in FivePhases \cup {"checking"}
  PROVE  NextOK(N, s, Proceed(s, m))
<1> DEFINE f == Following(s)
           lg == Legs(legacy, m)
           r == Enter(s, m, f)
<1>1. /\ f \in FivePhases \cup {"ready"}
      /\ f \in {"paying", "modifying"} => (1..2) \ lg # {}
      /\ f \in {"minting", "burning", "offering"} => lg # {}
      /\ f = "paying" => m.step = "checking"
      /\ f = "minting" => m.step \in {"checking", "paying"}
      /\ f = "modifying" => m.step = "minting" \/ (m.step \in {"checking", "paying"} /\ lg = {})
      /\ f = "burning" => m.step \in {"minting", "modifying"}
      /\ f = "offering" => m.step = "burning"
  BY FollowingIs
<1>2. m \in SessionRec /\ m.step = mem[s].step /\ lg \subseteq 1..2
  BY SameLegs DEF From
<1>3. Proceed(s, m).mem = r /\ Proceed(s, m).writes \in Seq(Statuses)
  <2>1. Proceed(s, m).mem = r /\ Proceed(s, m).writes = Closing[mem[s].step] \o Opening[f]
    BY DEF Proceed
  <2>2. Closing[mem[s].step] \in Seq(Statuses) /\ Opening[f] \in Seq(Statuses)
    BY <1>1, <1>2, WritesAreStatuses DEF FivePhases
  <2> HIDE DEF f, r
  <2>. QED BY <2>1, <2>2, WritesAreStatuses
<1>4. CASE f = "ready"
  <2>1. r = Stop(m, "ready")
    BY <1>4 DEF Enter
  <2>2. SessionOK(N, legacy, s, r)
    BY <1>2, <2>1, EndIsOK DEF Ends
  <2>3. r.items \in Item \X Item
    BY <1>2, <2>1, EndIsOK DEF Ends, From, ItemsOK
  <2>. QED BY <1>3, <2>2, <2>3 DEF NextOK
<1>5. CASE f # "ready"
  <2> DEFINE a == Least(Work(s, f))
  <2>1. Work(s, f) = IF f \in {"paying", "modifying"} THEN (1..2) \ lg ELSE lg
    BY SameLegs DEF Work
  <2>2. f \in FivePhases /\ Work(s, f) # {} /\ Work(s, f) \subseteq 1..5
    BY <1>1, <1>2, <1>5, <2>1 DEF FivePhases
  <2>3. a \in Work(s, f) /\ \A j \in Work(s, f) : a <= j
    BY <2>2, LeastIsLeast
  <2>4. r = [m EXCEPT !.step = f, !.at = a]
    BY <1>5 DEF Enter
  <2> HIDE DEF f, a, r
  <2>5. /\ r \in SessionRec /\ r.step = f /\ r.at = a /\ r.items = m.items
        /\ r.left = m.left /\ r.why = m.why
    <3>1. a \in 0..2 /\ f \in Steps
      BY <1>2, <2>1, <2>2, <2>3, StepNames DEF FivePhases
    <3>. QED BY <1>2, <2>4, <3>1 DEF SessionRec
  <2>6. Legs(legacy, r) = lg /\ ItemsOK(N, legacy, s, r)
    BY <2>5 DEF Legs, ItemsOK, From
  <2>7. f \in {"paying", "minting", "modifying"} => Untouched(N, s)
    BY <1>1 DEF Through
  <2>8. f \in {"modifying", "burning", "offering"} => \A i \in lg : Minted(m.items[i])
    BY <1>1 DEF Through
  <2>9. f = "burning" => \A i \in lg : ~Gone(N, s, m.items[i])
    <3>1. f = "burning" => Untouched(N, s)
      BY <1>1 DEF Through
    <3>2. \A i \in lg : m.items[i].tok[1] \in Edition
      BY SameLegs, TokenIsPair DEF Item
    <3>. QED BY <3>1, <3>2 DEF Untouched, Gone
  <2>10. f = "offering" => \A i \in lg : Gone(N, s, m.items[i])
    BY <1>1 DEF Through
  <2>11. \A i \in lg : ~(i < a) \/ f \in {"paying", "modifying"}
    BY <1>2, <2>1, <2>3
  <2>12. StepOK(N, legacy, s, r)
    BY <1>2, <2>1, <2>2, <2>3, <2>5, <2>6, <2>7, <2>8, <2>9, <2>10, <2>11 DEF StepOK, FivePhases
  <2>. QED BY <1>3, <2>2, <2>5, <2>6, <2>12 DEF NextOK, SessionOK, FivePhases, Running, ItemsOK
<1>. QED BY <1>4, <1>5

\* What it has done when it is through with the item it is at.
UpTo(N, s, m) ==
    /\ m.step \in {"minting", "modifying"} => Untouched(N, s)
    /\ m.step = "minting" => \A i \in Legs(legacy, m) : i <= m.at => Minted(m.items[i])
    /\ m.step \in {"modifying", "burning", "offering"} =>
        \A i \in Legs(legacy, m) : Minted(m.items[i])
    /\ m.step = "burning" => \A i \in Legs(legacy, m) : Gone(N, s, m.items[i]) <=> i <= m.at
    /\ m.step = "offering" => \A i \in Legs(legacy, m) : Gone(N, s, m.items[i])

LEMMA GoOnIsOK ==
  ASSUME NEW N, NEW s \in Session, NEW m, From(N, s, m), UpTo(N, s, m),
         m.step \in {"minting", "modifying", "burning", "offering"}
  PROVE  NextOK(N, s, GoOn(s, m))
<1> DEFINE lg == Legs(legacy, m)
           work == Work(s, mem[s].step)
           rest == {j \in work : j > mem[s].at}
<1>1. /\ m \in SessionRec /\ m.step = mem[s].step /\ m.at = mem[s].at /\ lg \subseteq 1..2
      /\ m.at \in 0..2
  BY SameLegs DEF From, SessionRec
<1>2. work = IF m.step = "modifying" THEN (1..2) \ lg ELSE lg
  BY <1>1, SameLegs DEF Work
<1>3. CASE rest = {}
  <2>1. \A i \in work : i <= m.at
    BY <1>1, <1>2, <1>3
  <2>2. Through(N, s, m)
    BY <1>1, <1>2, <2>1 DEF Through, UpTo
  <2>3. GoOn(s, m) = Proceed(s, m)
    BY <1>3 DEF GoOn
  <2>. QED BY <2>2, <2>3, ProceedIsOK DEF FivePhases
<1>4. CASE rest # {}
  <2> DEFINE a == Least(rest)
             r == [m EXCEPT !.at = a]
  <2>1. rest \subseteq 1..5
    BY <1>1, <1>2
  <2>2. a \in rest /\ \A j \in rest : a <= j
    BY <1>4, <2>1, LeastIsLeast
  <2>3. GoOn(s, m).mem = r /\ GoOn(s, m).writes = <<>>
    BY <1>4 DEF GoOn
  <2>4. a \in work /\ a \in 1..2 /\ \A i \in work : i < a <=> i <= m.at
    BY <1>1, <1>2, <2>2
  <2> HIDE DEF a
  <2>5. /\ r \in SessionRec /\ r.step = m.step /\ r.at = a /\ r.items = m.items
    BY <1>1, <2>4 DEF SessionRec
  <2> HIDE DEF r
  <2>6. Legs(legacy, r) = lg /\ ItemsOK(N, legacy, s, r)
    BY <2>5 DEF Legs, ItemsOK, From
  <2>7. StepOK(N, legacy, s, r)
    BY <1>1, <1>2, <2>4, <2>5, <2>6 DEF StepOK, UpTo
  <2>. QED BY <2>3, <2>5, <2>6, <2>7, WritesAreStatuses DEF NextOK, SessionOK, Running, ItemsOK
<1>. QED BY <1>3, <1>4

\* An unwinding goes on, or is through.
LEMMA SettleIsOK ==
  ASSUME NEW N, NEW s \in Session, NEW m, m \in SessionRec, m.step = "unwinding",
         ItemsOK(N, legacy, s, m), StepOK(N, legacy, s, m), mem[s].items \in Item \X Item,
         \A i \in 1..2 : m.items[i].tok = mem[s].items[i].tok
  PROVE  NextOK(N, s, Settle(s, m))
<1>1. m.why \in Statuses /\ <<m.why>> \in Seq(Statuses)
  BY WritesAreStatuses DEF SessionRec
<1>2. CASE m.left # {}
  <2>1. Settle(s, m).mem = m /\ Settle(s, m).writes = <<>>
    BY <1>2 DEF Settle
  <2>. QED BY <2>1, WritesAreStatuses DEF NextOK, SessionOK, ItemsOK
<1>3. CASE m.left = {} /\ m.why \notin Partial
  <2>1. Settle(s, m) = Fail(m, <<m.why>>)
    BY <1>3 DEF Settle
  <2>. QED BY <1>1, <2>1, FailIsOK DEF ItemsOK
<1>4. CASE m.left = {} /\ m.why \in Partial
  <2> DEFINE lg == Legs(legacy, m)
             r == [m EXCEPT !.step = "rescuing", !.at = Least(Reminted(s))]
  <2>1. Reminted(s) = lg /\ lg \subseteq 1..2
    <3>1. lg = Legs(legacy, mem[s])
      BY DEF Legs, Leg
    <3>. QED BY <3>1, LegsAreReminted DEF Legs
  <2>2. PICK i \in lg : /\ \A j \in lg : i <= j
                        /\ Minted(m.items[i]) /\ Gone(N, s, m.items[i])
    BY <1>4 DEF StepOK, HalfGone
  <2>3. Least(lg) = i
    <3>1. Least(lg) \in lg /\ \A j \in lg : Least(lg) <= j
      BY <2>1, LeastIsLeast
    <3>. QED BY <2>1, <2>2, <3>1
  <2>4. Settle(s, m).mem = r /\ Settle(s, m).writes = <<m.why>>
    BY <1>4 DEF Settle
  <2>5. r \in SessionRec /\ r.step = "rescuing" /\ r.at = i /\ r.items = m.items
    <3>1. i \in 0..2 /\ "rescuing" \in Steps
      BY <2>1, StepNames
    <3>2. r = [m EXCEPT !.step = "rescuing", !.at = i]
      BY <2>1, <2>3
    <3> HIDE DEF r
    <3>. QED BY <3>1, <3>2 DEF SessionRec
  <2> HIDE DEF r
  <2>6. Legs(legacy, r) = lg /\ ItemsOK(N, legacy, s, r)
    BY <2>5 DEF Legs, ItemsOK
  <2>7. StepOK(N, legacy, s, r)
    BY <2>2, <2>5, <2>6 DEF StepOK
  <2>. QED BY <1>1, <2>4, <2>5, <2>6, <2>7 DEF NextOK, SessionOK, ItemsOK
<1>. QED BY <1>2, <1>3, <1>4

\* The beginning of an unwinding: what is to be burned back are replacements
\* whose originals are there.
LEMMA UnwindIsOK ==
  ASSUME NEW N, NEW s \in Session, From(N, s, mem[s]), NEW why \in Statuses,
         NEW left \in SUBSET ({"revert", "burn"} \X (1..2)),
         \A i \in 1..2 : <<"burn", i>> \in left =>
            Minted(mem[s].items[i]) /\ ~Gone(N, s, mem[s].items[i]),
         why \in Partial => HalfGone(N, legacy, s, mem[s])
  PROVE  NextOK(N, s, Unwind(s, why, left))
<1> DEFINE m == [mem[s] EXCEPT !.step = "unwinding", !.why = why, !.left = left]
<1>1. /\ m \in SessionRec /\ m.step = "unwinding" /\ m.items = mem[s].items /\ m.left = left
      /\ m.why = why
  BY StepNames DEF From, SessionRec
<1>2. Unwind(s, why, left) = Settle(s, m)
  BY DEF Unwind
<1> HIDE DEF m
<1>3. Legs(legacy, m) = Legs(legacy, mem[s]) /\ ItemsOK(N, legacy, s, m)
  BY <1>1 DEF Legs, ItemsOK, From
<1>4. HalfGone(N, legacy, s, mem[s]) => HalfGone(N, legacy, s, m)
  BY <1>1, <1>3 DEF HalfGone
<1>5. StepOK(N, legacy, s, m)
  BY <1>1, <1>3, <1>4 DEF StepOK
<1>. QED BY <1>1, <1>2, <1>3, <1>5, SettleIsOK DEF From

LEMMA UnwindAllIsOK ==
  ASSUME NEW N, NEW s \in Session, From(N, s, mem[s]), NEW why \in Unwound,
         \A i \in Legs(legacy, mem[s]) : ~Gone(N, s, mem[s].items[i])
  PROVE  NextOK(N, s, UnwindAll(s, why))
<1> DEFINE left == Undone(s) \cup BurntBack(s)
<1>1. DOMAIN mem[s].items = 1..2
  BY LegsAreReminted DEF From
<1>2. left \in SUBSET ({"revert", "burn"} \X (1..2))
  BY <1>1 DEF Undone, BurntBack
<1>3. \A i \in 1..2 : <<"burn", i>> \in left => Minted(mem[s].items[i])
  BY <1>1 DEF Undone, BurntBack, Minted
<1>4. \A i \in 1..2 : Minted(mem[s].items[i]) => i \in Legs(legacy, mem[s])
  BY DEF From, ItemsOK, ItemOK, Legs
<1>5. why \in Statuses /\ why \notin Partial
  BY DEF Statuses, Unwound, Partial
<1> HIDE DEF left
<1>6. NextOK(N, s, Unwind(s, why, left))
  BY <1>2, <1>3, <1>4, <1>5, UnwindIsOK
<1>. QED BY <1>6 DEF UnwindAll, left

\* A failed burn of the first original undoes everything, of the second its
\* own half.
LEMMA BurnFailsIsOK ==
  ASSUME NEW N, NEW s \in Session, From(N, s, mem[s]), StepOK(N, legacy, s, mem[s]),
         mem[s].step = "burning", NEW stale \in BOOLEAN
  PROVE  NextOK(N, s, BurnFails(s, stale))
<1> DEFINE lg == Legs(legacy, mem[s])
           a == mem[s].at
<1>1. /\ a \in lg /\ lg \subseteq 1..2 /\ Reminted(s) = lg
      /\ \A i \in lg : Minted(mem[s].items[i]) /\ (Gone(N, s, mem[s].items[i]) <=> i < a)
  BY SameLegs DEF StepOK
<1>2. Least(lg) \in lg /\ \A j \in lg : Least(lg) <= j
  BY <1>1, LeastIsLeast
<1>3. CASE a = Least(lg)
  <2> DEFINE why == IF stale THEN "stale_pointer" ELSE "failed_burning"
  <2>1. \A i \in lg : ~Gone(N, s, mem[s].items[i])
    BY <1>1, <1>2, <1>3
  <2>2. why \in Unwound
    BY DEF Unwound
  <2>3. BurnFails(s, stale) = UnwindAll(s, why)
    BY <1>1, <1>3 DEF BurnFails
  <2>. QED BY <2>1, <2>2, <2>3, UnwindAllIsOK
<1>4. CASE a # Least(lg)
  <2> DEFINE why == IF stale THEN "stale_pointer_partial" ELSE "partial_burn_failure"
             left == {<<"burn", a>>}
  <2>1. HalfGone(N, legacy, s, mem[s])
    BY <1>1, <1>2, <1>4 DEF HalfGone
  <2>2. why \in Statuses
    BY DEF Statuses, Partial
  <2>3. left \in SUBSET ({"revert", "burn"} \X (1..2))
    BY <1>1
  <2>4. \A i \in 1..2 : <<"burn", i>> \in left =>
            Minted(mem[s].items[i]) /\ ~Gone(N, s, mem[s].items[i])
    BY <1>1
  <2>5. BurnFails(s, stale) = Unwind(s, why, left)
    BY <1>1, <1>4 DEF BurnFails
  <2> HIDE DEF why, left
  <2>. QED BY <2>1, <2>2, <2>3, <2>4, <2>5, UnwindIsOK
<1>. QED BY <1>3, <1>4

-----------------------------------------------------------------------------
(* A step keeps the invariant.                                             *)

LEMMA CommitIs ==
  ASSUME TypeOK, NEW s \in Session, NEW next, NEW cost \in Nat, Commit(s, next, cost),
         next.mem \in SessionRec, next.writes \in Seq(Statuses),
         next.mem.items \in Item \X Item
  PROVE  /\ mem' = [mem EXCEPT ![s] = next.mem]
         /\ journal' \in [Session -> Record] /\ faults' \in Nat
<1>1. PICK k \in 0..Len(next.writes) :
        /\ mem' = [mem EXCEPT ![s] = next.mem]
        /\ journal' = [journal EXCEPT ![s] =
              IF k = 0 THEN [journal[s] EXCEPT !.behind = @ \/ next.writes # <<>>]
              ELSE [st |-> next.writes[k], names |-> Names(next.mem), behind |-> FALSE]]
        /\ faults' = faults + cost + (IF k < Len(next.writes) THEN 1 ELSE 0)
  BY DEF Commit
<1>2. Names(next.mem) \in SUBSET Token
  BY DEF Names, Item
<1>3. journal \in [Session -> Record] /\ faults \in Nat
  BY DEF TypeOK, Record
<1>4. k # 0 => next.writes[k] \in Statuses
  BY <1>1
<1>5. [journal[s] EXCEPT !.behind = @ \/ next.writes # <<>>] \in Record
  BY <1>3 DEF Record
<1>6. k # 0 => [st |-> next.writes[k], names |-> Names(next.mem), behind |-> FALSE] \in Record
  BY <1>2, <1>4 DEF Record
<1>7. journal' \in [Session -> Record]
  BY <1>1, <1>3, <1>5, <1>6
<1>. QED BY <1>1, <1>3, <1>7

\* One session steps, and with it at most one transaction is left undecided,
\* which ends the session.
LEMMA StepKeeps ==
  ASSUME IInv, NEW s \in Session, mem[s].step # "ended", NEW m,
         mem' = [mem EXCEPT ![s] = m], SessionOK(nft', legacy, s, m), legacy' = legacy,
         Ledger(nft'), Grows(nft, nft', {s}),
         \/ flying' = flying
         \/ \E tx \in Tx : /\ tx.by = s /\ Safe(nft', tx) /\ m.step = "ended"
                           /\ flying' = flying \cup {tx},
         index' \in [Token -> [at : Places, trait : Edition]], IndexKnows',
         journal' \in [Session -> Record], disturbed' \in BOOLEAN, faults' \in Nat
  PROVE  IInv'
<1>1. mem \in [Session -> SessionRec] /\ m \in SessionRec
  BY DEF IInv, TypeOK, SessionRec, SessionOK
<1>2. mem' \in [Session -> SessionRec] /\ mem'[s] = m /\ \A r \in Session : r # s => mem'[r] = mem[r]
  BY <1>1
<1>3. Sessions'
  <2>1. ASSUME NEW r \in Session, r # s PROVE SessionOK(nft', legacy, r, mem'[r])
    BY <1>2, <2>1, SessionIsStable DEF IInv, Sessions
  <2>. QED BY <1>2, <2>1 DEF Sessions
<1>4. flying \in SUBSET Tx /\ flying' \in SUBSET Tx
  BY DEF IInv, TypeOK
<1>5. \A tx \in flying : tx.by \in Session /\ tx.by # s
  BY <1>4 DEF IInv, Undecided, Tx
<1>6. \A tx \in flying : mem'[tx.by].step = "ended" /\ Safe(nft', tx)
  <2>1. TAKE tx \in flying
  <2>2. Safe(nft, tx) /\ mem[tx.by].step = "ended" /\ tx \in Tx
    BY <1>4 DEF IInv, Undecided
  <2>. QED BY <1>2, <1>5, <2>2, SafeIsStable
<1>7. Undecided'
  <2>1. CASE flying' = flying
    BY <1>6, <2>1 DEF IInv, Undecided
  <2>2. CASE \E tx \in Tx : /\ tx.by = s /\ Safe(nft', tx) /\ m.step = "ended"
                           /\ flying' = flying \cup {tx}
    BY <1>2, <1>5, <1>6, <2>2 DEF IInv, Undecided
  <2>. QED BY <2>1, <2>2
<1>8. TypeOK'
  <2>1. legacy' \in SUBSET Edition
    BY DEF IInv, TypeOK
  <2>2. nft' \in [Token -> TokenState]
    BY DEF Ledger
  <2>. QED BY ONLY <1>2, <1>4, <2>1, <2>2, index' \in [Token -> [at : Places, trait : Edition]],
              journal' \in [Session -> Record], disturbed' \in BOOLEAN, faults' \in Nat
           DEF TypeOK, TokenState, SessionRec, Record
<1>. QED BY <1>3, <1>7, <1>8 DEF IInv

\* The same for a step that commits.
LEMMA CommitKeeps ==
  ASSUME IInv, NEW s \in Session, Running(mem[s]), NEW next, NEW cost \in Nat,
         Commit(s, next, cost), NextOK(nft', s, next),
         legacy' = legacy, Ledger(nft'), Grows(nft, nft', {s}),
         \/ flying' = flying
         \/ \E tx \in Tx : /\ tx.by = s /\ Safe(nft', tx) /\ next.mem.step = "ended"
                           /\ flying' = flying \cup {tx},
         index' \in [Token -> [at : Places, trait : Edition]], IndexKnows',
         disturbed' \in BOOLEAN
  PROVE  IInv'
<1>1. /\ next.mem \in SessionRec /\ next.writes \in Seq(Statuses)
      /\ SessionOK(nft', legacy, s, next.mem) /\ next.mem.items \in Item \X Item
  BY DEF NextOK, SessionOK
<1>2. /\ mem' = [mem EXCEPT ![s] = next.mem]
      /\ journal' \in [Session -> Record] /\ faults' \in Nat
  BY <1>1, CommitIs DEF IInv
<1>3. mem[s].step # "ended"
  BY DEF Running
<1>. QED BY <1>1, <1>2, <1>3, StepKeeps

-----------------------------------------------------------------------------
(* The steps of a session.                                                 *)

LEMMA QuietLanding ==
  ASSUME Ledger(nft), NEW tx \in Tx, tx.op # "burn", Lands(tx)
  PROVE  Grows(nft, nft', {})
<1>1. tx.op \in {"mint", "modify", "offer"} /\ tx.tok \in Token
  BY DEF Tx
<1>2. \A t \in Token : /\ nft'[t].by = nft[t].by
                       /\ nft[t].at # "none" => nft'[t].at = nft[t].at
  BY <1>1, LandsChanges DEF Ledger
<1>. QED BY <1>2, TokenIsPair DEF Grows, Burner, LiveIn

LEMMA RunningIs ==
  ASSUME IInv, NEW s \in Session, Running(mem[s])
  PROVE  /\ From(nft, s, mem[s]) /\ StepOK(nft, legacy, s, mem[s])
         /\ SessionOK(nft, legacy, s, mem[s])
         /\ \A i \in 1..2 : /\ mem[s].items[i] \in Item
                            /\ mem[s].items[i].tok \in Token
                            /\ mem[s].items[i].tok[1] \in Edition
                            /\ Replacement(mem[s].items[i].tok, s) \in Token
<1>1. SessionOK(nft, legacy, s, mem[s])
  BY DEF IInv, Sessions
<1>2. ItemsOK(nft, legacy, s, mem[s]) /\ StepOK(nft, legacy, s, mem[s]) /\ mem[s] \in SessionRec
  BY <1>1 DEF SessionOK
<1>3. From(nft, s, mem[s])
  BY <1>2 DEF From, ItemsOK
<1>4. \A i \in 1..2 : mem[s].items[i] \in Item
  BY <1>2 DEF ItemsOK
<1>. QED BY <1>1, <1>2, <1>3, <1>4, TokenIsPair DEF Item, Replacement

\* A transaction that burns nothing leaves its own session where it stood.
LEMMA QuietStep ==
  ASSUME IInv, NEW s \in Session, Running(mem[s]), NEW tx \in Tx, tx.by = s, Safe(nft, tx),
         tx.op # "burn", NEW out \in Outcomes, Outcome(tx, out)
  PROVE  /\ Ledger(nft') /\ Grows(nft, nft', {s})
         /\ From(nft', s, mem[s]) /\ StepOK(nft', legacy, s, mem[s])
         /\ out = "unknown" => flying' = flying \cup {tx} /\ Safe(nft', tx)
         /\ out # "unknown" => flying' = flying
         /\ out = "done" => Lands(tx)
<1>1. /\ Ledger(nft) /\ SessionOK(nft, legacy, s, mem[s]) /\ From(nft, s, mem[s])
  BY RunningIs DEF IInv
<1>2. /\ Ledger(nft') /\ Grows(nft, nft', {s})
      /\ out = "done" => flying' = flying /\ Lands(tx)
      /\ out = "refused" => flying' = flying /\ nft' = nft
      /\ out = "unknown" => flying' = flying \cup {tx} /\ nft' = nft
  BY <1>1, OutcomeIsSafe
<1>3. out \in {"done", "refused", "unknown"}
  BY DEF Outcomes
<1>4. Grows(nft, nft', {})
  BY <1>1, <1>2, <1>3, QuietLanding, GrowsByNothing
<1>5. SessionOK(nft', legacy, s, mem[s])
  BY <1>1, <1>4, SessionIsStable
<1>6. ItemsOK(nft', legacy, s, mem[s]) /\ StepOK(nft', legacy, s, mem[s])
  BY <1>5 DEF SessionOK
<1>7. From(nft', s, mem[s])
  BY <1>1, <1>6 DEF From
<1>. QED BY <1>2, <1>3, <1>6, <1>7

\* What session s does with the transaction tx, when out is what comes of it.
Stepped(s, tx, out) ==
    /\ tx \in Tx /\ tx.by = s /\ Safe(nft, tx) /\ out \in Outcomes /\ Outcome(tx, out)
    /\ Ledger(nft') /\ Grows(nft, nft', {s})
    /\ out = "unknown" => flying' = flying \cup {tx} /\ Safe(nft', tx)
    /\ out # "unknown" => flying' = flying

\* And what it goes on with.
GoesOn(s, next) == NextOK(nft', s, next) /\ \E cost \in Nat : Commit(s, next, cost)

LEMMA StepGoesOn ==
  ASSUME IInv, NEW s \in Session, Running(mem[s]), NEW tx, NEW out, Stepped(s, tx, out),
         NEW next, GoesOn(s, next), out = "unknown" => next.mem.step = "ended",
         legacy' = legacy, index' \in [Token -> [at : Places, trait : Edition]], IndexKnows',
         disturbed' \in BOOLEAN
  PROVE  IInv'
<1>1. PICK cost \in Nat : Commit(s, next, cost)
  BY DEF GoesOn
<1>2. \/ flying' = flying
      \/ \E ty \in Tx : /\ ty.by = s /\ Safe(nft', ty) /\ next.mem.step = "ended"
                        /\ flying' = flying \cup {ty}
  BY DEF Stepped
<1>. QED BY <1>1, <1>2, CommitKeeps DEF Stepped, GoesOn

MintTx(s) ==
    [op |-> "mint", tok |-> Replacement(Now(s).tok, s), trait |-> Now(s).now, by |-> s]
AfterMint(s) == [mem[s] EXCEPT !.items[mem[s].at].new = Replacement(Now(s).tok, s)]

LEMMA MintOneStep ==
  ASSUME IInv, NEW s \in Session, MintOne(s)
  PROVE  \E out \in Outcomes :
         /\ Stepped(s, MintTx(s), out) /\ mem[s].step = "minting"
         /\ disturbed' = (disturbed \/ out = "unknown") /\ UNCHANGED <<legacy, index>>
         /\ From(nft', s, mem[s]) /\ StepOK(nft', legacy, s, mem[s])
         /\ out = "done" => /\ GoesOn(s, GoOn(s, AfterMint(s))) /\ Lands(MintTx(s))
                            /\ From(nft', s, AfterMint(s)) /\ UpTo(nft', s, AfterMint(s))
         /\ out = "refused" => GoesOn(s, UnwindAll(s, "failed_minting"))
         /\ out = "unknown" => GoesOn(s, Fail(mem[s], <<>>))
<1> DEFINE m   == mem[s]
           a   == m.at
           new == Replacement(Now(s).tok, s)
           tx  == MintTx(s)
           m2  == AfterMint(s)
<1>1. m.step = "minting" /\ Running(m)
  BY DEF MintOne, Running
<1>2. /\ From(nft, s, m) /\ StepOK(nft, legacy, s, m)
      /\ \A i \in 1..2 : /\ m.items[i] \in Item /\ m.items[i].tok \in Token
                         /\ m.items[i].tok[1] \in Edition
                         /\ Replacement(m.items[i].tok, s) \in Token
  BY <1>1, RunningIs
<1>3. a \in Legs(legacy, m) /\ a \in 1..2 /\ Now(s) = m.items[a]
  BY <1>1, <1>2 DEF StepOK, Legs, Now
<1>4. tx \in Tx /\ tx.by = s /\ tx.op = "mint" /\ tx.tok = new /\ new \in Token /\ new[2] = s
      /\ new = <<m.items[a].tok[1], s>>
  BY <1>2, <1>3 DEF Tx, Item, Replacement, MintTx
<1>5. Safe(nft, tx)
  BY <1>4 DEF Safe
<1>6. PICK out \in Outcomes :
        /\ Outcome(tx, out)
        /\ Commit(s, CASE out = "done"    -> GoOn(s, m2)
                       [] out = "refused" -> UnwindAll(s, "failed_minting")
                       [] out = "unknown" -> Fail(m, <<>>), Cost(tx, out))
        /\ disturbed' = (disturbed \/ out = "unknown")
        /\ UNCHANGED <<legacy, index>>
  BY DEF MintOne, MintTx, AfterMint
<1>7. Cost(tx, out) \in Nat
  BY DEF Cost
<1> HIDE DEF tx, m2
<1>8. /\ Ledger(nft') /\ Grows(nft, nft', {s})
      /\ From(nft', s, m) /\ StepOK(nft', legacy, s, m)
      /\ out = "unknown" => flying' = flying \cup {tx} /\ Safe(nft', tx)
      /\ out # "unknown" => flying' = flying
      /\ out = "done" => Lands(tx)
  BY <1>1, <1>4, <1>5, <1>6, QuietStep
<1>9. Stepped(s, tx, out)
  BY <1>4, <1>5, <1>6, <1>8 DEF Stepped
<1>10. ASSUME out = "done"
       PROVE  GoesOn(s, GoOn(s, m2)) /\ From(nft', s, m2) /\ UpTo(nft', s, m2)
  <2> DEFINE e == [m.items[a] EXCEPT !.new = new]
  <2>1. e \in Item /\ e.tok = m.items[a].tok /\ e.new = new
    BY <1>2, <1>3, <1>4 DEF Item
  <2>2. m2 = [m EXCEPT !.items = [m.items EXCEPT ![a] = e]]
    BY DEF m2, AfterMint
  <2>3. m \in SessionRec /\ m.items \in Item \X Item
    BY <1>2 DEF From
  <2>4. /\ m2.step = m.step /\ m2.at = a /\ m2.items = [m.items EXCEPT ![a] = e]
        /\ m2 \in SessionRec
    BY <1>3, <2>1, <2>2, <2>3, ItemsExcept DEF SessionRec
  <2> HIDE DEF e
  <2>5. /\ m2.items \in Item \X Item
        /\ \A i \in 1..2 : m2.items[i] = IF i = a THEN e ELSE m.items[i]
        /\ \A i \in 1..2 : m2.items[i].tok = m.items[i].tok
    BY <1>3, <2>1, <2>3, <2>4, ItemsExcept
  <2>6. LiveIn(nft', new)
    <3>1. nft \in [Token -> TokenState] /\ Lands(tx)
      BY <1>8, <1>10 DEF IInv, Ledger
    <3>2. nft'[tx.tok].at = "issuer"
      BY <1>4, <3>1, LandsChanges
    <3>. QED BY <1>4, <3>2 DEF LiveIn
  <2>7. ItemOK(nft', legacy, s, e)
    BY <1>2, <1>3, <1>4, <1>8, <2>1, <2>6 DEF ItemOK, Legs, From, ItemsOK
  <2>8. ItemsOK(nft', legacy, s, m2)
    BY <1>8, <2>5, <2>7 DEF ItemsOK, From
  <2>9. From(nft', s, m2)
    BY <1>2, <2>4, <2>5, <2>8 DEF From
  <2>10. Legs(legacy, m2) = Legs(legacy, m)
    BY <2>5 DEF Legs
  <2>11. NoToken # new
    BY <1>4, TokenIsPair
  <2>12. UpTo(nft', s, m2)
    <3>1. \A i \in Legs(legacy, m) : i \in 1..2 /\ (i <= a => i < a \/ i = a)
      BY <1>3 DEF Legs
    <3>2. \A i \in Legs(legacy, m2) : i <= m2.at => Minted(m2.items[i])
      BY <1>1, <1>8, <2>1, <2>4, <2>5, <2>10, <2>11, <3>1 DEF StepOK, Minted
    <3>. QED BY <1>1, <1>8, <2>4, <3>2 DEF UpTo, StepOK
  <2>13. NextOK(nft', s, GoOn(s, m2))
    BY <1>1, <2>4, <2>9, <2>12, GoOnIsOK
  <2>14. Commit(s, GoOn(s, m2), Cost(tx, out))
    BY <1>6, <1>10
  <2>. QED BY <1>7, <2>9, <2>12, <2>13, <2>14 DEF GoesOn
<1>11. ASSUME out = "refused" PROVE GoesOn(s, UnwindAll(s, "failed_minting"))
  <2>1. \A i \in Legs(legacy, m) : ~Gone(nft', s, m.items[i])
    BY <1>1, <1>2, <1>8 DEF StepOK, Untouched, Gone, Legs
  <2>2. NextOK(nft', s, UnwindAll(s, "failed_minting"))
    BY <1>8, <2>1, UnwindAllIsOK DEF Unwound
  <2>3. Commit(s, UnwindAll(s, "failed_minting"), Cost(tx, out))
    BY <1>6, <1>11
  <2>. QED BY <1>7, <2>2, <2>3 DEF GoesOn
<1>12. ASSUME out = "unknown" PROVE GoesOn(s, Fail(m, <<>>))
  <2>1. NextOK(nft', s, Fail(m, <<>>))
    BY <1>8, FailIsOK, WritesAreStatuses DEF From, ItemsOK
  <2>2. Commit(s, Fail(m, <<>>), Cost(tx, out))
    BY <1>6, <1>12
  <2>. QED BY <1>7, <2>1, <2>2 DEF GoesOn
<1>. QED BY <1>1, <1>6, <1>8, <1>9, <1>10, <1>11, <1>12 DEF tx, m2

LEMMA MintOneKeeps ==
  ASSUME IInv, NEW s \in Session, MintOne(s)
  PROVE  IInv'
<1> DEFINE m == mem[s]
<1>1. PICK out \in Outcomes :
         /\ Stepped(s, MintTx(s), out) /\ m.step = "minting"
         /\ disturbed' = (disturbed \/ out = "unknown") /\ UNCHANGED <<legacy, index>>
         /\ From(nft', s, m)
         /\ out = "done" => GoesOn(s, GoOn(s, AfterMint(s)))
         /\ out = "refused" => GoesOn(s, UnwindAll(s, "failed_minting"))
         /\ out = "unknown" => GoesOn(s, Fail(m, <<>>))
  BY MintOneStep
<1>2. Running(m) /\ legacy' = legacy /\ disturbed' \in BOOLEAN
  BY <1>1 DEF Running
<1>3. index' \in [Token -> [at : Places, trait : Edition]] /\ IndexKnows'
  BY <1>1, IndexIsStable DEF IInv, TypeOK, Stepped
<1>4. Fail(m, <<>>).mem.step = "ended"
  BY <1>1, FailIsOK, WritesAreStatuses DEF From, ItemsOK
<1>5. CASE out = "done"
  BY <1>1, <1>2, <1>3, <1>5, StepGoesOn
<1>6. CASE out = "refused"
  BY <1>1, <1>2, <1>3, <1>6, StepGoesOn
<1>7. CASE out = "unknown"
  BY <1>1, <1>2, <1>3, <1>4, <1>7, StepGoesOn
<1>. QED BY <1>5, <1>6, <1>7 DEF Outcomes

ModifyTx(s) == [op |-> "modify", tok |-> Now(s).tok, trait |-> Now(s).now, by |-> s]
AfterModify(s) == [mem[s] EXCEPT !.items[mem[s].at].done = TRUE]

LEMMA ModifyOneStep ==
  ASSUME IInv, NEW s \in Session, ModifyOne(s)
  PROVE  \E out \in Outcomes :
         /\ Stepped(s, ModifyTx(s), out) /\ mem[s].step = "modifying"
         /\ disturbed' = (disturbed \/ out = "unknown") /\ UNCHANGED <<legacy, index>>
         /\ From(nft', s, mem[s]) /\ StepOK(nft', legacy, s, mem[s])
         /\ out = "done" => /\ GoesOn(s, GoOn(s, AfterModify(s))) /\ Lands(ModifyTx(s))
                            /\ From(nft', s, AfterModify(s)) /\ UpTo(nft', s, AfterModify(s))
         /\ out = "refused" => GoesOn(s, UnwindAll(s, "failed_modifying"))
         /\ out = "unknown" => GoesOn(s, Fail(mem[s], <<>>))
<1> DEFINE m   == mem[s]
           a   == m.at
           tx  == ModifyTx(s)
           m2  == AfterModify(s)
<1>1. m.step = "modifying" /\ Running(m)
  BY DEF ModifyOne, Running
<1>2. /\ From(nft, s, m) /\ StepOK(nft, legacy, s, m)
      /\ \A i \in 1..2 : /\ m.items[i] \in Item /\ m.items[i].tok \in Token
                         /\ m.items[i].tok[1] \in Edition
  BY <1>1, RunningIs
<1>3. a \in 1..2 /\ Now(s) = m.items[a]
  BY <1>1, <1>2 DEF StepOK, Now
<1>4. tx \in Tx /\ tx.by = s /\ tx.op = "modify" /\ Safe(nft, tx)
  BY <1>2, <1>3 DEF Tx, Item, Safe, ModifyTx
<1>5. PICK out \in Outcomes :
        /\ Outcome(tx, out)
        /\ Commit(s, CASE out = "done"    -> GoOn(s, m2)
                       [] out = "refused" -> UnwindAll(s, "failed_modifying")
                       [] out = "unknown" -> Fail(m, <<>>), Cost(tx, out))
        /\ disturbed' = (disturbed \/ out = "unknown")
        /\ UNCHANGED <<legacy, index>>
  BY DEF ModifyOne, ModifyTx, AfterModify
<1>6. Cost(tx, out) \in Nat
  BY DEF Cost
<1> HIDE DEF tx, m2
<1>7. /\ Ledger(nft') /\ Grows(nft, nft', {s})
      /\ From(nft', s, m) /\ StepOK(nft', legacy, s, m)
      /\ out = "unknown" => flying' = flying \cup {tx} /\ Safe(nft', tx)
      /\ out # "unknown" => flying' = flying
      /\ out = "done" => Lands(tx)
  BY <1>1, <1>4, <1>5, QuietStep
<1>8. Stepped(s, tx, out)
  BY <1>4, <1>5, <1>7 DEF Stepped
<1>9. ASSUME out = "done"
      PROVE  GoesOn(s, GoOn(s, m2)) /\ From(nft', s, m2) /\ UpTo(nft', s, m2)
  <2> DEFINE e == [m.items[a] EXCEPT !.done = TRUE]
  <2>1. e \in Item /\ e.tok = m.items[a].tok /\ e.new = m.items[a].new
    BY <1>2, <1>3 DEF Item
  <2>2. m2 = [m EXCEPT !.items = [m.items EXCEPT ![a] = e]]
    BY DEF m2, AfterModify
  <2>3. m \in SessionRec /\ m.items \in Item \X Item
    BY <1>2 DEF From
  <2>4. /\ m2.step = m.step /\ m2.at = a /\ m2.items = [m.items EXCEPT ![a] = e]
        /\ m2 \in SessionRec
    BY <1>3, <2>1, <2>2, <2>3, ItemsExcept DEF SessionRec
  <2> HIDE DEF e
  <2>5. /\ m2.items \in Item \X Item
        /\ \A i \in 1..2 : m2.items[i].tok = m.items[i].tok /\ m2.items[i].new = m.items[i].new
    BY <1>3, <2>1, <2>3, <2>4, ItemsExcept
  <2>6. ItemsOK(nft', legacy, s, m2)
    BY <1>7, <2>5 DEF ItemsOK, ItemOK, Minted, From
  <2>7. From(nft', s, m2)
    BY <1>2, <2>4, <2>5, <2>6 DEF From
  <2>8. Legs(legacy, m2) = Legs(legacy, m) /\ \A i \in Legs(legacy, m) : i \in 1..2
    BY <2>5 DEF Legs
  <2>9. UpTo(nft', s, m2)
    BY <1>1, <1>7, <2>4, <2>5, <2>8 DEF UpTo, StepOK, Minted
  <2>10. NextOK(nft', s, GoOn(s, m2))
    BY <1>1, <2>4, <2>7, <2>9, GoOnIsOK
  <2>11. Commit(s, GoOn(s, m2), Cost(tx, out))
    BY <1>5, <1>9
  <2>. QED BY <1>6, <2>7, <2>9, <2>10, <2>11 DEF GoesOn
<1>10. ASSUME out = "refused" PROVE GoesOn(s, UnwindAll(s, "failed_modifying"))
  <2>1. \A i \in Legs(legacy, m) : ~Gone(nft', s, m.items[i])
    BY <1>1, <1>2, <1>7 DEF StepOK, Untouched, Gone, Legs
  <2>2. NextOK(nft', s, UnwindAll(s, "failed_modifying"))
    BY <1>7, <2>1, UnwindAllIsOK DEF Unwound
  <2>3. Commit(s, UnwindAll(s, "failed_modifying"), Cost(tx, out))
    BY <1>5, <1>10
  <2>. QED BY <1>6, <2>2, <2>3 DEF GoesOn
<1>11. ASSUME out = "unknown" PROVE GoesOn(s, Fail(m, <<>>))
  <2>1. NextOK(nft', s, Fail(m, <<>>))
    BY <1>7, FailIsOK, WritesAreStatuses DEF From, ItemsOK
  <2>2. Commit(s, Fail(m, <<>>), Cost(tx, out))
    BY <1>5, <1>11
  <2>. QED BY <1>6, <2>1, <2>2 DEF GoesOn
<1>. QED BY <1>1, <1>5, <1>7, <1>8, <1>9, <1>10, <1>11 DEF tx, m2

LEMMA ModifyOneKeeps ==
  ASSUME IInv, NEW s \in Session, ModifyOne(s)
  PROVE  IInv'
<1> DEFINE m == mem[s]
<1>1. PICK out \in Outcomes :
         /\ Stepped(s, ModifyTx(s), out) /\ m.step = "modifying"
         /\ disturbed' = (disturbed \/ out = "unknown") /\ UNCHANGED <<legacy, index>>
         /\ From(nft', s, m)
         /\ out = "done" => GoesOn(s, GoOn(s, AfterModify(s)))
         /\ out = "refused" => GoesOn(s, UnwindAll(s, "failed_modifying"))
         /\ out = "unknown" => GoesOn(s, Fail(m, <<>>))
  BY ModifyOneStep
<1>2. Running(m) /\ legacy' = legacy /\ disturbed' \in BOOLEAN
  BY <1>1 DEF Running
<1>3. index' \in [Token -> [at : Places, trait : Edition]] /\ IndexKnows'
  BY <1>1, IndexIsStable DEF IInv, TypeOK, Stepped
<1>4. Fail(m, <<>>).mem.step = "ended"
  BY <1>1, FailIsOK, WritesAreStatuses DEF From, ItemsOK
<1>5. CASE out = "done"
  BY <1>1, <1>2, <1>3, <1>5, StepGoesOn
<1>6. CASE out = "refused"
  BY <1>1, <1>2, <1>3, <1>6, StepGoesOn
<1>7. CASE out = "unknown"
  BY <1>1, <1>2, <1>3, <1>4, <1>7, StepGoesOn
<1>. QED BY <1>5, <1>6, <1>7 DEF Outcomes

\* A row that becomes burned is that of a token that was seen and is gone.
LEMMA HealIsTrue ==
  ASSUME IInv, NEW gone \in SUBSET Token, Heal(gone), nft' = nft,
         \A t \in gone : SeenAbsent(t) /\ nft[t].at # "none"
  PROVE  index' \in [Token -> [at : Places, trait : Edition]] /\ IndexKnows'
<1>1. \A t \in Token : nft[t].at \in Places /\ index[t] \in [at : Places, trait : Edition]
  BY DEF IInv, TypeOK
<1>2. \A t \in gone : nft[t].at = "burned"
  BY <1>1 DEF SeenAbsent, Live, Places
<1>3. /\ \A t \in gone : index'[t] = [at |-> "burned", trait |-> index[t].trait]
      /\ \A t \in Token \ gone : index'[t] = index[t]
  BY DEF Heal, Row
<1>4. ASSUME NEW t \in Token
      PROVE  /\ index'[t] \in [at : Places, trait : Edition]
             /\ index'[t].at = IF t \in gone THEN "burned" ELSE index[t].at
  <2>1. CASE t \in gone
    <3>1. index[t].trait \in Edition /\ index'[t] = [at |-> "burned", trait |-> index[t].trait]
      BY <1>1, <1>3, <2>1
    <3>. QED BY <2>1, <3>1 DEF Places
  <2>2. CASE t \notin gone
    BY <1>1, <1>3, <2>2
  <2>. QED BY <2>1, <2>2
<1>5. \A t \in Token : index'[t].at = IF t \in gone THEN "burned" ELSE index[t].at
  BY <1>4
<1>6. index' \in [Token -> [at : Places, trait : Edition]]
  BY <1>4 DEF Heal
<1>7. IndexKnows'
  BY <1>2, <1>5 DEF IInv, IndexKnows, BurialsAreTrue
<1>. QED BY <1>6, <1>7

LEMMA BurnStaleKeeps ==
  ASSUME IInv, NEW s \in Session, BurnStale(s)
  PROVE  IInv'
<1> DEFINE m == mem[s]
<1>1. m.step = "burning" /\ Running(m) /\ UNCHANGED <<legacy, nft, flying>>
  BY DEF BurnStale, Running
<1>2. /\ From(nft, s, m) /\ StepOK(nft, legacy, s, m)
      /\ \A i \in 1..2 : m.items[i].tok \in Token
  BY <1>1, RunningIs
<1>3. m.at \in 1..2 /\ Now(s) = m.items[m.at]
  BY <1>1, <1>2 DEF StepOK, Legs, Now
<1>4. {Now(s).tok} \in SUBSET Token /\ nft[Now(s).tok].at # "none"
  BY <1>2, <1>3 DEF From, ItemsOK, ItemOK
<1>5. SeenAbsent(Now(s).tok) /\ Heal({Now(s).tok}) /\ Commit(s, BurnFails(s, TRUE), 0)
      /\ disturbed' \in BOOLEAN
  BY DEF BurnStale
<1>6. index' \in [Token -> [at : Places, trait : Edition]] /\ IndexKnows'
  BY <1>1, <1>4, <1>5, HealIsTrue
<1>7. NextOK(nft', s, BurnFails(s, TRUE))
  BY <1>1, <1>2, BurnFailsIsOK
<1>8. Ledger(nft') /\ Grows(nft, nft', {s})
  BY <1>1, GrowsByNothing DEF IInv
<1>. QED BY <1>1, <1>5, <1>6, <1>7, <1>8, CommitKeeps

\* A burn's two index writes, both, one or none of them, say what is true.
LEMMA PersistedIsTrue ==
  ASSUME IInv, NEW e \in Item, NEW commits \in 0..2, index' = Persisted(e, commits),
         NEW S, Grows(nft, nft', S), nft'[e.tok].at = "burned", nft'[e.new].at # "none"
  PROVE  index' \in [Token -> [at : Places, trait : Edition]] /\ IndexKnows'
<1>1. \A t \in Token : index[t].at \in Places /\ index[t].trait \in Edition
  BY DEF IInv, TypeOK
<1>2. ASSUME NEW t \in Token, NEW at \in Places, NEW trait \in Edition
      PROVE  /\ Row(t, at, trait) \in [at : Places, trait : Edition]
             /\ Row(t, at, trait).at = IF index[t].at = "burned" THEN "burned" ELSE at
  BY DEF Row, Places
<1>3. "burned" \in Places /\ "issuer" \in Places /\ e.now \in Edition
  BY DEF Places, Item
<1>4. ASSUME NEW t \in Token
      PROVE  /\ index'[t] \in [at : Places, trait : Edition]
             /\ \/ index'[t].at = index[t].at
                \/ t = e.tok /\ index'[t].at = "burned"
                \/ t = e.new /\ index'[t].at \in {"issuer", index[t].at}
  <2>1. index'[t] = IF t = e.tok /\ commits > 0 THEN Row(t, "burned", index[t].trait)
                    ELSE IF t = e.new /\ commits = 2 THEN Row(t, "issuer", e.now)
                    ELSE index[t]
    BY DEF Persisted
  <2>2. CASE t = e.tok /\ commits > 0
    BY <1>1, <1>2, <1>3, <2>1, <2>2
  <2>3. CASE ~(t = e.tok /\ commits > 0) /\ t = e.new /\ commits = 2
    BY <1>1, <1>2, <1>3, <2>1, <2>3
  <2>4. CASE ~(t = e.tok /\ commits > 0) /\ ~(t = e.new /\ commits = 2)
    BY <2>1, <2>4 DEF IInv, TypeOK
  <2>. QED BY <2>2, <2>3, <2>4
<1>5. index' \in [Token -> [at : Places, trait : Edition]]
  BY <1>4 DEF Persisted
<1>6. \A t \in Token : /\ index[t].at = "burned" => nft'[t].at = "burned"
                       /\ index[t].at # "none" => nft'[t].at # "none"
  BY DEF IInv, IndexKnows, BurialsAreTrue, Grows
<1>7. IndexKnows'
  <2>1. ASSUME NEW t \in Token
        PROVE  /\ index'[t].at = "burned" => nft'[t].at = "burned"
               /\ index'[t].at # "none" => nft'[t].at # "none"
    BY <1>4, <1>6
  <2>. QED BY <2>1 DEF IndexKnows, BurialsAreTrue
<1>. QED BY <1>5, <1>7

BurnTx(s) == [op |-> "burn", tok |-> Now(s).tok, trait |-> Now(s).was, by |-> s]

LEMMA BurnOneStep ==
  ASSUME IInv, NEW s \in Session, BurnOne(s)
  PROVE  \E out \in Outcomes :
         /\ Stepped(s, BurnTx(s), out) /\ mem[s].step = "burning" /\ legacy' = legacy
         /\ disturbed' = (disturbed \/ out = "unknown"
                          \/ (out = "refused" /\ BurnFails(s, FALSE).mem.why \in Partial))
         /\ index' \in [Token -> [at : Places, trait : Edition]] /\ IndexKnows'
         /\ From(nft', s, mem[s])
         /\ out = "done" => /\ GoesOn(s, GoOn(s, mem[s])) /\ Lands(BurnTx(s)) /\ UpTo(nft', s, mem[s])
                            /\ \E commits \in 0..2 : index' = Persisted(Now(s), commits)
         /\ out = "refused" => GoesOn(s, BurnFails(s, FALSE))
         /\ out = "unknown" => GoesOn(s, Fail(mem[s], <<>>))
         /\ out # "done" => nft' = nft /\ index' = index
<1> DEFINE m   == mem[s]
           a   == m.at
           e   == m.items[a]
           tx  == BurnTx(s)
<1>1. m.step = "burning" /\ Running(m)
  BY DEF BurnOne, Running
<1>2. /\ From(nft, s, m) /\ StepOK(nft, legacy, s, m)
      /\ \A i \in 1..2 : /\ m.items[i] \in Item /\ m.items[i].tok \in Token
                         /\ m.items[i].tok[1] \in Edition
                         /\ Replacement(m.items[i].tok, s) \in Token
      /\ Ledger(nft)
  BY <1>1, RunningIs DEF IInv
<1>3. /\ a \in 1..2 /\ a \in Legs(legacy, m) /\ Now(s) = e /\ e \in Item
      /\ Minted(e) /\ e.new = <<e.tok[1], s>> /\ LiveIn(nft, e.new) /\ e.new \in Token
      /\ e.tok[2] = First
  BY <1>1, <1>2 DEF StepOK, Legs, Leg, Now, From, ItemsOK, ItemOK, Replacement
<1>4. tx \in Tx /\ tx.by = s /\ tx.op = "burn" /\ tx.tok = e.tok
  BY <1>2, <1>3 DEF Tx, Item, BurnTx
<1>5. Safe(nft, tx)
  BY <1>3, <1>4 DEF Safe
<1>6. PICK out \in Outcomes, commits \in 0..2 :
        /\ Outcome(tx, out)
        /\ index' = IF out = "done" THEN Persisted(Now(s), commits) ELSE index
        /\ Commit(s, CASE out = "done"    -> GoOn(s, m)
                       [] out = "refused" -> BurnFails(s, FALSE)
                       [] out = "unknown" -> Fail(m, <<>>),
                  Cost(tx, out) + (IF commits = 2 THEN 0 ELSE 1))
        /\ disturbed' = (disturbed \/ out = "unknown"
                         \/ (out = "refused" /\ BurnFails(s, FALSE).mem.why \in Partial))
        /\ UNCHANGED legacy
  BY DEF BurnOne, BurnTx
<1> DEFINE cost == Cost(tx, out) + (IF commits = 2 THEN 0 ELSE 1)
<1>7. cost \in Nat
  BY DEF Cost
<1> HIDE DEF tx, cost
<1>8. /\ Ledger(nft') /\ Grows(nft, nft', {s})
      /\ out = "done" => flying' = flying /\ Lands(tx)
      /\ out = "refused" => flying' = flying /\ nft' = nft
      /\ out = "unknown" => flying' = flying \cup {tx} /\ nft' = nft
  BY <1>2, <1>4, <1>5, <1>6, OutcomeIsSafe
<1>9. Stepped(s, tx, out)
  BY <1>4, <1>5, <1>6, <1>8 DEF Stepped, Outcomes
<1>10. ASSUME out = "done"
       PROVE  /\ GoesOn(s, GoOn(s, m)) /\ From(nft', s, m) /\ UpTo(nft', s, m)
              /\ index' = Persisted(Now(s), commits)
              /\ index' \in [Token -> [at : Places, trait : Edition]] /\ IndexKnows'
  <2>1. /\ nft'[e.tok].at = "burned" /\ nft'[e.tok].by = s
        /\ \A t \in Token : t # e.tok => nft'[t] = nft[t]
    BY SMTT(30), ZenonT(30), <1>2, <1>4, <1>8, <1>10, LandsChanges DEF Ledger
  <2>2. e.tok = <<e.tok[1], First>> /\ e.new # e.tok
    BY <1>2, <1>3, TokenIsPair
  <2>3. nft'[e.new].at # "none" /\ index' = Persisted(e, commits)
    BY <1>3, <1>6, <1>10, <2>1, <2>2 DEF LiveIn
  <2>4. index' \in [Token -> [at : Places, trait : Edition]] /\ IndexKnows'
    BY <1>3, <1>8, <2>1, <2>3, PersistedIsTrue
  <2>5. ASSUME NEW i \in Legs(legacy, m)
        PROVE  Gone(nft', s, m.items[i]) <=> i = a \/ Gone(nft, s, m.items[i])
    <3>1. i \in 1..2 /\ m.items[i].tok[2] = First /\ m.items[i].tok \in Token
      BY <1>2 DEF Legs, Leg
    <3>2. m.items[i].tok = <<m.items[i].tok[1], First>>
      BY <3>1, TokenIsPair
    <3>3. i # a => m.items[i].tok # e.tok
      BY SMTT(30), ZenonT(30), <1>2, <1>3, <3>1 DEF From, ItemsOK
    <3>. QED BY <2>1, <3>1, <3>2, <3>3 DEF Gone, Burner
  <2>6. ASSUME NEW i \in 1..2
        PROVE  ItemOK(nft', legacy, s, m.items[i])
    <3>1. ItemOK(nft, legacy, s, m.items[i]) /\ m.items[i].tok \in Token
      BY <1>2 DEF From, ItemsOK
    <3>2. Minted(m.items[i]) => m.items[i].new # e.tok /\ m.items[i].new \in Token
      BY <1>2, <2>2, <3>1, TokenIsPair DEF ItemOK, Replacement
    <3>. QED BY <1>8, <2>1, <3>1, <3>2 DEF ItemOK, LiveIn, Grows
  <2>7. From(nft', s, m)
    BY <1>2, <2>6 DEF From, ItemsOK
  <2>8. UpTo(nft', s, m)
    <3>1. \A i \in Legs(legacy, m) : i \in 1..2 /\ (Gone(nft, s, m.items[i]) <=> i < a)
      BY <1>1, <1>2 DEF StepOK, Legs
    <3>2. \A i \in Legs(legacy, m) : Gone(nft', s, m.items[i]) <=> i <= a
      BY <1>3, <2>5, <3>1
    <3>. QED BY <1>1, <1>2, <3>2 DEF UpTo, StepOK
  <2>9. NextOK(nft', s, GoOn(s, m))
    BY <1>1, <2>7, <2>8, GoOnIsOK
  <2>10. Commit(s, GoOn(s, m), cost)
    BY <1>6, <1>10 DEF cost
  <2>. QED BY <1>6, <1>7, <1>10, <2>4, <2>7, <2>8, <2>9, <2>10 DEF GoesOn
<1>11. ASSUME out # "done"
       PROVE  /\ nft' = nft /\ index' = index /\ From(nft', s, m)
              /\ index' \in [Token -> [at : Places, trait : Edition]] /\ IndexKnows'
              /\ out = "refused" => GoesOn(s, BurnFails(s, FALSE))
              /\ out = "unknown" => GoesOn(s, Fail(m, <<>>))
  <2>1. nft' = nft /\ index' = index
    BY <1>6, <1>8, <1>11 DEF Outcomes
  <2>2. index' \in [Token -> [at : Places, trait : Edition]] /\ IndexKnows'
    BY <1>8, <2>1, IndexIsStable DEF IInv, TypeOK
  <2>3. ASSUME out = "refused" PROVE GoesOn(s, BurnFails(s, FALSE))
    <3>1. NextOK(nft', s, BurnFails(s, FALSE))
      BY <1>1, <1>2, <2>1, BurnFailsIsOK
    <3>2. Commit(s, BurnFails(s, FALSE), cost)
      BY <1>6, <2>3 DEF cost
    <3>. QED BY <1>7, <3>1, <3>2 DEF GoesOn
  <2>4. ASSUME out = "unknown" PROVE GoesOn(s, Fail(m, <<>>))
    <3>1. NextOK(nft', s, Fail(m, <<>>))
      BY <1>2, FailIsOK, WritesAreStatuses DEF From, ItemsOK
    <3>2. Commit(s, Fail(m, <<>>), cost)
      BY <1>6, <2>4 DEF cost
    <3>. QED BY <1>7, <3>1, <3>2 DEF GoesOn
  <2>. QED BY <1>2, <2>1, <2>2, <2>3, <2>4
<1>12. out = "done" => Lands(tx)
  BY <1>8
<1>. QED BY <1>1, <1>6, <1>10, <1>11, <1>12, <1>9 DEF tx

LEMMA BurnOneKeeps ==
  ASSUME IInv, NEW s \in Session, BurnOne(s)
  PROVE  IInv'
<1> DEFINE m == mem[s]
<1>1. PICK out \in Outcomes :
         /\ Stepped(s, BurnTx(s), out) /\ m.step = "burning" /\ legacy' = legacy
         /\ disturbed' = (disturbed \/ out = "unknown"
                          \/ (out = "refused" /\ BurnFails(s, FALSE).mem.why \in Partial))
         /\ index' \in [Token -> [at : Places, trait : Edition]] /\ IndexKnows'
         /\ From(nft', s, m)
         /\ out = "done" => GoesOn(s, GoOn(s, m))
         /\ out = "refused" => GoesOn(s, BurnFails(s, FALSE))
         /\ out = "unknown" => GoesOn(s, Fail(m, <<>>))
  BY BurnOneStep
<1>2. Running(m) /\ disturbed' \in BOOLEAN
  BY <1>1 DEF Running
<1>4. Fail(m, <<>>).mem.step = "ended"
  BY <1>1, FailIsOK, WritesAreStatuses DEF From, ItemsOK
<1>5. CASE out = "done"
  BY <1>1, <1>2, <1>5, StepGoesOn
<1>6. CASE out = "refused"
  BY <1>1, <1>2, <1>6, StepGoesOn
<1>7. CASE out = "unknown"
  BY <1>1, <1>2, <1>4, <1>7, StepGoesOn
<1>. QED BY <1>5, <1>6, <1>7 DEF Outcomes

\* An offer is made of the replacement of what this session burned.
LEMMA OfferIsSafe ==
  ASSUME IInv, NEW s \in Session, Running(mem[s]), mem[s].at \in Legs(legacy, mem[s]),
         Minted(mem[s].items[mem[s].at]), Gone(nft, s, mem[s].items[mem[s].at]),
         NEW through \in BOOLEAN, Offer(s, through)
  PROVE  /\ Ledger(nft') /\ Grows(nft, nft', {s})
         /\ From(nft', s, mem[s]) /\ StepOK(nft', legacy, s, mem[s])
         /\ \/ flying' = flying
            \/ /\ ~through
               /\ \E tx \in Tx : tx.by = s /\ Safe(nft', tx) /\ flying' = flying \cup {tx}
<1> DEFINE e  == mem[s].items[mem[s].at]
           tx == [op |-> "offer", tok |-> Now(s).new, trait |-> Now(s).now, by |-> s]
<1>1. /\ From(nft, s, mem[s]) /\ mem[s].at \in 1..2 /\ Now(s) = e /\ e \in Item
      /\ Replacement(e.tok, s) \in Token
  BY RunningIs DEF Legs, Now
<1>2. e.new = <<e.tok[1], s>> /\ e.new \in Token
  BY <1>1 DEF From, ItemsOK, ItemOK, Replacement
<1>3. tx \in Tx /\ tx.by = s /\ tx.op = "offer" /\ tx.tok = e.new
  BY <1>1, <1>2 DEF Tx, Item
<1>4. Safe(nft, tx)
  BY <1>2, <1>3 DEF Safe, Gone
<1>5. PICK out \in Outcomes : Outcome(tx, out) /\ (through => out = "done")
  BY DEF Offer
<1> HIDE DEF tx
<1>6. /\ Ledger(nft') /\ Grows(nft, nft', {s})
      /\ From(nft', s, mem[s]) /\ StepOK(nft', legacy, s, mem[s])
      /\ out = "unknown" => flying' = flying \cup {tx} /\ Safe(nft', tx)
      /\ out # "unknown" => flying' = flying
  BY <1>3, <1>4, <1>5, QuietStep
<1>. QED BY <1>3, <1>5, <1>6

LEMMA OfferOneKeeps ==
  ASSUME IInv, NEW s \in Session, OfferOne(s)
  PROVE  IInv'
<1> DEFINE m == mem[s]
<1>1. m.step = "offering" /\ Running(m)
  BY DEF OfferOne, Running
<1>2. /\ From(nft, s, m) /\ StepOK(nft, legacy, s, m)
  BY <1>1, RunningIs
<1>3. PICK through \in BOOLEAN :
        /\ Offer(s, through)
        /\ Commit(s, IF through THEN GoOn(s, mem[s]) ELSE Fail(mem[s], <<"failed_offers">>),
                  IF through THEN 0 ELSE 1)
  BY DEF OfferOne
<1>4. UNCHANGED <<legacy, index, disturbed>>
  BY DEF OfferOne
<1>5. /\ m.at \in Legs(legacy, m) /\ Minted(m.items[m.at]) /\ Gone(nft, s, m.items[m.at])
  BY <1>1, <1>2 DEF StepOK
<1>6. /\ Ledger(nft') /\ Grows(nft, nft', {s})
      /\ From(nft', s, m) /\ StepOK(nft', legacy, s, m)
      /\ \/ flying' = flying
         \/ /\ ~through
            /\ \E tx \in Tx : tx.by = s /\ Safe(nft', tx) /\ flying' = flying \cup {tx}
  BY <1>1, <1>3, <1>5, OfferIsSafe
<1>7. index' \in [Token -> [at : Places, trait : Edition]] /\ IndexKnows'
  BY <1>4, <1>6, IndexIsStable DEF IInv, TypeOK
<1>8. legacy' = legacy /\ disturbed' \in BOOLEAN
  BY <1>4 DEF IInv, TypeOK
<1>9. CASE through
  <2>1. UpTo(nft', s, m)
    BY <1>1, <1>6 DEF UpTo, StepOK
  <2>2. NextOK(nft', s, GoOn(s, m))
    BY <1>1, <1>6, <2>1, GoOnIsOK
  <2>3. Commit(s, GoOn(s, m), 0)
    BY <1>3, <1>9
  <2>. QED BY <1>1, <1>6, <1>7, <1>8, <1>9, <2>2, <2>3, CommitKeeps
<1>10. CASE ~through
  <2> DEFINE next == Fail(m, <<"failed_offers">>)
  <2>1. <<"failed_offers">> \in Seq(Statuses)
    BY WritesAreStatuses DEF Statuses
  <2>2. NextOK(nft', s, next) /\ next.mem.step = "ended"
    BY <1>2, <2>1, FailIsOK DEF From, ItemsOK
  <2>3. Commit(s, next, 1)
    BY <1>3, <1>10
  <2> HIDE DEF next
  <2>. QED BY <1>1, <1>6, <1>7, <1>8, <1>10, <2>2, <2>3, CommitKeeps
<1>. QED BY <1>9, <1>10

LEMMA RescueKeeps ==
  ASSUME IInv, NEW s \in Session, Rescue(s)
  PROVE  IInv'
<1> DEFINE m == mem[s]
<1>1. m.step = "rescuing" /\ Running(m)
  BY DEF Rescue, Running
<1>2. /\ From(nft, s, m) /\ StepOK(nft, legacy, s, m)
  BY <1>1, RunningIs
<1>3. PICK through \in BOOLEAN :
        /\ Offer(s, through)
        /\ Commit(s, Fail(m, <<IF through THEN Rescued(m.why) ELSE NoOffer(m.why)>>),
                  IF through THEN 0 ELSE 1)
  BY DEF Rescue
<1>4. UNCHANGED <<legacy, index, disturbed>>
  BY DEF Rescue
<1>5. /\ m.at \in Legs(legacy, m) /\ Minted(m.items[m.at]) /\ Gone(nft, s, m.items[m.at])
  BY <1>1, <1>2 DEF StepOK
<1>6. /\ Ledger(nft') /\ Grows(nft, nft', {s})
      /\ From(nft', s, m) /\ StepOK(nft', legacy, s, m)
      /\ \/ flying' = flying
         \/ /\ ~through
            /\ \E tx \in Tx : tx.by = s /\ Safe(nft', tx) /\ flying' = flying \cup {tx}
  BY <1>1, <1>3, <1>5, OfferIsSafe
<1>7. index' \in [Token -> [at : Places, trait : Edition]] /\ IndexKnows'
  BY <1>4, <1>6, IndexIsStable DEF IInv, TypeOK
<1>8. legacy' = legacy /\ disturbed' \in BOOLEAN
  BY <1>4 DEF IInv, TypeOK
<1> DEFINE st   == IF through THEN Rescued(m.why) ELSE NoOffer(m.why)
           next == Fail(m, <<st>>)
           cost == IF through THEN 0 ELSE 1
<1>9. st \in Statuses
  <2>1. m.why \in Statuses
    BY <1>2 DEF From, SessionRec
  <2>. QED BY <2>1 DEF Rescued, NoOffer, Statuses
<1>10. NextOK(nft', s, next) /\ next.mem.step = "ended"
  <2> HIDE DEF st
  <2>1. <<st>> \in Seq(Statuses)
    BY <1>9, WritesAreStatuses
  <2>. QED BY <1>2, <2>1, FailIsOK DEF From, ItemsOK
<1>11. Commit(s, next, cost) /\ cost \in Nat
  BY <1>3
<1> HIDE DEF next, cost
<1>. QED BY <1>1, <1>6, <1>7, <1>8, <1>10, <1>11, CommitKeeps

\* The session once the compensation c was refused, and once it was done.
Skipped(s, c) == [mem[s] EXCEPT !.left = @ \ {c}]
UndoneItem(e, c) == IF c[1] = "revert" THEN [e EXCEPT !.done = FALSE] ELSE [e EXCEPT !.new = NoToken]
AfterUndo(s, c) ==
    [Skipped(s, c) EXCEPT !.items = [mem[s].items EXCEPT ![c[2]] = UndoneItem(@, c)]]

\* A sound unwinding, of the items that session s has.
Unwinding(N, s, m) ==
    /\ m \in SessionRec /\ m.step = "unwinding" /\ ItemsOK(N, legacy, s, m)
    /\ StepOK(N, legacy, s, m) /\ \A i \in 1..2 : m.items[i].tok = mem[s].items[i].tok

LEMMA UnwindOneStep ==
  ASSUME IInv, NEW s \in Session, UnwindOne(s)
  PROVE  \E c \in mem[s].left, out \in Outcomes :
         /\ Stepped(s, Compensation(s, c), out) /\ mem[s].step = "unwinding"
         /\ c \in {"revert", "burn"} \X (1..2) /\ IsNext(c, mem[s].left)
         /\ disturbed' = (disturbed \/ out # "done") /\ UNCHANGED <<legacy, index>>
         /\ out = "done" => /\ GoesOn(s, Settle(s, AfterUndo(s, c)))
                            /\ Unwinding(nft', s, AfterUndo(s, c))
                            /\ Lands(Compensation(s, c))
         /\ out = "refused" => /\ GoesOn(s, Settle(s, Skipped(s, c)))
                               /\ Unwinding(nft', s, Skipped(s, c))
         /\ out = "unknown" => GoesOn(s, Fail(mem[s], <<>>))
<1> DEFINE m == mem[s]
<1>1. m.step = "unwinding" /\ Running(m) /\ UNCHANGED <<legacy, index>>
  BY DEF UnwindOne, Running
<1>2. /\ From(nft, s, m) /\ StepOK(nft, legacy, s, m) /\ Ledger(nft)
      /\ m \in SessionRec /\ m.items \in Item \X Item
      /\ \A i \in 1..2 : /\ m.items[i] \in Item /\ m.items[i].tok \in Token
                         /\ m.items[i].tok[1] \in Edition
                         /\ Replacement(m.items[i].tok, s) \in Token
  BY <1>1, RunningIs DEF IInv, From
<1>3. PICK c \in m.left, out \in Outcomes :
        /\ IsNext(c, m.left) /\ Outcome(Compensation(s, c), out)
        /\ Commit(s,
             CASE out = "done" ->
                    Settle(s, IF c[1] = "revert"
                              THEN [[m EXCEPT !.left = @ \ {c}] EXCEPT !.items[c[2]].done = FALSE]
                              ELSE [[m EXCEPT !.left = @ \ {c}] EXCEPT !.items[c[2]].new = NoToken])
               [] out = "refused" -> Settle(s, [m EXCEPT !.left = @ \ {c}])
               [] out = "unknown" -> Fail(m, <<>>), Cost(Compensation(s, c), out))
        /\ disturbed' = (disturbed \/ out # "done")
  BY DEF UnwindOne
<1> DEFINE i    == c[2]
           e    == m.items[i]
           tx   == Compensation(s, c)
           cost == Cost(tx, out)
           rest == Skipped(s, c)
           e2   == UndoneItem(e, c)
           und  == AfterUndo(s, c)
<1>4. /\ c \in {"revert", "burn"} \X (1..2) /\ c[1] \in {"revert", "burn"} /\ i \in 1..2
      /\ c = <<c[1], i>> /\ e \in Item
  BY <1>2 DEF SessionRec
<1>5. cost \in Nat /\ out \in {"done", "refused", "unknown"}
  BY DEF Cost, Outcomes
<1>6. /\ out = "done" => Commit(s, Settle(s, und), cost)
      /\ out = "refused" => Commit(s, Settle(s, rest), cost)
      /\ out = "unknown" => Commit(s, Fail(m, <<>>), cost)
  <2>1. out = "refused" => Commit(s, Settle(s, rest), cost)
    BY <1>3 DEF Skipped
  <2>2. out = "unknown" => Commit(s, Fail(m, <<>>), cost)
    BY <1>3
  <2>3. c[1] = "revert" =>
          und = [[m EXCEPT !.left = @ \ {c}] EXCEPT !.items[c[2]].done = FALSE]
    BY <1>2, <1>4 DEF AfterUndo, Skipped, UndoneItem
  <2>4. c[1] = "burn" =>
          und = [[m EXCEPT !.left = @ \ {c}] EXCEPT !.items[c[2]].new = NoToken]
    BY <1>2, <1>4 DEF AfterUndo, Skipped, UndoneItem
  <2>. QED BY <1>3, <1>4, <2>1, <2>2, <2>3, <2>4
<1>7. /\ tx \in Tx /\ tx.by = s /\ Safe(nft, tx)
      /\ c[1] = "revert" => tx.op = "modify"
      /\ c[1] = "burn" => /\ tx.op = "burn" /\ tx.tok = e.new /\ e.new = <<e.tok[1], s>>
                          /\ Minted(e) /\ ~Gone(nft, s, e) /\ e.new \in Token
  <2>1. CASE c[1] = "revert"
    <3>1. tx = [op |-> "modify", tok |-> e.tok, trait |-> e.was, by |-> s]
      BY <2>1 DEF Compensation
    <3>. QED BY <1>2, <1>4, <2>1, <3>1 DEF Tx, Item, Safe
  <2>2. CASE c[1] = "burn"
    <3>1. tx = [op |-> "burn", tok |-> e.new, trait |-> e.now, by |-> s]
      BY <2>2 DEF Compensation
    <3>2. Minted(e) /\ ~Gone(nft, s, e)
      BY <1>1, <1>2, <1>3, <1>4, <2>2 DEF StepOK
    <3>3. e.new = <<e.tok[1], s>> /\ e.new \in Token
      BY <1>2, <1>4, <3>2 DEF From, ItemsOK, ItemOK, Replacement
    <3>4. tx \in Tx
      BY <1>4, <3>1, <3>3 DEF Tx, Item
    <3>5. Safe(nft, tx)
      BY <3>1, <3>2, <3>3 DEF Safe, Gone
    <3>. QED BY SMTT(30), ZenonT(30), <2>2, <3>1, <3>2, <3>3, <3>4, <3>5
  <2>. QED BY <1>4, <2>1, <2>2
<1> HIDE DEF tx, cost
<1>8. /\ Ledger(nft') /\ Grows(nft, nft', {s})
      /\ out = "done" => flying' = flying /\ Lands(tx)
      /\ out = "refused" => flying' = flying /\ nft' = nft
      /\ out = "unknown" => flying' = flying \cup {tx} /\ nft' = nft
  BY <1>2, <1>3, <1>7, OutcomeIsSafe DEF tx
<1>9. Stepped(s, tx, out)
  BY <1>3, <1>5, <1>7, <1>8 DEF Stepped, tx
<1>10. ASSUME out = "unknown" PROVE GoesOn(s, Fail(m, <<>>))
  <2>1. NextOK(nft', s, Fail(m, <<>>))
    BY <1>2, FailIsOK, WritesAreStatuses
  <2>. QED BY <1>5, <1>6, <1>10, <2>1 DEF GoesOn
<1>11. /\ rest \in SessionRec /\ rest.step = "unwinding" /\ rest.items = m.items
       /\ rest.left = m.left \ {c} /\ rest.why = m.why
  BY <1>1, <1>2 DEF SessionRec, Skipped
<1> HIDE DEF rest, und
<1>12. ASSUME out = "refused"
       PROVE  GoesOn(s, Settle(s, rest)) /\ Unwinding(nft', s, rest)
  <2>1. Legs(legacy, rest) = Legs(legacy, m) /\ ItemsOK(nft', legacy, s, rest)
    BY <1>2, <1>8, <1>11, <1>12 DEF Legs, ItemsOK, From
  <2>2. HalfGone(nft, legacy, s, m) => HalfGone(nft', legacy, s, rest)
    BY <1>8, <1>11, <1>12, <2>1 DEF HalfGone
  <2>3. StepOK(nft', legacy, s, rest)
    BY <1>1, <1>2, <1>8, <1>11, <1>12, <2>2 DEF StepOK
  <2>4. NextOK(nft', s, Settle(s, rest))
    BY <1>2, <1>11, <2>1, <2>3, SettleIsOK
  <2>. QED BY <1>5, <1>6, <1>11, <1>12, <2>1, <2>3, <2>4 DEF GoesOn, Unwinding
<1>13. ASSUME out = "done"
       PROVE  GoesOn(s, Settle(s, und)) /\ Unwinding(nft', s, und)
  <2>1. /\ e2 \in Item /\ e2.tok = e.tok
        /\ c[1] = "revert" => e2.new = e.new
        /\ c[1] = "burn" => e2.new = NoToken
    BY <1>4 DEF Item, UndoneItem
  <2> HIDE DEF e2
  <2>2. /\ und \in SessionRec /\ und.step = "unwinding" /\ und.left = rest.left
        /\ und.why = rest.why /\ und.items = [m.items EXCEPT ![i] = e2]
    <3>1. und = [rest EXCEPT !.items = [m.items EXCEPT ![i] = e2]]
      BY <1>2, <1>4 DEF und, rest, e2, AfterUndo
    <3>. QED BY <1>2, <1>4, <1>11, <2>1, <3>1, ItemsExcept DEF SessionRec
  <2>3. /\ und.items \in Item \X Item
        /\ \A j \in 1..2 : und.items[j] = IF j = i THEN e2 ELSE m.items[j]
        /\ \A j \in 1..2 : und.items[j].tok = m.items[j].tok
    BY <1>2, <1>4, <2>1, <2>2, ItemsExcept
  <2>4. Legs(legacy, und) = Legs(legacy, m) /\ Legs(legacy, m) \subseteq 1..2
    BY <2>3 DEF Legs
  <2>5. \A j \in 1..2 : Gone(nft', s, und.items[j]) <=> Gone(nft, s, m.items[j])
    <3>1. tx.op # "burn" => Grows(nft, nft', {})
      BY <1>2, <1>7, <1>8, <1>13, QuietLanding
    <3>2. tx.op = "burn" => \A n \in Edition : Burner(nft', n) = Burner(nft, n)
      <4>1. tx.op = "burn" => \A n \in Edition : <<n, First>> # tx.tok
        BY <1>4, <1>7, SwapAssumption
      <4>. QED BY <1>2, <1>7, <1>8, <1>13, <4>1, LandsChanges, TokenIsPair DEF Ledger, Burner
    <3>3. \A n \in Edition : Burner(nft', n) = s <=> Burner(nft, n) = s
      BY <3>1, <3>2 DEF Grows
    <3>. QED BY <1>2, <2>3, <3>3 DEF Gone
  <2>6. \A j \in 1..2 : j # i \/ c[1] = "revert" => Minted(und.items[j]) <=> Minted(m.items[j])
    BY <2>1, <2>3 DEF Minted
  <2>7. ASSUME NEW j \in 1..2
        PROVE  ItemOK(nft', legacy, s, und.items[j])
    <3>1. /\ ItemOK(nft, legacy, s, m.items[j]) /\ m.items[j].tok \in Token
          /\ nft'[und.items[j].tok].at # "none"
      BY <1>2, <1>8, <2>3 DEF From, ItemsOK, ItemOK, Grows
    <3>2. CASE c[1] = "revert"
      <4>1. Grows(nft, nft', {})
        BY <1>2, <1>7, <1>8, <1>13, <3>2, QuietLanding
      <4>2. und.items[j].tok = m.items[j].tok /\ und.items[j].new = m.items[j].new
        BY <2>1, <2>3, <3>2
      <4>3. LiveIn(nft, <<m.items[j].tok[1], s>>) => LiveIn(nft', <<m.items[j].tok[1], s>>)
        BY <1>2, <4>1 DEF Grows
      <4>. QED BY <3>1, <4>2, <4>3 DEF ItemOK, Minted
    <3>3. CASE c[1] = "burn" /\ j = i
      BY <2>1, <2>3, <3>1, <3>3 DEF ItemOK, Minted
    <3>4. CASE c[1] = "burn" /\ j # i /\ Minted(m.items[j])
      <4>1. /\ m.items[j].new = <<m.items[j].tok[1], s>> /\ m.items[j].new \in Token
            /\ Leg(legacy, m.items[j].tok) /\ Leg(legacy, e.tok)
        BY <1>2, <1>4, <1>7, <3>1, <3>4 DEF ItemOK, From, ItemsOK, Replacement
      <4>2. m.items[j].tok # e.tok
        BY <1>2, <1>4, <3>4 DEF From, ItemsOK
      <4>3. m.items[j].tok[1] # e.tok[1]
        BY <1>2, <1>4, <3>1, <4>1, <4>2, TokenIsPair DEF Leg
      <4>4. m.items[j].new # tx.tok
        BY <1>7, <3>4, <4>1, <4>3
      <4>5. nft'[m.items[j].new] = nft[m.items[j].new]
        <5>1. Lands(tx) /\ nft \in [Token -> TokenState]
          BY <1>2, <1>8, <1>13 DEF Ledger
        <5>2. \A t \in Token : t # tx.tok => nft'[t] = nft[t]
          BY <1>7, <5>1, LandsChanges
        <5>. QED BY <4>1, <4>4, <5>2
      <4>. QED BY <2>3, <3>1, <3>4, <4>5 DEF ItemOK, LiveIn
    <3>5. CASE c[1] = "burn" /\ j # i /\ ~Minted(m.items[j])
      BY <2>3, <3>1, <3>5 DEF ItemOK
    <3>. QED BY <1>4, <3>2, <3>3, <3>4, <3>5
  <2>8. ItemsOK(nft', legacy, s, und)
    BY <1>2, <2>3, <2>7 DEF ItemsOK, From
  <2>9. HalfGone(nft, legacy, s, m) => HalfGone(nft', legacy, s, und)
    <3>1. ASSUME NEW j \in Legs(legacy, m), Minted(m.items[j]), Gone(nft, s, m.items[j])
          PROVE  Minted(und.items[j]) /\ Gone(nft', s, und.items[j])
      BY <1>4, <1>7, <2>4, <2>5, <2>6, <3>1
    <3>. QED BY <2>4, <3>1 DEF HalfGone
  <2>10. ASSUME NEW j \in 1..2, <<"burn", j>> \in und.left
         PROVE  Minted(und.items[j]) /\ ~Gone(nft', s, und.items[j])
    <3>1. Minted(m.items[j]) /\ ~Gone(nft, s, m.items[j])
      BY <1>1, <1>2, <1>11, <2>2, <2>10 DEF StepOK
    <3>2. c[1] = "burn" => j # i
      BY <1>4, <1>11, <2>2, <2>10
    <3>. QED BY <1>4, <2>5, <2>6, <3>1, <3>2
  <2>11. StepOK(nft', legacy, s, und)
    BY <1>1, <1>2, <1>11, <2>2, <2>9, <2>10 DEF StepOK
  <2>12. NextOK(nft', s, Settle(s, und))
    BY <1>2, <2>2, <2>3, <2>8, <2>11, SettleIsOK
  <2>. QED BY <1>5, <1>6, <1>11, <1>13, <2>2, <2>3, <2>8, <2>11, <2>12 DEF GoesOn, Unwinding
<1>14. out = "done" => Lands(tx)
  BY <1>8
<1>15. c \in {"revert", "burn"} \X (1..2) /\ IsNext(c, m.left)
  BY <1>3, <1>4
<1>. QED BY <1>1, <1>3, <1>9, <1>10, <1>12, <1>13, <1>14, <1>15 DEF tx, rest, und

LEMMA UnwindOneKeeps ==
  ASSUME IInv, NEW s \in Session, UnwindOne(s)
  PROVE  IInv'
<1> DEFINE m == mem[s]
<1>1. PICK c \in m.left, out \in Outcomes :
         /\ Stepped(s, Compensation(s, c), out) /\ m.step = "unwinding"
         /\ disturbed' = (disturbed \/ out # "done") /\ UNCHANGED <<legacy, index>>
         /\ out = "done" => GoesOn(s, Settle(s, AfterUndo(s, c)))
         /\ out = "refused" => GoesOn(s, Settle(s, Skipped(s, c)))
         /\ out = "unknown" => GoesOn(s, Fail(m, <<>>))
  BY UnwindOneStep
<1>2. Running(m) /\ legacy' = legacy /\ disturbed' \in BOOLEAN
  BY <1>1 DEF Running
<1>3. index' \in [Token -> [at : Places, trait : Edition]] /\ IndexKnows'
  BY <1>1, IndexIsStable DEF IInv, TypeOK, Stepped
<1>4. Fail(m, <<>>).mem.step = "ended"
  BY <1>2, RunningIs, FailIsOK, WritesAreStatuses DEF From, ItemsOK
<1>5. CASE out = "done"
  BY <1>1, <1>2, <1>3, <1>5, StepGoesOn
<1>6. CASE out = "refused"
  BY <1>1, <1>2, <1>3, <1>6, StepGoesOn
<1>7. CASE out = "unknown"
  BY <1>1, <1>2, <1>3, <1>4, <1>7, StepGoesOn
<1>. QED BY <1>5, <1>6, <1>7 DEF Outcomes

LEMMA StartKeeps ==
  ASSUME IInv, NEW s \in Session, NEW f \in Surface, NEW t \in Token, NEW u \in Token,
         Start(s, f, t, u)
  PROVE  IInv'
<1> DEFINE items == <<Exchanged(t, u), Exchanged(u, t)>>
           m     == [mem[s] EXCEPT !.step = "checking", !.surface = f, !.items = items]
<1>1. /\ mem[s].step = "none" /\ t # u /\ index[t].at = "user" /\ index[u].at = "user"
      /\ UNCHANGED <<legacy, nft, index, flying, journal, faults>>
      /\ disturbed' \in BOOLEAN
  BY DEF Start, Listed
<1>2. mem \in [Session -> SessionRec] /\ mem' = [mem EXCEPT ![s] = m]
  BY DEF Start, IInv, TypeOK, SessionRec
<1>3. /\ Exchanged(t, u) \in Item /\ Exchanged(t, u).tok = t /\ Exchanged(t, u).new = NoToken
      /\ Exchanged(u, t) \in Item /\ Exchanged(u, t).tok = u /\ Exchanged(u, t).new = NoToken
  BY DEF Exchanged, Item, IInv, TypeOK
<1>4. /\ items \in Item \X Item /\ items[1] = Exchanged(t, u) /\ items[2] = Exchanged(u, t)
  BY <1>3
<1> HIDE DEF items
<1>5. m \in SessionRec /\ m.step = "checking" /\ m.items = items
  BY ZenonT(60), <1>2, <1>4, StepNames DEF SessionRec
<1> HIDE DEF m
<1>6. \A i \in 1..2 : items[i].new = NoToken /\ items[i].tok \in {t, u}
  BY <1>3, <1>4
<1>7. nft[t].at # "none" /\ nft[u].at # "none"
  BY <1>1 DEF IInv, IndexKnows
<1>8. ItemsOK(nft, legacy, s, m)
  BY <1>1, <1>3, <1>4, <1>5, <1>6, <1>7 DEF ItemsOK, ItemOK, Minted
<1>9. Untouched(nft, s)
  BY <1>1 DEF IInv, Sessions, SessionOK
<1>10. SessionOK(nft', legacy, s, m)
  BY <1>1, <1>5, <1>8, <1>9 DEF SessionOK, StepOK
<1>11. Ledger(nft') /\ Grows(nft, nft', {s})
  BY <1>1, GrowsByNothing DEF IInv
<1>12. /\ index' \in [Token -> [at : Places, trait : Edition]] /\ IndexKnows'
       /\ journal' \in [Session -> Record] /\ faults' \in Nat
  BY <1>1, <1>11, IndexIsStable DEF IInv, TypeOK, Record
<1>. QED BY <1>1, <1>2, <1>10, <1>11, <1>12, StepKeeps

LEMMA PreCheckKeeps ==
  ASSUME IInv, NEW s \in Session, PreCheck(s)
  PROVE  IInv'
<1> DEFINE m == mem[s]
<1>1. m.step = "checking" /\ Running(m) /\ UNCHANGED <<legacy, nft, flying, disturbed>>
  BY DEF PreCheck, Running
<1>2. /\ From(nft, s, m) /\ StepOK(nft, legacy, s, m)
      /\ \A i \in 1..2 : m.items[i].tok \in Token
  BY <1>1, RunningIs
<1>3. Ledger(nft') /\ Grows(nft, nft', {s}) /\ disturbed' \in BOOLEAN
  BY <1>1, GrowsByNothing DEF IInv, TypeOK
<1>4. NextOK(nft', s, Fail(m, <<>>))
  BY <1>1, <1>2, FailIsOK, WritesAreStatuses DEF From, ItemsOK
<1>5. NextOK(nft', s, Proceed(s, m))
  <2>1. Through(nft, s, m)
    BY <1>1, <1>2 DEF Through, StepOK
  <2>. QED BY <1>1, <1>2, <2>1, ProceedIsOK
<1>6. CASE Commit(s, Fail(m, <<>>), 1) /\ UNCHANGED index
  <2>1. index' \in [Token -> [at : Places, trait : Edition]] /\ IndexKnows'
    BY <1>3, <1>6, IndexIsStable DEF IInv, TypeOK
  <2>. QED BY <1>1, <1>3, <1>4, <1>6, <2>1, CommitKeeps
<1>7. CASE \E gone \in SUBSET {m.items[i].tok : i \in Reminted(s)} :
            /\ \A t \in gone : SeenAbsent(t)
            /\ Heal(gone)
            /\ Commit(s, IF gone = {} THEN Proceed(s, m) ELSE Fail(m, <<>>), 0)
  <2>1. PICK gone \in SUBSET {m.items[i].tok : i \in Reminted(s)} :
            /\ \A t \in gone : SeenAbsent(t)
            /\ Heal(gone)
            /\ Commit(s, IF gone = {} THEN Proceed(s, m) ELSE Fail(m, <<>>), 0)
    BY <1>7
  <2>2. \A t \in gone : \E i \in 1..2 : t = m.items[i].tok
    BY <1>2, SameLegs
  <2>3. gone \in SUBSET Token /\ \A t \in gone : nft[t].at # "none"
    BY <1>2, <2>2 DEF From, ItemsOK, ItemOK
  <2>4. index' \in [Token -> [at : Places, trait : Edition]] /\ IndexKnows'
    BY <1>1, <2>1, <2>3, HealIsTrue
  <2>5. CASE gone = {}
    <3>1. Commit(s, Proceed(s, m), 0)
      BY <2>1, <2>5
    <3>. QED BY <1>1, <1>3, <1>5, <2>4, <3>1, CommitKeeps
  <2>6. CASE gone # {}
    <3>1. Commit(s, Fail(m, <<>>), 0)
      BY <2>1, <2>6
    <3>. QED BY <1>1, <1>3, <1>4, <2>4, <3>1, CommitKeeps
  <2>. QED BY <2>5, <2>6
<1>. QED BY <1>6, <1>7 DEF PreCheck

LEMMA PaymentSeenKeeps ==
  ASSUME IInv, NEW s \in Session, PaymentSeen(s)
  PROVE  IInv'
<1> DEFINE m == mem[s]
<1>1. /\ m.step = "paying" /\ Running(m) /\ UNCHANGED <<legacy, nft, index, flying, disturbed>>
      /\ Commit(s, Proceed(s, m), 0)
  BY DEF PaymentSeen, Running
<1>2. From(nft, s, m) /\ StepOK(nft, legacy, s, m)
  BY <1>1, RunningIs
<1>3. Ledger(nft') /\ Grows(nft, nft', {s}) /\ disturbed' \in BOOLEAN
  BY <1>1, GrowsByNothing DEF IInv, TypeOK
<1>4. index' \in [Token -> [at : Places, trait : Edition]] /\ IndexKnows'
  BY <1>1, <1>3, IndexIsStable DEF IInv, TypeOK
<1>5. NextOK(nft', s, Proceed(s, m))
  <2>1. Through(nft, s, m)
    BY <1>1, <1>2 DEF Through, StepOK
  <2>. QED BY <1>1, <1>2, <2>1, ProceedIsOK DEF FivePhases
<1>. QED BY <1>1, <1>3, <1>4, <1>5, CommitKeeps

LEMMA WaitEndsKeeps ==
  ASSUME IInv, NEW s \in Session, Cancel(s) \/ NoPayment(s)
  PROVE  IInv'
<1>1. /\ Running(mem[s]) /\ UNCHANGED <<legacy, nft, index, flying, journal, disturbed, faults>>
      /\ \E end \in Ends : mem' = [mem EXCEPT ![s] = Stop(mem[s], end)]
  BY DEF Cancel, NoPayment, Running, Ends
<1>2. PICK end \in Ends : mem' = [mem EXCEPT ![s] = Stop(mem[s], end)]
  BY <1>1
<1>3. mem[s] \in SessionRec /\ mem[s].step # "ended"
  BY <1>1, RunningIs DEF From, Running
<1>4. SessionOK(nft', legacy, s, Stop(mem[s], end))
  BY <1>3, EndIsOK
<1>5. Ledger(nft') /\ Grows(nft, nft', {s})
  BY <1>1, GrowsByNothing DEF IInv
<1>6. /\ index' \in [Token -> [at : Places, trait : Edition]] /\ IndexKnows'
      /\ journal' \in [Session -> Record] /\ faults' \in Nat /\ disturbed' \in BOOLEAN
  BY <1>1, <1>5, IndexIsStable DEF IInv, TypeOK, Record
<1>. QED BY <1>1, <1>2, <1>3, <1>4, <1>5, <1>6, StepKeeps

-----------------------------------------------------------------------------
(* The ledger's own steps, the owner's, the listener's, and a restart.     *)

LEMMA OutsideKeeps ==
  ASSUME IInv, NEW S, Ledger(nft'), Grows(nft, nft', S),
         \A s \in Session : s \in S => mem[s].step = "ended",
         UNCHANGED <<legacy, mem, journal, disturbed, faults>>,
         flying' \subseteq flying, \A tx \in flying' : tx.by \notin S,
         index' \in [Token -> [at : Places, trait : Edition]], IndexKnows'
  PROVE  IInv'
<1>1. Sessions'
  <2>1. ASSUME NEW s \in Session PROVE SessionOK(nft', legacy, s, mem[s])
    <3>1. SessionOK(nft, legacy, s, mem[s])
      BY DEF IInv, Sessions
    <3>2. CASE s \in S
      BY <3>1, <3>2 DEF SessionOK, Running
    <3>3. CASE s \notin S
      BY <3>1, <3>3, SessionIsStable
    <3>. QED BY <3>2, <3>3
  <2>. QED BY <2>1 DEF Sessions
<1>2. Undecided'
  <2>1. ASSUME NEW tx \in flying' PROVE mem[tx.by].step = "ended" /\ Safe(nft', tx)
    <3>1. tx \in flying /\ tx \in Tx /\ Safe(nft, tx) /\ mem[tx.by].step = "ended"
      BY DEF IInv, Undecided, TypeOK
    <3>. QED BY <3>1, SafeIsStable
  <2>2. \A tx, ty \in flying' : ty.by = tx.by => ty = tx
    BY DEF IInv, Undecided
  <2>. QED BY <2>1, <2>2 DEF Undecided
<1>3. TypeOK'
  <2>1. nft' \in [Token -> TokenState]
    BY DEF Ledger
  <2>2. /\ legacy' \in SUBSET Edition /\ flying' \in SUBSET Tx /\ mem' \in [Session -> SessionRec]
        /\ journal' \in [Session -> Record] /\ disturbed' \in BOOLEAN /\ faults' \in Nat
    BY DEF IInv, TypeOK, SessionRec, Record
  <2>. QED BY ONLY <2>1, <2>2, index' \in [Token -> [at : Places, trait : Edition]]
           DEF TypeOK, TokenState, SessionRec, Record
<1>. QED BY <1>1, <1>2, <1>3 DEF IInv

LEMMA LandKeeps ==
  ASSUME IInv, NEW tx \in flying, Land(tx)
  PROVE  IInv'
<1>1. /\ tx \in Tx /\ tx.by \in Session /\ Safe(nft, tx) /\ mem[tx.by].step = "ended"
      /\ \A ty \in flying : ty.by = tx.by => ty = tx
      /\ Ledger(nft)
  BY DEF IInv, TypeOK, Undecided, Tx
<1>2. /\ flying' = flying \ {tx} /\ (Lands(tx) \/ UNCHANGED nft)
      /\ UNCHANGED <<legacy, index, mem, journal, disturbed, faults>>
  BY DEF Land
<1>3. Ledger(nft') /\ Grows(nft, nft', {tx.by})
  BY <1>1, <1>2, SafeLanding, GrowsByNothing
<1>4. index' \in [Token -> [at : Places, trait : Edition]] /\ IndexKnows'
  BY <1>2, <1>3, IndexIsStable DEF IInv, TypeOK
<1>5. flying' \subseteq flying /\ \A ty \in flying' : ty.by \notin {tx.by}
  BY <1>1, <1>2
<1>. QED BY <1>1, <1>2, <1>3, <1>4, <1>5, OutsideKeeps

LEMMA AcceptKeeps ==
  ASSUME IInv, NEW t \in Token, Accept(t)
  PROVE  IInv'
<1>1. /\ nft[t].at = "issuer" /\ nft[t].offered /\ nft' = [nft EXCEPT ![t].at = "user"]
      /\ UNCHANGED <<legacy, index, flying, mem, journal, disturbed, faults>>
  BY DEF Accept
<1>2. Ledger(nft) /\ nft \in [Token -> TokenState]
  BY DEF IInv, Ledger
<1>3. /\ nft' \in [Token -> TokenState]
      /\ nft'[t].at = "user" /\ nft'[t].by = nft[t].by /\ nft'[t].offered = nft[t].offered
      /\ \A u \in Token : u # t => nft'[u] = nft[u]
  BY <1>1, <1>2 DEF TokenState, Places
<1>4. t[1] \in Edition /\ t[2] \in Session /\ t = <<t[1], t[2]>>
  BY <1>1, <1>2, TokenIsPair DEF Ledger
<1>5. Burner(nft, t[1]) = t[2] /\ \A u \in Token : nft'[u].by = nft[u].by /\ nft'[u].offered = nft[u].offered
  BY <1>1, <1>2, <1>3, <1>4 DEF Ledger
<1>6. \A n \in Edition : /\ nft'[<<n, First>>] = nft[<<n, First>>]
                         /\ Burner(nft', n) = Burner(nft, n)
  BY <1>3, <1>4, TokenIsPair DEF Burner
<1>7. \A u \in Token : /\ nft'[u].at = "burned" <=> nft[u].at = "burned"
                       /\ nft[u].at # "none" => nft'[u].at # "none"
                       /\ LiveIn(nft, u) => LiveIn(nft', u)
  BY <1>1, <1>3 DEF LiveIn
<1>8. ASSUME NEW n \in Edition, NEW s \in Session
      PROVE  /\ nft'[<<n, s>>].at = "user" \/ nft'[<<n, s>>].offered => Burner(nft', n) = s
             /\ Burner(nft', n) = s => LiveIn(nft', <<n, s>>)
  <2>1. CASE <<n, s>> = t
    <3>1. n = t[1] /\ s = t[2]
      BY <2>1
    <3>. QED BY <1>3, <1>5, <1>6, <2>1, <3>1 DEF LiveIn
  <2>2. CASE <<n, s>> # t
    <3>1. nft'[<<n, s>>] = nft[<<n, s>>]
      BY <1>3, <2>2, TokenIsPair
    <3>. QED BY <1>2, <1>6, <3>1 DEF Ledger, LiveIn
  <2>. QED BY <2>1, <2>2
<1>9. Ledger(nft')
  BY <1>2, <1>3, <1>5, <1>6, <1>7, <1>8 DEF Ledger
<1>10. Grows(nft, nft', {})
  BY <1>6, <1>7, TokenIsPair DEF Grows
<1>11. index' \in [Token -> [at : Places, trait : Edition]] /\ IndexKnows'
  BY <1>1, <1>10, IndexIsStable DEF IInv, TypeOK
<1>12. /\ flying' \subseteq flying
       /\ UNCHANGED <<legacy, mem, journal, disturbed, faults>>
  BY <1>1
<1>. QED BY ONLY IInv, <1>9, <1>10, <1>11, <1>12, OutsideKeeps

LEMMA ListenKeeps ==
  ASSUME IInv, NEW t \in Token, Listen(t)
  PROVE  IInv'
<1>1. /\ index' = [index EXCEPT ![t] = Row(t, nft[t].at, nft[t].trait)]
      /\ UNCHANGED <<legacy, nft, flying, mem, journal, disturbed, faults>>
  BY DEF Listen
<1>2. /\ index \in [Token -> [at : Places, trait : Edition]]
      /\ nft[t].at \in Places /\ nft[t].trait \in Edition
  BY DEF IInv, TypeOK
<1>3. /\ Row(t, nft[t].at, nft[t].trait) \in [at : Places, trait : Edition]
      /\ Row(t, nft[t].at, nft[t].trait).at = IF index[t].at = "burned" THEN "burned" ELSE nft[t].at
  BY <1>2 DEF Row, Places
<1>4. /\ index' \in [Token -> [at : Places, trait : Edition]]
      /\ \A u \in Token : index'[u].at = IF u = t /\ index[t].at # "burned" THEN nft[t].at
                                         ELSE index[u].at
  BY <1>1, <1>2, <1>3
<1>5. IndexKnows'
  BY <1>1, <1>4 DEF IInv, IndexKnows, BurialsAreTrue
<1>6. Ledger(nft') /\ Grows(nft, nft', {})
  BY <1>1, GrowsByNothing DEF IInv
<1>. QED BY <1>1, <1>4, <1>5, <1>6, OutsideKeeps

\* What a session is waiting for is one transaction, and a safe one.
LEMMA PendingIsSafe ==
  ASSUME IInv, NEW s \in Session, NEW p \in Pending(s)
  PROVE  /\ Running(mem[s]) /\ p \in Tx /\ p.by = s /\ Safe(nft, p)
         /\ \A q \in Pending(s) : q = p
<1> DEFINE m == mem[s]
           e == m.items[m.at]
<1>1. m.step \in {"minting", "modifying", "burning", "offering", "rescuing", "unwinding"}
  BY DEF Pending
<1>2. Running(m)
  BY <1>1 DEF Running
<1>3. /\ From(nft, s, m) /\ StepOK(nft, legacy, s, m) /\ m \in SessionRec
      /\ \A i \in 1..2 : /\ m.items[i] \in Item /\ m.items[i].tok \in Token
                         /\ Replacement(m.items[i].tok, s) \in Token
                         /\ Minted(m.items[i]) => /\ m.items[i].new = Replacement(m.items[i].tok, s)
                                                  /\ LiveIn(nft, m.items[i].new)
  BY <1>2, RunningIs DEF From, ItemsOK, ItemOK, Replacement
<1>4. CASE m.step \in {"minting", "modifying", "burning", "offering", "rescuing"}
  <2>1. m.at \in 1..2 /\ Now(s) = e /\ e \in Item /\ e.tok \in Token
    BY <1>3, <1>4 DEF StepOK, Legs, Now
  <2>2. CASE m.step = "minting"
    <3>1. Pending(s) = {[op |-> "mint", tok |-> Replacement(e.tok, s), trait |-> e.now, by |-> s]}
      BY <2>1, <2>2 DEF Pending
    <3>2. e.now \in Edition /\ Replacement(e.tok, s) \in Token /\ Replacement(e.tok, s)[2] = s
      BY <1>3, <2>1 DEF Item, Replacement
    <3> HIDE DEF e
    <3>3. p = [op |-> "mint", tok |-> Replacement(e.tok, s), trait |-> e.now, by |-> s]
      BY <3>1
    <3>4. p \in Tx /\ p.op = "mint" /\ p.by = s /\ p.tok = Replacement(e.tok, s)
      BY <3>2, <3>3 DEF Tx
    <3>5. Safe(nft, p)
      BY <3>2, <3>4 DEF Safe
    <3>. QED BY <1>2, <3>1, <3>4, <3>5
  <2>3. CASE m.step = "modifying"
    <3>1. Pending(s) = {[op |-> "modify", tok |-> e.tok, trait |-> e.now, by |-> s]}
      BY <2>1, <2>3 DEF Pending
    <3>. QED BY <1>2, <2>1, <3>1 DEF Tx, Item, Safe
  <2>4. CASE m.step = "burning"
    <3>1. Pending(s) = {[op |-> "burn", tok |-> e.tok, trait |-> e.was, by |-> s]}
      BY <2>1, <2>4 DEF Pending
    <3>2. e.tok[2] = First /\ LiveIn(nft, <<e.tok[1], s>>)
      BY <1>3, <2>1, <2>4 DEF StepOK, Legs, Leg, Replacement
    <3>. QED BY <1>2, <2>1, <3>1, <3>2 DEF Tx, Item, Safe
  <2>5. CASE m.step \in {"offering", "rescuing"}
    <3>1. Pending(s) = {[op |-> "offer", tok |-> e.new, trait |-> e.now, by |-> s]}
      BY <2>1, <2>5 DEF Pending
    <3>2. Minted(e) /\ Gone(nft, s, e)
      BY <1>3, <2>5 DEF StepOK
    <3>3. e.new = <<e.tok[1], s>> /\ e.new \in Token
      BY <1>3, <2>1, <3>2 DEF Replacement
    <3>4. e.now \in Edition
      BY <2>1 DEF Item
    <3> HIDE DEF e
    <3>5. p = [op |-> "offer", tok |-> e.new, trait |-> e.now, by |-> s]
      BY <3>1
    <3>6. p \in Tx /\ p.op = "offer" /\ p.by = s /\ p.tok = e.new
      BY <3>3, <3>4, <3>5 DEF Tx
    <3>7. Safe(nft, p)
      BY <3>2, <3>3, <3>6 DEF Safe, Gone
    <3>. QED BY <1>2, <3>1, <3>6, <3>7
  <2>. QED BY <1>4, <2>2, <2>3, <2>4, <2>5
<1>5. CASE m.step = "unwinding"
  <2>1. Pending(s) = {Compensation(s, c) : c \in {d \in m.left : IsNext(d, m.left)}}
    BY <1>5 DEF Pending
  <2>2. PICK c \in m.left : p = Compensation(s, c) /\ IsNext(c, m.left)
    BY <2>1
  <2>3. \A d \in m.left : d \in {"revert", "burn"} \X (1..2)
    BY <1>3 DEF SessionRec
  <2>4. \A d \in m.left : IsNext(d, m.left) => d = c
    <3>1. TAKE d \in m.left
    <3>2. HAVE IsNext(d, m.left)
    <3>3. /\ d = c \/ (c[1] = "revert" /\ d[1] = "burn") \/ (c[1] = d[1] /\ c[2] < d[2])
          /\ c = d \/ (d[1] = "revert" /\ c[1] = "burn") \/ (d[1] = c[1] /\ d[2] < c[2])
      BY <2>2, <3>2 DEF IsNext
    <3>4. c[2] \in 1..2 /\ d[2] \in 1..2
      BY <2>3
    <3>. QED BY <3>3, <3>4
  <2>5. \A q \in Pending(s) : q = p
    BY <2>1, <2>2, <2>4
  <2>6. c[1] \in {"revert", "burn"} /\ c[2] \in 1..2 /\ c = <<c[1], c[2]>>
    BY <2>3
  <2>7. CASE c[1] = "revert"
    <3>1. p = [op |-> "modify", tok |-> m.items[c[2]].tok, trait |-> m.items[c[2]].was, by |-> s]
      BY <2>2, <2>7 DEF Compensation
    <3>. QED BY <1>2, <1>3, <2>5, <2>6, <3>1 DEF Tx, Item, Safe
  <2>8. CASE c[1] = "burn"
    <3> DEFINE f == m.items[c[2]]
    <3>1. p = [op |-> "burn", tok |-> f.new, trait |-> f.now, by |-> s]
      BY <2>2, <2>8 DEF Compensation
    <3>2. Minted(f) /\ ~Gone(nft, s, f)
      BY <1>3, <1>5, <2>6, <2>8 DEF StepOK
    <3>3. f.new = <<f.tok[1], s>> /\ f.new \in Token /\ f \in Item
      BY <1>3, <2>6, <3>2 DEF Replacement
    <3> HIDE DEF f
    <3>4. f.now \in Edition
      BY <3>3 DEF Item
    <3>5. p \in Tx
      BY ONLY <3>1, <3>3, <3>4, s \in Session DEF Tx
    <3>6. f.new[1] = f.tok[1] /\ f.new[2] = s
      BY ONLY <3>3
    <3>7. Burner(nft, f.new[1]) # s
      BY ONLY <3>2, <3>6 DEF Gone
    <3>8. Safe(nft, p)
      BY ONLY <3>1, <3>6, <3>7 DEF Safe
    <3>9. Running(mem[s]) /\ p.by = s
      BY <1>2, <3>1
    <3>. QED BY <2>5, <3>5, <3>8, <3>9
  <2>. QED BY <2>6, <2>7, <2>8
<1>. QED BY <1>1, <1>4, <1>5

LEMMA RestartKeeps ==
  ASSUME IInv, Restart
  PROVE  IInv'
<1>1. /\ faults' = faults + 1
      /\ mem' = [s \in Session |-> IF Active(s) THEN Stop(mem[s], "gone") ELSE mem[s]]
      /\ flying' = flying \cup UNION {Pending(s) : s \in Session}
      /\ disturbed' \in BOOLEAN
      /\ UNCHANGED <<legacy, nft, index, journal>>
  BY DEF Restart
<1>2. \A s \in Session : Active(s) <=> Running(mem[s])
  BY DEF Active, Running
<1>3. ASSUME NEW s \in Session
      PROVE  mem'[s] \in SessionRec /\ SessionOK(nft, legacy, s, mem'[s])
  <2>1. mem[s] \in SessionRec /\ SessionOK(nft, legacy, s, mem[s])
    BY DEF IInv, Sessions, SessionOK
  <2>2. CASE Running(mem[s])
    <3>1. mem'[s] = Stop(mem[s], "gone") /\ "gone" \in Ends
      BY <1>1, <1>2, <2>2 DEF Ends
    <3>. QED BY <2>1, <3>1, EndIsOK
  <2>3. CASE ~Running(mem[s])
    <3>1. mem'[s] = mem[s]
      BY <1>1, <1>2, <2>3
    <3>. QED BY <2>1, <3>1
  <2>. QED BY <2>2, <2>3
<1>4. \A s \in Session : Running(mem[s]) \/ mem[s].step = "ended" => mem'[s].step = "ended"
  <2>1. \A s \in Session : Running(mem[s]) => mem'[s].step = "ended"
    BY <1>1, <1>2 DEF Stop, IInv, TypeOK
  <2>2. \A s \in Session : mem[s].step = "ended" => mem'[s] = mem[s]
    BY <1>1 DEF Active
  <2>. QED BY <2>1, <2>2
<1>5. \A tx \in flying : /\ tx \in Tx /\ tx.by \in Session /\ Safe(nft, tx)
                         /\ mem[tx.by].step = "ended"
                         /\ \A ty \in flying : ty.by = tx.by => ty = tx
  BY DEF IInv, TypeOK, Undecided, Tx
<1>6. \A tx \in flying' : tx \in flying \/ \E s \in Session : tx \in Pending(s)
  BY <1>1
<1>7. \A s \in Session : \A p \in Pending(s) :
        /\ p \in Tx /\ p.by = s /\ Safe(nft, p) /\ Running(mem[s])
        /\ \A q \in Pending(s) : q = p
  BY PendingIsSafe
<1>8. \A tx \in flying' : tx \in Tx /\ Safe(nft, tx) /\ mem'[tx.by].step = "ended"
  BY <1>4, <1>5, <1>6, <1>7
<1>9. \A tx, ty \in flying' : ty.by = tx.by => ty = tx
  BY <1>5, <1>6, <1>7 DEF Running
<1>10. Undecided' /\ Sessions'
  BY <1>1, <1>3, <1>8, <1>9 DEF Undecided, Sessions
<1>11. TypeOK'
  <2>1. mem' \in [Session -> SessionRec]
    BY <1>1, <1>3
  <2>2. flying' \in SUBSET Tx
    BY <1>8
  <2>. QED BY <1>1, <2>1, <2>2 DEF IInv, TypeOK, SessionRec
<1>12. Ledger(nft') /\ IndexKnows'
  BY <1>1 DEF IInv, IndexKnows, BurialsAreTrue
<1>. QED BY <1>10, <1>11, <1>12 DEF IInv

-----------------------------------------------------------------------------
(* The invariant, and what follows from it.                                *)

LEMMA InitEstablishes ==
  ASSUME Init
  PROVE  IInv
<1>1. /\ legacy \in SUBSET Edition /\ flying = {} /\ disturbed = FALSE /\ faults = 0
      /\ nft = [t \in Token |-> [at |-> IF t[2] = First THEN "user" ELSE "none",
                                 trait |-> t[1], offered |-> FALSE, by |-> First]]
      /\ index = [t \in Token |-> [at |-> IF t[2] = First THEN "user" ELSE "none",
                                   trait |-> t[1]]]
      /\ mem = [s \in Session |-> NoSession]
      /\ journal = [s \in Session |-> [st |-> "none", names |-> {}, behind |-> FALSE]]
  BY DEF Init
<1>2. NoSession \in SessionRec /\ NoSession.step = "none"
  <2>1. (CHOOSE f \in Surface : TRUE) \in Surface
    BY SwapAssumption
  <2>2. "none" \in Statuses /\ "none" \in Ends /\ "none" \in Steps
    BY StepNames DEF Statuses, Ends
  <2>. QED BY <2>1, <2>2 DEF NoSession, SessionRec
<1>3. \A t \in Token : nft[t] \in TokenState /\ index[t] \in [at : Places, trait : Edition]
  BY <1>1, TokenIsPair DEF TokenState, Places
<1>4. [st |-> "none", names |-> {}, behind |-> FALSE] \in Record
  BY DEF Record, Statuses
<1>5. TypeOK
  BY <1>1, <1>2, <1>3, <1>4 DEF TypeOK, TokenState, SessionRec, Record
<1>6. \A n \in Edition : /\ nft[<<n, First>>].by = First /\ nft[<<n, First>>].at = "user"
                         /\ Burner(nft, n) \notin Session
  BY <1>1, SwapAssumption, TokenIsPair DEF Burner
<1>7. \A n \in Edition, s \in Session : nft[<<n, s>>].at = "none" /\ ~nft[<<n, s>>].offered
  <2>1. ASSUME NEW n \in Edition, NEW s \in Session PROVE nft[<<n, s>>].at = "none" /\ ~nft[<<n, s>>].offered
    <3>1. <<n, s>> \in Token /\ s # First
      BY SwapAssumption, TokenIsPair
    <3>. QED BY <1>1, <3>1
  <2>. QED BY <2>1
<1>8. \A t \in Token : nft[t].at # "burned" /\ nft[t].by = First /\ index[t].at = nft[t].at
  BY <1>1
<1>9. Ledger(nft)
  <2>1. nft \in [Token -> TokenState]
    BY <1>5 DEF TypeOK, TokenState
  <2>2. \A t \in Token : nft[t].at = "burned" <=> nft[t].by \in Session
    BY ONLY <1>8, SwapAssumption
  <2>3. \A n \in Edition : nft[<<n, First>>].at \in {"user", "burned"}
    BY ONLY <1>6
  <2>4. \A n \in Edition, s \in Session :
          /\ nft[<<n, s>>].at = "user" \/ nft[<<n, s>>].offered => Burner(nft, n) = s
          /\ Burner(nft, n) = s => LiveIn(nft, <<n, s>>)
    BY ONLY <1>6, <1>7
  <2>. QED BY ONLY <2>1, <2>2, <2>3, <2>4 DEF Ledger
<1>10. Sessions
  BY <1>1, <1>2, <1>6 DEF Sessions, SessionOK, Untouched, Running
<1>11. Undecided /\ IndexKnows
  BY <1>1, <1>8 DEF Undecided, IndexKnows, BurialsAreTrue
<1>. QED BY <1>5, <1>9, <1>10, <1>11 DEF IInv

LEMMA NextKeeps ==
  ASSUME IInv, [Next]_vars
  PROVE  IInv'
<1>1. ASSUME NEW s \in Session, NEW f \in Surface, NEW t \in Token, NEW u \in Token, Start(s, f, t, u)
      PROVE  IInv'
  BY <1>1, StartKeeps
<1>2. ASSUME NEW s \in Session, PaymentSeen(s) \/ Cancel(s) \/ NoPayment(s) \/ PreCheck(s)
      PROVE  IInv'
  BY <1>2, PaymentSeenKeeps, WaitEndsKeeps, PreCheckKeeps
<1>3. ASSUME NEW s \in Session, MintOne(s) \/ ModifyOne(s) \/ BurnStale(s) \/ BurnOne(s)
      PROVE  IInv'
  BY <1>3, MintOneKeeps, ModifyOneKeeps, BurnStaleKeeps, BurnOneKeeps
<1>4. ASSUME NEW s \in Session, OfferOne(s) \/ Rescue(s) \/ UnwindOne(s)
      PROVE  IInv'
  BY <1>4, OfferOneKeeps, RescueKeeps, UnwindOneKeeps
<1>5. ASSUME NEW t \in Token, Accept(t) \/ Listen(t)
      PROVE  IInv'
  BY <1>5, AcceptKeeps, ListenKeeps
<1>6. ASSUME NEW tx \in flying, Land(tx)
      PROVE  IInv'
  BY <1>6, LandKeeps
<1>7. CASE Restart
  BY <1>7, RestartKeeps
<1>8. CASE UNCHANGED vars
  BY <1>8 DEF vars, IInv, TypeOK, Sessions, Undecided, IndexKnows, BurialsAreTrue
<1>. QED BY <1>1, <1>2, <1>3, <1>4, <1>5, <1>6, <1>7, <1>8 DEF Next, Task

\* The invariant holds of every behaviour.
THEOREM InductiveInvariant == Spec => []IInv
<1>1. Init => IInv
  BY InitEstablishes
<1>2. IInv /\ [Next]_vars => IInv'
  BY NextKeeps
<1>. QED BY <1>1, <1>2, PTL DEF Spec

\* Every variable stays in its type: no session loses track of its items, and
\* nothing is offered or burned back that was never minted.
THEOREM TypeCorrect == Spec => []TypeOK
<1>1. IInv => TypeOK
  BY DEF IInv
<1>. QED BY <1>1, InductiveInvariant, PTL

\* The burn of an original leaves its owner a replacement, and nobody is ever
\* left or offered two tokens of an edition: the order mint, burn, offer in
\* run_swap_session, and what its unwinding burns back.
THEOREM EditionIsSingle == Spec => []OneTokenPerEdition
<1>1. IInv => OneTokenPerEdition
  <2> SUFFICES ASSUME IInv PROVE OneTokenPerEdition
    OBVIOUS
  <2>1. Ledger(nft)
    BY DEF IInv
  <2>2. ASSUME NEW n \in Edition, nft[<<n, First>>].at = "burned"
        PROVE  \E s \in Session : Live(<<n, s>>)
    BY <2>1, <2>2, TokenIsPair DEF Ledger, Live, LiveIn, Burner
  <2>3. ASSUME NEW t \in Token, InHand(t)
        PROVE  \/ t = <<t[1], First>> /\ Burner(nft, t[1]) \notin Session
               \/ /\ t = <<t[1], Burner(nft, t[1])>>
                  /\ Burner(nft, t[1]) \in Session
    <3>1. t[1] \in Edition /\ t[2] \in Session \cup {First} /\ t = <<t[1], t[2]>>
      BY TokenIsPair
    <3>2. nft[t].at # "burned" /\ (nft[t].at = "user" \/ nft[t].offered)
      BY <2>3 DEF InHand, Live
    <3>3. CASE t[2] = First
      BY <2>1, <3>1, <3>2, <3>3 DEF Ledger, Burner
    <3>4. CASE t[2] \in Session
      BY <2>1, <3>1, <3>2, <3>4 DEF Ledger
    <3>. QED BY <3>1, <3>3, <3>4
  <2>4. ASSUME NEW t \in Token, NEW u \in Token, t[1] = u[1], InHand(t), InHand(u)
        PROVE  t = u
    <3>1. /\ \/ t = <<t[1], First>> /\ Burner(nft, t[1]) \notin Session
             \/ t = <<t[1], Burner(nft, t[1])>> /\ Burner(nft, t[1]) \in Session
          /\ \/ u = <<u[1], First>> /\ Burner(nft, u[1]) \notin Session
             \/ u = <<u[1], Burner(nft, u[1])>> /\ Burner(nft, u[1]) \in Session
      BY <2>3, <2>4
    <3>. QED BY <2>4, <3>1
  <2>. QED BY <2>2, <2>4 DEF OneTokenPerEdition
<1>. QED BY <1>1, InductiveInvariant, PTL

\* The index calls no living token burned, although it lags and its writes
\* fail: only a definite absence of what once was, or a known burn, marks it.
THEOREM BurialsHold == Spec => []BurialsAreTrue
<1>1. IInv => BurialsAreTrue
  BY DEF IInv, IndexKnows
<1>. QED BY <1>1, InductiveInvariant, PTL
-----------------------------------------------------------------------------
(* What the journal tells of a session.                                    *)

\* The originals a session burned, and the editions it delivered.
BurnedIn(N, s)    == {n \in Edition : Burner(N, n) = s}
DeliveredIn(N, s) == {n \in Edition : N[<<n, s>>].offered}

\* Records that claim nothing of either.
Plain == Statuses \ (Unwound \cup Partial \cup {"partial", "complete"})

\* The editions whose originals a session is to burn.
Old(L, m) == {m.items[i].tok[1] : i \in Legs(L, m)}

\* The record J is true of a session that ended, having burned the editions B
\* and offered the replacements of O.
Told(B, O, L, m, J) ==
    /\ J.st \in Unwound => B = {} /\ O = {}
    /\ J.st \in Partial \cup {"partial"} => \E n \in Old(L, m) : B = {n} /\ O \subseteq {n}
    /\ J.st = "partial" => O = B
    /\ J.st = "complete" => B = Old(L, m) /\ O = Old(L, m)

\* And while it goes on, its record stays behind what it did.
RecordOK(B, O, L, s, m, J) ==
    /\ J.behind \/ \A n \in B : <<n, s>> \in J.names
    /\ m.step # "none" => m.items \in Item \X Item /\ B \subseteq Old(L, m)
    /\ m.step \notin {"rescuing", "ended"} => J.st \in Plain
    /\ m.step \notin {"offering", "ended"} => O = {}
    /\ m.step \in {"modifying", "burning"} =>
        J.behind \/ \A i \in Legs(L, m) : m.items[i].new \in J.names
    /\ m.step = "offering" => O = {m.items[i].tok[1] : i \in {j \in Legs(L, m) : j < m.at}}
    /\ m.step = "unwinding" =>
        \/ m.why \in Unwound /\ B = {}
        \/ m.why \in Partial /\ \E n \in Old(L, m) : B = {n}
    /\ m.step = "rescuing" => /\ m.why \in Partial /\ J.st \in Plain \cup {m.why}
                              /\ B = {m.items[m.at].tok[1]}
    /\ m.step = "ended" => Told(B, O, L, m, J)

\* A transaction that lands after its session ended leaves the record true.
LateOK(B, L, m, J, tx) ==
    /\ tx.op = "burn" /\ tx.tok[2] = First =>
        /\ J.st \in Plain /\ tx.tok[1] \in Old(L, m)
        /\ J.behind \/ <<tx.tok[1], tx.by>> \in J.names
    /\ tx.op = "offer" => J.st \in Plain \/ (J.st \in Partial /\ B = {tx.tok[1]})

Records ==
    /\ \A s \in Session :
        RecordOK(BurnedIn(nft, s), DeliveredIn(nft, s), legacy, s, mem[s], journal[s])
    /\ \A tx \in flying : LateOK(BurnedIn(nft, tx.by), legacy, mem[tx.by], journal[tx.by], tx)

\* The statuses a stride journals, and what the disk may hold after it: the
\* old record, or the new names under one of them.
Entries(w) == {w[k] : k \in 1..Len(w)}

Written(J, r, K) ==
    \/ K.st = J.st /\ K.names = J.names /\ (K.behind <=> J.behind \/ Entries(r.writes) # {})
    \/ K.st \in Entries(r.writes) /\ K.names = Names(r.mem) /\ ~K.behind

\* Whatever is written of it, the next state is told.
NextTells(B, O, s, r, J) ==
    \A K \in Record : Written(J, r, K) => RecordOK(B, O, legacy, s, r.mem, K)

LEMMA EntriesAre ==
  /\ Entries(<<>>) = {}
  /\ \A st \in Statuses : Entries(<<st>>) = {st}
  /\ \A v, w \in Seq(Statuses) : Entries(v \o w) = Entries(v) \cup Entries(w)
  /\ \A w \in Seq(Statuses) : Entries(w) = {} <=> w = <<>>
<1>1. Entries(<<>>) = {}
  BY DEF Entries
<1>2. ASSUME NEW st \in Statuses PROVE Entries(<<st>>) = {st}
  <2>1. Len(<<st>>) = 1 /\ <<st>>[1] = st /\ 1..1 = {1}
    OBVIOUS
  <2>. QED BY <2>1 DEF Entries
<1>3. ASSUME NEW v \in Seq(Statuses), NEW w \in Seq(Statuses)
      PROVE  Entries(v \o w) = Entries(v) \cup Entries(w)
  <2>1. Len(v) \in Nat /\ Len(w) \in Nat /\ Len(v \o w) = Len(v) + Len(w)
    OBVIOUS
  <2>2. \A k \in 1..(Len(v) + Len(w)) :
          (v \o w)[k] = IF k <= Len(v) THEN v[k] ELSE w[k - Len(v)]
    OBVIOUS
  <2>3. ASSUME NEW k \in 1..Len(v) PROVE v[k] \in Entries(v \o w)
    <3>1. k \in 1..(Len(v) + Len(w)) /\ k <= Len(v)
      BY <2>1
    <3>. QED BY <2>1, <2>2, <3>1 DEF Entries
  <2>4. ASSUME NEW k \in 1..Len(w) PROVE w[k] \in Entries(v \o w)
    <3>1. Len(v) + k \in 1..(Len(v) + Len(w)) /\ ~(Len(v) + k <= Len(v)) /\ Len(v) + k - Len(v) = k
      BY <2>1
    <3>. QED BY <2>1, <2>2, <3>1 DEF Entries
  <2>5. ASSUME NEW k \in 1..(Len(v) + Len(w)) PROVE (v \o w)[k] \in Entries(v) \cup Entries(w)
    <3>1. CASE k <= Len(v)
      <4>1. k \in 1..Len(v) /\ (v \o w)[k] = v[k]
        BY <2>1, <2>2, <3>1
      <4>. QED BY <4>1 DEF Entries
    <3>2. CASE ~(k <= Len(v))
      <4>1. k - Len(v) \in 1..Len(w) /\ (v \o w)[k] = w[k - Len(v)]
        BY <2>1, <2>2, <3>2
      <4>. QED BY <4>1 DEF Entries
    <3>. QED BY <3>1, <3>2
  <2>6. Entries(v \o w) \subseteq Entries(v) \cup Entries(w)
    BY <2>1, <2>5 DEF Entries
  <2>7. Entries(v) \subseteq Entries(v \o w) /\ Entries(w) \subseteq Entries(v \o w)
    BY <2>3, <2>4 DEF Entries
  <2>. QED BY <2>6, <2>7
<1>4. ASSUME NEW w \in Seq(Statuses), w # <<>> PROVE Entries(w) # {}
  <2>1. Len(w) \in Nat /\ Len(w) # 0
    BY <1>4
  <2>2. 1 \in 1..Len(w)
    BY <2>1
  <2>. QED BY <2>2 DEF Entries
<1>. QED BY <1>1, <1>2, <1>3, <1>4

\* What a session gone through a phase journals.
LEMMA ProceedWrites ==
  ASSUME NEW s \in Session, NEW m, m.step = mem[s].step,
         m.step \in FivePhases \cup {"checking"}, Following(s) \in FivePhases \cup {"ready"}
  PROVE  LET w == Entries(Proceed(s, m).writes)
             f == Following(s) IN
         /\ f # "ready" => w \subseteq Plain
         /\ w \subseteq Plain \cup {"complete"}
         /\ f = "modifying" => w # {}
         /\ f = "burning" /\ m.step \in {"minting", "modifying"} => w # {}
<1> DEFINE c == Closing[mem[s].step]
           o == Opening[Following(s)]
<1>1. Entries(Proceed(s, m).writes) = Entries(c) \cup Entries(o)
  <2>1. c \in Seq(Statuses) /\ o \in Seq(Statuses)
    BY WritesAreStatuses DEF FivePhases
  <2>2. Proceed(s, m).writes = c \o o
    BY DEF Proceed
  <2> HIDE DEF c, o
  <2>. QED BY <2>1, <2>2, EntriesAre
<1>2. {"fee_paid", "minted", "modified", "burned", "minting", "modifying", "complete"}
        \subseteq Statuses
  BY DEF Statuses
<1>3. /\ Entries(<<>>) = {} /\ Entries(<<"fee_paid">>) = {"fee_paid"}
      /\ Entries(<<"minted">>) = {"minted"} /\ Entries(<<"modified">>) = {"modified"}
      /\ Entries(<<"burned">>) = {"burned"} /\ Entries(<<"minting">>) = {"minting"}
      /\ Entries(<<"modifying">>) = {"modifying"} /\ Entries(<<"complete">>) = {"complete"}
  BY <1>2, EntriesAre
<1>4. /\ m.step \in {"checking", "offering"} => Entries(c) = {}
      /\ m.step = "paying" => Entries(c) = {"fee_paid"}
      /\ m.step = "minting" => Entries(c) = {"minted"}
      /\ m.step = "modifying" => Entries(c) = {"modified"}
      /\ m.step = "burning" => Entries(c) = {"burned"}
  BY <1>3 DEF Closing
<1>5. /\ Following(s) \in {"paying", "burning", "offering"} => Entries(o) = {}
      /\ Following(s) = "minting" => Entries(o) = {"minting"}
      /\ Following(s) = "modifying" => Entries(o) = {"modifying"}
      /\ Following(s) = "ready" => Entries(o) = {"complete"}
  BY <1>3 DEF Opening
<1>6. {"fee_paid", "minted", "modified", "burned", "minting", "modifying"} \subseteq Plain
  BY DEF Plain, Statuses, Unwound, Partial
<1> HIDE DEF c, o
<1>7. Entries(c) \subseteq Plain
  BY <1>4, <1>6 DEF FivePhases
<1>8. Following(s) # "ready" => Entries(o) \subseteq Plain
  BY <1>5, <1>6 DEF FivePhases
<1>9. Entries(o) \subseteq Plain \cup {"complete"}
  BY <1>5, <1>6 DEF FivePhases
<1>10. Following(s) = "modifying" => Entries(o) # {}
  BY <1>5
<1>11. m.step \in {"minting", "modifying"} => Entries(c) # {}
  BY <1>4
<1>. QED BY <1>1, <1>7, <1>8, <1>9, <1>10, <1>11

\* A session is through only when it has nothing to burn, or burned it all.
LEMMA ReadyIs ==
  ASSUME NEW N, NEW s \in Session, NEW m, From(N, s, m), m.step \in FivePhases \cup {"checking"},
         Following(s) = "ready"
  PROVE  Legs(legacy, m) = {} \/ m.step = "offering"
<1> DEFINE lg == Legs(legacy, m)
           pos == Position[m.step]
           rest == {i \in 1..5 : i > pos /\ Work(s, Phases[i]) # {}}
<1>1. SUFFICES ASSUME lg # {}, m.step # "offering" PROVE FALSE
  OBVIOUS
<1>2. Phases[5] = "offering" /\ Work(s, "offering") = lg
  BY SameLegs DEF Work, Phases
<1>3. pos \in 0..4
  BY <1>1 DEF Position, FivePhases
<1>4. 5 \in rest
  BY <1>1, <1>2, <1>3
<1>5. Following(s) = Phases[Least(rest)]
  BY <1>4 DEF Following, From
<1>6. Least(rest) \in 1..5
  <2>1. rest \subseteq 1..5 /\ rest # {}
    BY <1>4
  <2> HIDE DEF rest
  <2>. QED BY <2>1, LeastIsLeast
<1>. QED BY <1>5, <1>6 DEF Phases

\* The editions a transaction burns the original of, or delivers.
Burns(tx)  == IF tx.op = "burn" /\ tx.tok[2] = First THEN {tx.tok[1]} ELSE {}
Offers(tx) == IF tx.op = "offer" THEN {tx.tok[1]} ELSE {}

\* What a step adds to one session's burns and deliveries, and to nobody else's.
Adds(N, M, s, B, O) ==
    /\ BurnedIn(M, s) = BurnedIn(N, s) \cup B /\ DeliveredIn(M, s) = DeliveredIn(N, s) \cup O
    /\ \A r \in Session \ {s} : BurnedIn(M, r) = BurnedIn(N, r) /\ DeliveredIn(M, r) = DeliveredIn(N, r)

LEMMA AddsNothing == \A N, s : Adds(N, N, s, {}, {})
BY DEF Adds

LEMMA LandingAdds ==
  ASSUME Ledger(nft), NEW tx \in Tx, Safe(nft, tx), Lands(tx)
  PROVE  Adds(nft, nft', tx.by, Burns(tx), Offers(tx))
<1> DEFINE k == tx.tok
<1>1. /\ k \in Token /\ tx.by \in Session /\ tx.op \in {"mint", "modify", "burn", "offer"}
      /\ k[1] \in Edition /\ k[2] \in Session \cup {First} /\ k = <<k[1], k[2]>>
  BY TokenIsPair DEF Tx
<1>2. nft \in [Token -> TokenState] /\ nft' \in [Token -> TokenState]
      /\ \A t \in Token : t # k => nft'[t] = nft[t]
  BY LandsChanges DEF Ledger
<1>3. \A t \in Token : tx.op # "offer" => nft'[t].offered = nft[t].offered
  BY <1>1, <1>2, LandsChanges DEF Ledger
<1>4. \A t \in Token : tx.op # "burn" => nft'[t].by = nft[t].by
  BY <1>1, <1>2, LandsChanges DEF Ledger
<1>5. ASSUME NEW n \in Edition
      PROVE  Burner(nft', n) = IF n \in Burns(tx) THEN tx.by ELSE Burner(nft, n)
  <2>1. <<n, First>> \in Token /\ (<<n, First>> = k <=> n = k[1] /\ k[2] = First)
    BY <1>1, TokenIsPair
  <2>2. CASE tx.op # "burn"
    BY <1>4, <2>1, <2>2 DEF Burns, Burner
  <2>3. CASE tx.op = "burn" /\ k[2] = First /\ n = k[1]
    BY <2>1, <2>3, LandsChanges DEF Ledger, Burns, Burner
  <2>4. CASE tx.op = "burn" /\ ~(k[2] = First /\ n = k[1])
    BY <1>2, <2>1, <2>4 DEF Burns, Burner
  <2>. QED BY <2>2, <2>3, <2>4
<1>6. \A n \in Burns(tx) : n \in Edition /\ Burner(nft, n) \notin Session
  <2>1. CASE tx.op = "burn" /\ k[2] = First
    <3>1. nft[k].at # "burned" /\ k = <<k[1], First>>
      BY <1>1, <2>1, LandsChanges DEF Ledger, LiveIn
    <3>. QED BY <1>1, <2>1, <3>1 DEF Burns, Ledger, Burner
  <2>. QED BY <2>1 DEF Burns
<1>7. ASSUME NEW n \in Edition, NEW r \in Session
      PROVE  nft'[<<n, r>>].offered <=> nft[<<n, r>>].offered \/ (r = tx.by /\ n \in Offers(tx))
  <2>1. <<n, r>> \in Token /\ (<<n, r>> = k <=> n = k[1] /\ r = k[2])
    BY <1>1, TokenIsPair
  <2>2. CASE tx.op # "offer"
    BY <1>3, <2>1, <2>2 DEF Offers
  <2>3. CASE tx.op = "offer"
    <3>1. k[2] = tx.by
      BY <2>3 DEF Safe
    <3>2. nft'[k].offered
      <4>1. nft' = [nft EXCEPT ![k] = Effect(tx)]
        BY DEF Lands
      <4>2. nft'[k] = Effect(tx) /\ nft[k] \in TokenState
        BY <1>1, <1>2, <4>1
      <4>. QED BY <2>3, <4>2 DEF Effect, TokenState
    <3>. QED BY <1>2, <2>1, <2>3, <3>1, <3>2 DEF Offers
  <2>. QED BY <2>2, <2>3
<1>8. \A r \in Session : BurnedIn(nft', r) = IF r = tx.by THEN BurnedIn(nft, r) \cup Burns(tx)
                                             ELSE BurnedIn(nft, r)
  <2>1. TAKE r \in Session
  <2>2. \A n \in Edition : Burner(nft', n) = r <=> Burner(nft, n) = r \/ (r = tx.by /\ n \in Burns(tx))
    BY <1>1, <1>5, <1>6
  <2>3. Burns(tx) \subseteq Edition
    BY <1>6
  <2> HIDE DEF k
  <2>. QED BY <2>2, <2>3 DEF BurnedIn
<1>9. \A r \in Session : DeliveredIn(nft', r) = IF r = tx.by THEN DeliveredIn(nft, r) \cup Offers(tx)
                                                ELSE DeliveredIn(nft, r)
  <2>1. TAKE r \in Session
  <2>2. Offers(tx) \subseteq Edition
    BY <1>1 DEF Offers
  <2>. QED BY <1>7, <2>2 DEF DeliveredIn
<1>. QED BY <1>1, <1>8, <1>9 DEF Adds

\* What is burned and offered by a transaction, whatever comes of it.
LEMMA OutcomeAdds ==
  ASSUME Ledger(nft), NEW tx \in Tx, Safe(nft, tx), NEW out \in Outcomes, Outcome(tx, out)
  PROVE  /\ out = "done" => Adds(nft, nft', tx.by, Burns(tx), Offers(tx))
         /\ out # "done" => Adds(nft, nft', tx.by, {}, {})
<1>1. out # "done" => nft' = nft
  BY DEF Outcome
<1>2. out = "done" => Lands(tx)
  BY DEF Outcome
<1>. QED BY <1>1, <1>2, LandingAdds, AddsNothing

\* Where a session stands, and what it burned.
LEMMA BurnedIs ==
  ASSUME NEW N, NEW s
  PROVE  /\ Untouched(N, s) <=> BurnedIn(N, s) = {}
         /\ \A e \in Item : Gone(N, s, e) <=> e.tok[1] \in BurnedIn(N, s)
<1>1. Untouched(N, s) <=> BurnedIn(N, s) = {}
  BY DEF Untouched, BurnedIn
<1>2. \A e \in Item : e.tok[1] \in Edition
  BY TokenIsPair DEF Item
<1>. QED BY <1>1, <1>2 DEF Gone, BurnedIn

-----------------------------------------------------------------------------
(* One session steps, the others' records stay true.                       *)

LEMMA StepTells ==
  ASSUME IInv, Records, NEW s \in Session, mem[s].step # "ended", NEW m, NEW J, NEW B, NEW O,
         mem' = [mem EXCEPT ![s] = m], journal' = [journal EXCEPT ![s] = J], legacy' = legacy,
         Adds(nft, nft', s, B, O),
         RecordOK(BurnedIn(nft', s), DeliveredIn(nft', s), legacy, s, m, J),
         \/ flying' = flying
         \/ \E tx \in Tx : /\ tx.by = s /\ flying' = flying \cup {tx}
                           /\ LateOK(BurnedIn(nft', s), legacy, m, J, tx)
  PROVE  Records'
<1>1. mem \in [Session -> SessionRec] /\ journal \in [Session -> Record]
  BY DEF IInv, TypeOK, SessionRec, Record
<1>2. /\ mem'[s] = m /\ journal'[s] = J
      /\ \A r \in Session : r # s => mem'[r] = mem[r] /\ journal'[r] = journal[r]
  BY <1>1
<1>3. ASSUME NEW r \in Session
      PROVE  RecordOK(BurnedIn(nft', r), DeliveredIn(nft', r), legacy', r, mem'[r], journal'[r])
  <2>1. CASE r # s
    <3>1. BurnedIn(nft', r) = BurnedIn(nft, r) /\ DeliveredIn(nft', r) = DeliveredIn(nft, r)
      BY <2>1 DEF Adds
    <3>2. RecordOK(BurnedIn(nft, r), DeliveredIn(nft, r), legacy, r, mem[r], journal[r])
      BY DEF Records
    <3>. QED BY <1>2, <2>1, <3>1, <3>2
  <2>. QED BY <1>2, <2>1
<1>4. ASSUME NEW tx \in flying
      PROVE  LateOK(BurnedIn(nft', tx.by), legacy', mem'[tx.by], journal'[tx.by], tx)
  <2>1. tx.by \in Session /\ tx.by # s
    BY DEF IInv, TypeOK, Undecided, Tx
  <2>2. BurnedIn(nft', tx.by) = BurnedIn(nft, tx.by)
    BY <2>1 DEF Adds
  <2>. QED BY <1>2, <2>1, <2>2 DEF Records
<1>5. \A tx \in flying' : LateOK(BurnedIn(nft', tx.by), legacy', mem'[tx.by], journal'[tx.by], tx)
  BY <1>2, <1>4
<1>. QED BY <1>3, <1>5 DEF Records

\* The same for a step that commits.
LEMMA CommitTells ==
  ASSUME IInv, Records, NEW s \in Session, Running(mem[s]), NEW next,
         GoesOn(s, next), legacy' = legacy,
         NEW B, NEW O, Adds(nft, nft', s, B, O),
         NextTells(BurnedIn(nft', s), DeliveredIn(nft', s), s, next, journal[s]),
         \/ flying' = flying
         \/ \E tx \in Tx : /\ tx.by = s /\ flying' = flying \cup {tx}
                           /\ \A K \in Record : Written(journal[s], next, K) =>
                                LateOK(BurnedIn(nft', s), legacy, next.mem, K, tx)
  PROVE  Records'
<1>1. PICK k \in 0..Len(next.writes) :
        /\ mem' = [mem EXCEPT ![s] = next.mem]
        /\ journal' = [journal EXCEPT ![s] =
              IF k = 0 THEN [journal[s] EXCEPT !.behind = @ \/ next.writes # <<>>]
              ELSE [st |-> next.writes[k], names |-> Names(next.mem), behind |-> FALSE]]
  BY DEF GoesOn, Commit
<1> DEFINE K == IF k = 0 THEN [journal[s] EXCEPT !.behind = @ \/ next.writes # <<>>]
                ELSE [st |-> next.writes[k], names |-> Names(next.mem), behind |-> FALSE]
<1>2. next.writes \in Seq(Statuses) /\ next.mem.items \in Item \X Item
  BY DEF GoesOn, NextOK
<1>3. journal[s] \in Record
  BY DEF IInv, TypeOK, Record
<1>4. Names(next.mem) \in SUBSET Token
  BY <1>2 DEF Names, Item
<1>5. Entries(next.writes) # {} <=> next.writes # <<>>
  BY <1>2, EntriesAre
<1>6. K \in Record /\ Written(journal[s], next, K)
  <2>1. CASE k = 0
    <3>1. K = [journal[s] EXCEPT !.behind = @ \/ next.writes # <<>>]
      BY <2>1
    <3> HIDE DEF K
    <3>2. K \in Record /\ K.st = journal[s].st /\ K.names = journal[s].names
          /\ K.behind = (journal[s].behind \/ next.writes # <<>>)
      BY <1>3, <3>1 DEF Record
    <3>. QED BY <1>5, <3>2 DEF Written
  <2>2. CASE k # 0
    <3>1. K = [st |-> next.writes[k], names |-> Names(next.mem), behind |-> FALSE]
      BY <2>2
    <3>2. k \in 1..Len(next.writes) /\ next.writes[k] \in Statuses
      BY <1>1, <1>2, <2>2
    <3> HIDE DEF K
    <3>3. K \in Record /\ K.st = next.writes[k] /\ K.names = Names(next.mem) /\ K.behind = FALSE
      BY <1>4, <3>1, <3>2 DEF Record
    <3>4. next.writes[k] \in Entries(next.writes)
      BY <3>2 DEF Entries
    <3>. QED BY <3>3, <3>4 DEF Written
  <2>. QED BY <2>1, <2>2
<1>7. journal' = [journal EXCEPT ![s] = K] /\ mem[s].step # "ended"
  BY <1>1 DEF Running
<1> HIDE DEF K
<1>8. RecordOK(BurnedIn(nft', s), DeliveredIn(nft', s), legacy, s, next.mem, K)
  BY <1>6 DEF NextTells
<1>9. \/ flying' = flying
      \/ \E tx \in Tx : /\ tx.by = s /\ flying' = flying \cup {tx}
                        /\ LateOK(BurnedIn(nft', s), legacy, next.mem, K, tx)
  BY <1>6
<1>. QED BY <1>1, <1>7, <1>8, <1>9, StepTells

-----------------------------------------------------------------------------
(* Going on leaves the record true.                                        *)

\* The record of a session at work, before it goes on.
Ahead(B, O, s, m, J) ==
    /\ J.st \in Plain
    /\ J.behind \/ \A n \in B : <<n, s>> \in J.names
    /\ B \subseteq Old(legacy, m)
    /\ m.step # "offering" => O = {}
    /\ m.step \in {"modifying", "burning"} =>
        J.behind \/ \A i \in Legs(legacy, m) : m.items[i].new \in J.names

LEMMA BurnedAreNamed ==
  ASSUME NEW N, NEW s \in Session, NEW m, ItemsOK(N, legacy, s, m),
         BurnedIn(N, s) \subseteq Old(legacy, m),
         \A i \in Legs(legacy, m) : Gone(N, s, m.items[i]) => Minted(m.items[i])
  PROVE  \A n \in BurnedIn(N, s) : <<n, s>> \in Names(m)
<1> TAKE n \in BurnedIn(N, s)
<1>1. PICK i \in Legs(legacy, m) : n = m.items[i].tok[1]
  BY DEF Old
<1>2. i \in 1..2 /\ m.items[i] \in Item /\ m.items \in Item \X Item
  BY <1>1 DEF Legs, ItemsOK
<1>3. Minted(m.items[i])
  BY <1>1, <1>2, BurnedIs
<1>4. m.items[i].new = <<n, s>>
  BY <1>1, <1>2, <1>3 DEF ItemsOK, ItemOK
<1>5. DOMAIN m.items = 1..2
  BY <1>2
<1>. QED BY <1>2, <1>3, <1>4, <1>5 DEF Names, Minted

LEMMA EnterIs ==
  ASSUME NEW N, NEW s \in Session, NEW m, From(N, s, m), NEW f \in FivePhases, Work(s, f) # {}
  PROVE  /\ Enter(s, m, f).step = f /\ Enter(s, m, f).items = m.items
         /\ Enter(s, m, f).at \in Work(s, f)
         /\ \A j \in Work(s, f) : Enter(s, m, f).at <= j
<1> DEFINE a == Least(Work(s, f))
<1>1. Work(s, f) \subseteq 1..5
  BY SameLegs DEF Work
<1>2. a \in Work(s, f) /\ \A j \in Work(s, f) : a <= j
  BY <1>1, LeastIsLeast
<1>3. Enter(s, m, f) = [m EXCEPT !.step = f, !.at = a]
  BY DEF Enter, FivePhases
<1>4. m \in SessionRec
  BY DEF From
<1> HIDE DEF a
<1>. QED BY <1>2, <1>3, <1>4 DEF SessionRec

LEMMA ProceedTells ==
  ASSUME NEW N, NEW s \in Session, NEW m, From(N, s, m), Through(N, s, m),
         m.step \in FivePhases \cup {"checking"}, NEW O, NEW J \in Record,
         Ahead(BurnedIn(N, s), O, s, m, J),
         m.step = "offering" => O = Old(legacy, m)
  PROVE  NextTells(BurnedIn(N, s), O, s, Proceed(s, m), J)
<1> DEFINE f == Following(s)
           B == BurnedIn(N, s)
           lg == Legs(legacy, m)
           r == Proceed(s, m)
<1>1. /\ f \in FivePhases \cup {"ready"}
      /\ f \in {"paying", "modifying"} => (1..2) \ lg # {}
      /\ f \in {"minting", "burning", "offering"} => lg # {}
      /\ f = "paying" => m.step = "checking"
      /\ f = "minting" => m.step \in {"checking", "paying"}
      /\ f = "modifying" => m.step = "minting" \/ (m.step \in {"checking", "paying"} /\ lg = {})
      /\ f = "burning" => m.step \in {"minting", "modifying"}
      /\ f = "offering" => m.step = "burning"
      /\ f = "ready" => lg = {} \/ m.step = "offering"
  BY FollowingIs, ReadyIs
<1>2. /\ m \in SessionRec /\ m.step = mem[s].step /\ lg \subseteq 1..2
      /\ m.items \in Item \X Item
  BY SameLegs DEF From, ItemsOK
<1>3. /\ f # "ready" => Entries(r.writes) \subseteq Plain
      /\ Entries(r.writes) \subseteq Plain \cup {"complete"}
      /\ f \in {"modifying", "burning"} => Entries(r.writes) # {}
  BY <1>1, <1>2, ProceedWrites
<1>4. r.mem = Enter(s, m, f)
  BY DEF Proceed
<1>5. \A n \in B : <<n, s>> \in Names(m)
  <2>1. \A i \in lg : Gone(N, s, m.items[i]) => Minted(m.items[i])
    <3>1. m.step \in {"checking", "paying"} => B = {}
      BY BurnedIs DEF Through
    <3>2. \A i \in lg : m.items[i] \in Item
      BY SameLegs
    <3>3. m.step \in {"checking", "paying"} => \A i \in lg : ~Gone(N, s, m.items[i])
      BY <3>1, <3>2, BurnedIs
    <3>. QED BY <3>3 DEF Through, FivePhases
  <2>. QED BY <2>1, BurnedAreNamed DEF From, Ahead
<1>6. CASE f = "ready"
  <2>1. r.mem.step = "ended" /\ r.mem.items = m.items
    BY <1>2, <1>4, <1>6, EndIsOK DEF Enter, Ends
  <2>2. Old(legacy, r.mem) = Old(legacy, m) /\ Names(r.mem) = Names(m)
    BY <2>1 DEF Old, Legs, Names
  <2>3. B = Old(legacy, m) /\ O = Old(legacy, m)
    <3>1. CASE lg = {}
      BY <3>1 DEF Old, Ahead
    <3>2. CASE m.step = "offering"
      <4>1. \A i \in lg : m.items[i].tok[1] \in B
        BY <3>2, SameLegs, BurnedIs DEF Through
      <4>. QED BY <3>2, <4>1 DEF Old, Ahead
    <3>. QED BY <1>1, <1>6, <3>1, <3>2
  <2>4. ASSUME NEW K \in Record, Written(J, r, K)
        PROVE  RecordOK(B, O, legacy, s, r.mem, K)
    <3>1. K.behind \/ \A n \in B : <<n, s>> \in K.names
      BY <1>5, <2>2, <2>4 DEF Written, Ahead
    <3>2. K.st \in Plain \cup {"complete"}
      BY <1>3, <2>4 DEF Written, Ahead
    <3>3. Told(B, O, legacy, r.mem, K)
      BY <2>2, <2>3, <3>2 DEF Told, Plain, Unwound, Partial
    <3>. QED BY <1>2, <2>1, <2>2, <2>3, <3>1, <3>3 DEF RecordOK
  <2>. QED BY <2>4 DEF NextTells
<1>7. CASE f # "ready"
  <2>1. f \in FivePhases /\ Work(s, f) = IF f \in {"paying", "modifying"} THEN (1..2) \ lg ELSE lg
    BY <1>1, <1>7, SameLegs DEF Work
  <2>2. Work(s, f) # {}
    BY <1>1, <2>1 DEF FivePhases
  <2> HIDE DEF f
  <2>3. /\ r.mem.step = f /\ r.mem.items = m.items /\ r.mem.at \in Work(s, f)
        /\ \A j \in Work(s, f) : r.mem.at <= j
    <3>1. /\ Enter(s, m, f).step = f /\ Enter(s, m, f).items = m.items
          /\ Enter(s, m, f).at \in Work(s, f)
          /\ \A j \in Work(s, f) : Enter(s, m, f).at <= j
      BY <2>1, <2>2, EnterIs
    <3>. QED BY <1>4, <3>1
  <2>4. /\ Old(legacy, r.mem) = Old(legacy, m) /\ Names(r.mem) = Names(m)
        /\ Legs(legacy, r.mem) = lg
    BY <2>3 DEF Old, Legs, Names
  <2>5. f # "offering" => O = {}
    BY <1>1, <2>1 DEF Ahead, FivePhases
  <2>6. f = "offering" => O = {} /\ \A j \in lg : ~(j < r.mem.at)
    <3>1. f = "offering" => O = {}
      BY <1>1 DEF Ahead
    <3>2. \A i, j \in 1..2 : i <= j => ~(j < i)
      OBVIOUS
    <3>. QED BY <1>2, <2>1, <2>3, <3>1, <3>2
  <2>7. f \in {"modifying", "burning"} => \A i \in lg : m.items[i].new \in Names(m)
    <3>1. f \in {"modifying", "burning"} => lg = {} \/ m.step \in {"minting", "modifying"}
      BY <1>1
    <3>2. m.step \in {"minting", "modifying"} => \A i \in lg : Minted(m.items[i])
      BY DEF Through
    <3>3. \A i \in lg : i \in DOMAIN m.items
      BY <1>2
    <3>. QED BY <3>1, <3>2, <3>3 DEF Names, Minted
  <2>8. ASSUME NEW K \in Record, Written(J, r, K)
        PROVE  RecordOK(B, O, legacy, s, r.mem, K)
    <3>1. K.behind \/ \A n \in B : <<n, s>> \in K.names
      BY <1>5, <2>4, <2>8 DEF Written, Ahead
    <3>2. K.st \in Plain
      BY <1>3, <1>7, <2>8 DEF Written, Ahead, f
    <3>3. f \in {"modifying", "burning"} => K.behind \/ \A i \in lg : m.items[i].new \in K.names
      BY <1>3, <2>4, <2>7, <2>8 DEF Written, f
    <3>4. f = "offering" => O = {r.mem.items[i].tok[1] : i \in {j \in lg : j < r.mem.at}}
      BY <2>6
    <3>5. B \subseteq Old(legacy, m)
      BY DEF Ahead
    <3> HIDE DEF r, B, lg
    <3>. QED BY <1>2, <2>1, <2>3, <2>4, <2>5, <3>1, <3>2, <3>3, <3>4, <3>5 DEF RecordOK, FivePhases
  <2>. QED BY <2>8 DEF NextTells
<1>. QED BY <1>6, <1>7

\* A session's record when it is through with the item it is at.
LEMMA GoOnTells ==
  ASSUME NEW N, NEW s \in Session, NEW m, From(N, s, m), UpTo(N, s, m),
         m.step \in {"minting", "modifying", "burning", "offering"}, NEW O, NEW J \in Record,
         Ahead(BurnedIn(N, s), O, s, m, J),
         m.step = "offering" =>
            O = {m.items[i].tok[1] : i \in {j \in Legs(legacy, m) : j <= m.at}}
  PROVE  NextTells(BurnedIn(N, s), O, s, GoOn(s, m), J)
<1> DEFINE lg == Legs(legacy, m)
           B == BurnedIn(N, s)
           work == Work(s, mem[s].step)
           rest == {j \in work : j > mem[s].at}
<1>1. /\ m \in SessionRec /\ m.step = mem[s].step /\ m.at = mem[s].at /\ lg \subseteq 1..2
      /\ m.at \in 0..2 /\ m.items \in Item \X Item
  BY SameLegs DEF From, SessionRec, ItemsOK
<1>2. work = IF m.step = "modifying" THEN (1..2) \ lg ELSE lg
  BY <1>1, SameLegs DEF Work
<1>3. CASE rest = {}
  <2>1. \A i \in work : i <= m.at
    BY <1>1, <1>2, <1>3
  <2>2. Through(N, s, m)
    BY <1>1, <1>2, <2>1 DEF Through, UpTo
  <2>3. GoOn(s, m) = Proceed(s, m)
    BY <1>3 DEF GoOn
  <2>4. m.step = "offering" => O = Old(legacy, m)
    BY <1>2, <2>1 DEF Old
  <2>. QED BY <2>2, <2>3, <2>4, ProceedTells DEF FivePhases
<1>4. CASE rest # {}
  <2> DEFINE a == Least(rest)
             r == [m EXCEPT !.at = a]
  <2>1. rest \subseteq 1..5
    BY <1>1, <1>2
  <2>2. a \in rest /\ \A j \in rest : a <= j
    BY <1>4, <2>1, LeastIsLeast
  <2>3. GoOn(s, m).mem = r /\ GoOn(s, m).writes = <<>>
    BY <1>4 DEF GoOn
  <2>4. a \in work /\ a \in 1..2 /\ \A i \in work : i < a <=> i <= m.at
    BY SMTT(30), ZenonT(30), <1>1, <1>2, <2>2
  <2> HIDE DEF a
  <2>5. r.step = m.step /\ r.at = a /\ r.items = m.items
    BY <1>1, <2>4 DEF SessionRec
  <2> HIDE DEF r
  <2>6. Legs(legacy, r) = lg /\ Old(legacy, r) = Old(legacy, m)
    BY <2>5 DEF Legs, Old
  <2>7. m.step = "offering" => O = {r.items[i].tok[1] : i \in {j \in lg : j < r.at}}
    <3>1. m.step = "offering" => {j \in lg : j < a} = {j \in lg : j <= m.at}
      BY <1>2, <2>4
    <3>. QED BY <2>5, <3>1
  <2>8. ASSUME NEW K \in Record, Written(J, GoOn(s, m), K)
        PROVE  RecordOK(B, O, legacy, s, r, K)
    <3>1. K.st = J.st /\ K.names = J.names /\ (K.behind <=> J.behind)
      BY <2>3, <2>8, EntriesAre DEF Written
    <3>2. /\ K.st \in Plain
          /\ K.behind \/ \A n \in B : <<n, s>> \in K.names
          /\ B \subseteq Old(legacy, m)
          /\ m.step # "offering" => O = {}
          /\ m.step \in {"modifying", "burning"} =>
               K.behind \/ \A i \in lg : m.items[i].new \in K.names
      BY <3>1 DEF Ahead
    <3> HIDE DEF B, lg
    <3>. QED BY <1>1, <2>5, <2>6, <2>7, <3>2 DEF RecordOK
  <2>. QED BY <2>3, <2>8 DEF NextTells
<1>. QED BY <1>3, <1>4

\* A session fails, whatever it journals of it.
LEMMA FailTells ==
  ASSUME NEW s \in Session, NEW m \in SessionRec, m.items \in Item \X Item, NEW w,
         NEW B, NEW O, NEW J \in Record, B \subseteq Old(legacy, m),
         J.behind \/ \A n \in B : <<n, s>> \in J.names,
         Entries(w) = {} \/ \A n \in B : <<n, s>> \in Names(m),
         \A K \in Record : K.st \in {J.st} \cup Entries(w) => Told(B, O, legacy, m, K)
  PROVE  NextTells(B, O, s, Fail(m, w), J)
<1> DEFINE r == Fail(m, w)
<1>1. r.mem = Stop(m, "failed") /\ r.writes = w /\ "failed" \in Ends
  BY DEF Fail, Ends
<1> HIDE DEF r
<1>2. r.mem.step = "ended" /\ r.mem.items = m.items
  BY <1>1, EndIsOK
<1>3. /\ Old(legacy, r.mem) = Old(legacy, m) /\ Names(r.mem) = Names(m)
      /\ Legs(legacy, r.mem) = Legs(legacy, m)
  BY <1>2 DEF Old, Legs, Names
<1>4. ASSUME NEW K \in Record, Written(J, r, K)
      PROVE  RecordOK(B, O, legacy, s, r.mem, K)
  <2>1. K.behind \/ \A n \in B : <<n, s>> \in K.names
    BY <1>1, <1>3, <1>4 DEF Written
  <2>2. K.st \in {J.st} \cup Entries(w)
    BY <1>1, <1>4 DEF Written
  <2>3. Told(B, O, legacy, r.mem, K)
    BY <1>3, <2>2 DEF Told
  <2>. QED BY <1>2, <1>3, <2>1, <2>3 DEF RecordOK
<1>. QED BY <1>4 DEF NextTells, r

\* An unwinding that is through tells why there was one.
LEMMA SettleTells ==
  ASSUME NEW N, NEW s \in Session, NEW m, m \in SessionRec, m.step = "unwinding",
         ItemsOK(N, legacy, s, m), StepOK(N, legacy, s, m), mem[s].items \in Item \X Item,
         \A i \in 1..2 : m.items[i].tok = mem[s].items[i].tok,
         NEW O, NEW J \in Record, RecordOK(BurnedIn(N, s), O, legacy, s, m, J)
  PROVE  NextTells(BurnedIn(N, s), O, s, Settle(s, m), J)
<1> DEFINE B == BurnedIn(N, s)
           lg == Legs(legacy, m)
<1>1. /\ m.why \in Statuses /\ Entries(<<m.why>>) = {m.why} /\ Entries(<<>>) = {}
      /\ m.items \in Item \X Item
  BY EntriesAre DEF SessionRec, ItemsOK
<1>2. /\ O = {} /\ J.st \in Plain /\ B \subseteq Old(legacy, m)
      /\ J.behind \/ \A n \in B : <<n, s>> \in J.names
      /\ \/ m.why \in Unwound /\ B = {}
         \/ m.why \in Partial /\ \E n \in Old(legacy, m) : B = {n}
  BY DEF RecordOK
<1>3. Unwound \cap Partial = {} /\ "partial" \notin Unwound \cup Partial /\ "complete" \notin Unwound \cup Partial
  BY DEF Unwound, Partial
<1>4. CASE m.left # {}
  <2>1. Settle(s, m).mem = m /\ Settle(s, m).writes = <<>>
    BY <1>4 DEF Settle
  <2>2. ASSUME NEW K \in Record, Written(J, Settle(s, m), K)
        PROVE  RecordOK(B, O, legacy, s, m, K)
    <3>1. K.st = J.st /\ K.names = J.names /\ (K.behind <=> J.behind)
      BY <1>1, <2>1, <2>2 DEF Written
    <3>. QED BY <1>1, <1>2, <3>1 DEF RecordOK
  <2>. QED BY <2>1, <2>2 DEF NextTells
<1>5. CASE m.left = {} /\ m.why \notin Partial
  <2>1. Settle(s, m) = Fail(m, <<m.why>>)
    BY <1>5 DEF Settle
  <2>2. B = {} /\ m.why \in Unwound
    BY <1>2, <1>5
  <2>3. \A K \in Record : K.st \in {J.st} \cup Entries(<<m.why>>) => Told(B, O, legacy, m, K)
    BY <1>1, <1>2, <1>3, <2>2 DEF Told, Plain
  <2> HIDE DEF B
  <2>. QED BY <1>1, <1>2, <2>1, <2>2, <2>3, FailTells DEF B
<1>6. CASE m.left = {} /\ m.why \in Partial
  <2> DEFINE r == [m EXCEPT !.step = "rescuing", !.at = Least(Reminted(s))]
  <2>1. Reminted(s) = lg /\ lg \subseteq 1..2
    <3>1. lg = Legs(legacy, mem[s])
      BY DEF Legs, Leg
    <3>. QED BY <3>1, LegsAreReminted DEF Legs
  <2>2. PICK i \in lg : /\ \A j \in lg : i <= j
                        /\ Minted(m.items[i]) /\ Gone(N, s, m.items[i])
    BY <1>6 DEF StepOK, HalfGone
  <2>3. Least(lg) = i
    <3>1. Least(lg) \in lg /\ \A j \in lg : Least(lg) <= j
      BY <2>1, LeastIsLeast
    <3>. QED BY <2>1, <2>2, <3>1
  <2>4. Settle(s, m).mem = r /\ Settle(s, m).writes = <<m.why>>
    BY <1>6 DEF Settle
  <2>5. r.step = "rescuing" /\ r.at = i /\ r.items = m.items /\ r.why = m.why
    BY <2>1, <2>3 DEF SessionRec
  <2> HIDE DEF r
  <2>6. /\ Old(legacy, r) = Old(legacy, m) /\ Names(r) = Names(m) /\ Legs(legacy, r) = lg
    BY <2>5 DEF Old, Legs, Names
  <2>7. B = {m.items[i].tok[1]}
    <3>1. m.items[i].tok[1] \in B
      BY <1>1, <2>1, <2>2, BurnedIs
    <3>. QED BY <1>2, <1>3, <1>6, <3>1
  <2>8. \A n \in B : <<n, s>> \in Names(m)
    <3>1. m.items[i].new = <<m.items[i].tok[1], s>>
      BY <2>1, <2>2 DEF ItemsOK, ItemOK
    <3>2. i \in DOMAIN m.items
      BY <1>1, <2>1
    <3>. QED BY <2>2, <2>7, <3>1, <3>2 DEF Names, Minted
  <2>9. ASSUME NEW K \in Record, Written(J, Settle(s, m), K)
        PROVE  RecordOK(B, O, legacy, s, r, K)
    <3>1. K.behind \/ \A n \in B : <<n, s>> \in K.names
      BY <1>2, <2>4, <2>6, <2>8, <2>9 DEF Written
    <3>2. K.st \in Plain \cup {m.why}
      BY <1>1, <1>2, <2>4, <2>9 DEF Written
    <3> HIDE DEF B, lg
    <3>. QED BY <1>1, <1>2, <1>6, <2>5, <2>6, <2>7, <3>1, <3>2 DEF RecordOK
  <2>. QED BY <2>4, <2>9 DEF NextTells
<1>. QED BY <1>4, <1>5, <1>6

LEMMA UnwindTells ==
  ASSUME NEW N, NEW s \in Session, From(N, s, mem[s]), NEW why \in Statuses,
         NEW left \in SUBSET ({"revert", "burn"} \X (1..2)),
         \A i \in 1..2 : <<"burn", i>> \in left =>
            Minted(mem[s].items[i]) /\ ~Gone(N, s, mem[s].items[i]),
         why \in Partial => HalfGone(N, legacy, s, mem[s]),
         NEW J \in Record, J.st \in Plain,
         J.behind \/ \A n \in BurnedIn(N, s) : <<n, s>> \in J.names,
         \/ why \in Unwound /\ BurnedIn(N, s) = {}
         \/ why \in Partial /\ \E n \in Old(legacy, mem[s]) : BurnedIn(N, s) = {n}
  PROVE  NextTells(BurnedIn(N, s), {}, s, Unwind(s, why, left), J)
<1> DEFINE m == [mem[s] EXCEPT !.step = "unwinding", !.why = why, !.left = left]
<1>1. /\ m \in SessionRec /\ m.step = "unwinding" /\ m.items = mem[s].items /\ m.left = left
      /\ m.why = why
  BY StepNames DEF From, SessionRec
<1>2. Unwind(s, why, left) = Settle(s, m)
  BY DEF Unwind
<1> HIDE DEF m
<1>3. /\ Legs(legacy, m) = Legs(legacy, mem[s]) /\ ItemsOK(N, legacy, s, m)
      /\ Old(legacy, m) = Old(legacy, mem[s])
  BY <1>1 DEF Legs, ItemsOK, From, Old
<1>4. HalfGone(N, legacy, s, mem[s]) => HalfGone(N, legacy, s, m)
  BY <1>1, <1>3 DEF HalfGone
<1>5. StepOK(N, legacy, s, m)
  BY <1>1, <1>3, <1>4 DEF StepOK
<1>6. RecordOK(BurnedIn(N, s), {}, legacy, s, m, J)
  BY <1>1, <1>3 DEF RecordOK, ItemsOK
<1>. QED BY <1>1, <1>2, <1>3, <1>5, <1>6, SettleTells DEF From

LEMMA UnwindAllTells ==
  ASSUME NEW N, NEW s \in Session, From(N, s, mem[s]), NEW why \in Unwound,
         BurnedIn(N, s) = {}, NEW J \in Record, J.st \in Plain
  PROVE  NextTells(BurnedIn(N, s), {}, s, UnwindAll(s, why), J)
<1> DEFINE left == Undone(s) \cup BurntBack(s)
<1>1. DOMAIN mem[s].items = 1..2
  BY LegsAreReminted DEF From
<1>2. left \in SUBSET ({"revert", "burn"} \X (1..2))
  BY <1>1 DEF Undone, BurntBack
<1>3. \A i \in 1..2 : <<"burn", i>> \in left => Minted(mem[s].items[i])
  BY <1>1 DEF Undone, BurntBack, Minted
<1>4. \A i \in 1..2 : ~Gone(N, s, mem[s].items[i])
  <2>1. \A i \in 1..2 : mem[s].items[i] \in Item
    BY DEF From, ItemsOK
  <2>. QED BY <2>1, BurnedIs
<1>5. why \in Statuses /\ why \notin Partial
  BY DEF Statuses, Unwound, Partial
<1> HIDE DEF left
<1>6. NextTells(BurnedIn(N, s), {}, s, Unwind(s, why, left), J)
  BY <1>2, <1>3, <1>4, <1>5, UnwindTells
<1>. QED BY <1>6 DEF UnwindAll, left

LEMMA BurnFailsTells ==
  ASSUME NEW N, NEW s \in Session, From(N, s, mem[s]), StepOK(N, legacy, s, mem[s]),
         mem[s].step = "burning", NEW stale \in BOOLEAN, NEW J \in Record,
         Ahead(BurnedIn(N, s), {}, s, mem[s], J)
  PROVE  NextTells(BurnedIn(N, s), {}, s, BurnFails(s, stale), J)
<1> DEFINE lg == Legs(legacy, mem[s])
           a == mem[s].at
           B == BurnedIn(N, s)
<1>1. /\ a \in lg /\ lg \subseteq 1..2 /\ Reminted(s) = lg
      /\ \A i \in lg : Minted(mem[s].items[i]) /\ (Gone(N, s, mem[s].items[i]) <=> i < a)
      /\ \A i \in lg : mem[s].items[i] \in Item
  BY SameLegs DEF StepOK
<1>2. Least(lg) \in lg /\ \A j \in lg : Least(lg) <= j
  BY <1>1, LeastIsLeast
<1>3. \A n \in B : \E i \in lg : n = mem[s].items[i].tok[1] /\ i < a
  <2>1. \A n \in B : \E i \in lg : n = mem[s].items[i].tok[1]
    BY DEF Ahead, Old
  <2>. QED BY <1>1, <2>1, BurnedIs
<1>4. CASE a = Least(lg)
  <2> DEFINE why == IF stale THEN "stale_pointer" ELSE "failed_burning"
  <2>1. B = {}
    <3>1. \A i \in lg : ~(i < a)
      BY <1>1, <1>2, <1>4
    <3>. QED BY <1>3, <3>1
  <2>2. why \in Unwound
    BY DEF Unwound
  <2>3. BurnFails(s, stale) = UnwindAll(s, why)
    BY <1>1, <1>4 DEF BurnFails
  <2>. QED BY <2>1, <2>2, <2>3, UnwindAllTells DEF Ahead
<1>5. CASE a # Least(lg)
  <2> DEFINE why == IF stale THEN "stale_pointer_partial" ELSE "partial_burn_failure"
             left == {<<"burn", a>>}
  <2>1. HalfGone(N, legacy, s, mem[s])
    BY <1>1, <1>2, <1>5 DEF HalfGone
  <2>2. why \in Statuses /\ why \in Partial
    BY DEF Statuses, Partial
  <2>3. left \in SUBSET ({"revert", "burn"} \X (1..2))
    BY <1>1
  <2>4. \A i \in 1..2 : <<"burn", i>> \in left =>
            Minted(mem[s].items[i]) /\ ~Gone(N, s, mem[s].items[i])
    BY <1>1
  <2>5. BurnFails(s, stale) = Unwind(s, why, left)
    BY <1>1, <1>5 DEF BurnFails
  <2>6. \E n \in Old(legacy, mem[s]) : B = {n}
    <3>1. Least(lg) < a /\ \A i \in lg : i < a => i = Least(lg)
      BY <1>1, <1>2, <1>5
    <3> DEFINE n == mem[s].items[Least(lg)].tok[1]
    <3>2. n \in B
      BY <1>1, <1>2, <3>1, BurnedIs
    <3>3. \A k \in B : k = n
      BY <1>3, <3>1
    <3>4. n \in Old(legacy, mem[s])
      BY <1>2 DEF Old
    <3>. QED BY <3>2, <3>3, <3>4
  <2> HIDE DEF why, left
  <2>. QED BY <2>1, <2>2, <2>3, <2>4, <2>5, <2>6, UnwindTells DEF Ahead
<1>. QED BY <1>4, <1>5

-----------------------------------------------------------------------------
(* The steps of a session keep its record true.                            *)

LEMMA RecordIs ==
  ASSUME IInv, Records, NEW s \in Session, Running(mem[s])
  PROVE  /\ journal[s] \in Record
         /\ RecordOK(BurnedIn(nft, s), DeliveredIn(nft, s), legacy, s, mem[s], journal[s])
         /\ mem[s].step # "rescuing" =>
              Ahead(BurnedIn(nft, s), DeliveredIn(nft, s), s, mem[s], journal[s])
<1>1. journal[s] \in Record
  BY DEF IInv, TypeOK, Record
<1>2. RecordOK(BurnedIn(nft, s), DeliveredIn(nft, s), legacy, s, mem[s], journal[s])
  BY DEF Records
<1>3. mem[s].step \notin {"none", "ended"}
  BY DEF Running
<1>. QED BY <1>1, <1>2, <1>3 DEF RecordOK, Ahead

LEMMA PlainIsTold == \A B, O, L, m, K : K.st \in Plain => Told(B, O, L, m, K)
BY DEF Told, Plain, Unwound, Partial

\* A session that breaks off says no more than it did.
LEMMA BreakingOffTells ==
  ASSUME NEW s \in Session, NEW m \in SessionRec, m.items \in Item \X Item,
         NEW B, NEW O, NEW J \in Record, J.st \in Plain, B \subseteq Old(legacy, m),
         J.behind \/ \A n \in B : <<n, s>> \in J.names
  PROVE  NextTells(B, O, s, Fail(m, <<>>), J)
BY FailTells, PlainIsTold, EntriesAre

\* A transaction that burns no original and offers nothing.
LEMMA QuietAdds ==
  ASSUME IInv, NEW s \in Session, NEW tx, NEW out, Stepped(s, tx, out),
         Burns(tx) = {}, Offers(tx) = {}
  PROVE  /\ Adds(nft, nft', s, {}, {})
         /\ BurnedIn(nft', s) = BurnedIn(nft, s) /\ DeliveredIn(nft', s) = DeliveredIn(nft, s)
<1>1. Adds(nft, nft', s, {}, {})
  BY OutcomeAdds DEF Stepped, IInv
<1>. QED BY <1>1 DEF Adds

LEMMA MintOneTells ==
  ASSUME IInv, Records, NEW s \in Session, MintOne(s)
  PROVE  Records'
<1> DEFINE m == mem[s]
           B == BurnedIn(nft', s)
           O == DeliveredIn(nft', s)
           J == journal[s]
           tx == MintTx(s)
<1>1. PICK out \in Outcomes :
         /\ Stepped(s, tx, out) /\ m.step = "minting" /\ legacy' = legacy
         /\ From(nft', s, m) /\ StepOK(nft', legacy, s, m)
         /\ out = "done" => /\ GoesOn(s, GoOn(s, AfterMint(s)))
                            /\ From(nft', s, AfterMint(s)) /\ UpTo(nft', s, AfterMint(s))
         /\ out = "refused" => GoesOn(s, UnwindAll(s, "failed_minting"))
         /\ out = "unknown" => GoesOn(s, Fail(m, <<>>))
  BY MintOneStep
<1>2. Running(m) /\ tx.op = "mint" /\ tx.by = s
  BY <1>1 DEF Running, MintTx
<1>3. /\ Adds(nft, nft', s, {}, {}) /\ O = DeliveredIn(nft, s)
  BY <1>1, <1>2, QuietAdds DEF Burns, Offers
<1>4. J \in Record /\ J.st \in Plain /\ O = {} /\ B = {}
  BY <1>1, <1>2, <1>3, RecordIs, BurnedIs DEF Ahead, StepOK
<1>5. CASE out = "done"
  <2>1. AfterMint(s).step = "minting"
    BY <1>1, <1>5 DEF From
  <2>2. Ahead(B, O, s, AfterMint(s), J)
    BY <1>4, <2>1 DEF Ahead
  <2>3. NextTells(B, O, s, GoOn(s, AfterMint(s)), J)
    BY <1>1, <1>4, <1>5, <2>1, <2>2, GoOnTells
  <2>. QED BY <1>1, <1>2, <1>3, <1>5, <2>3, CommitTells DEF Stepped
<1>6. CASE out = "refused"
  <2>1. NextTells(B, O, s, UnwindAll(s, "failed_minting"), J)
    BY <1>1, <1>4, UnwindAllTells DEF Unwound
  <2>. QED BY <1>1, <1>2, <1>3, <1>6, <2>1, CommitTells DEF Stepped
<1>7. CASE out = "unknown"
  <2>1. NextTells(B, O, s, Fail(m, <<>>), J)
    BY <1>1, <1>4, BreakingOffTells DEF From, ItemsOK
  <2>2. flying' = flying \cup {tx} /\ tx \in Tx
    BY <1>1, <1>7 DEF Stepped
  <2>3. \A K, mm : LateOK(B, legacy, mm, K, tx)
    BY <1>2 DEF LateOK
  <2>. QED BY <1>1, <1>2, <1>3, <1>7, <2>1, <2>2, <2>3, CommitTells
<1>. QED BY <1>5, <1>6, <1>7 DEF Outcomes

LEMMA AfterModifyIs ==
  ASSUME NEW s \in Session, mem[s] \in SessionRec, mem[s].items \in Item \X Item,
         mem[s].at \in 1..2
  PROVE  \A i \in 1..2 :
            LET e == mem[s].items[i]
                d == AfterModify(s).items[i] IN
            /\ d \in Item /\ d.tok = e.tok /\ d.was = e.was /\ d.now = e.now /\ d.new = e.new
            /\ d.done = IF i = mem[s].at THEN TRUE ELSE e.done
            /\ i # mem[s].at => d = e
<1> DEFINE m == mem[s]
           e == m.items[m.at]
           d == [e EXCEPT !.done = TRUE]
<1>1. e \in Item
  OBVIOUS
<1> HIDE DEF e
<1>2. /\ d \in Item /\ d.tok = e.tok /\ d.was = e.was /\ d.now = e.now /\ d.new = e.new
      /\ d.done = TRUE
  BY <1>1 DEF Item
<1> HIDE DEF d
<1>3. AfterModify(s).items = [m.items EXCEPT ![m.at] = d]
  BY DEF AfterModify, SessionRec, d, e
<1>4. \A i \in 1..2 : AfterModify(s).items[i] = IF i = m.at THEN d ELSE m.items[i]
  BY <1>2, <1>3, ItemsExcept
<1>5. \A i \in 1..2 : m.items[i] \in Item
  OBVIOUS
<1>. QED BY <1>2, <1>4, <1>5 DEF e

LEMMA ModifyOneTells ==
  ASSUME IInv, Records, NEW s \in Session, ModifyOne(s)
  PROVE  Records'
<1> DEFINE m == mem[s]
           B == BurnedIn(nft', s)
           O == DeliveredIn(nft', s)
           J == journal[s]
           tx == ModifyTx(s)
<1>1. PICK out \in Outcomes :
         /\ Stepped(s, tx, out) /\ m.step = "modifying" /\ legacy' = legacy
         /\ From(nft', s, m) /\ StepOK(nft', legacy, s, m)
         /\ out = "done" => /\ GoesOn(s, GoOn(s, AfterModify(s)))
                            /\ From(nft', s, AfterModify(s)) /\ UpTo(nft', s, AfterModify(s))
         /\ out = "refused" => GoesOn(s, UnwindAll(s, "failed_modifying"))
         /\ out = "unknown" => GoesOn(s, Fail(m, <<>>))
  BY ModifyOneStep
<1>2. Running(m) /\ tx.op = "modify" /\ tx.by = s
  BY <1>1 DEF Running, ModifyTx
<1>3. /\ Adds(nft, nft', s, {}, {}) /\ O = DeliveredIn(nft, s)
  BY <1>1, <1>2, QuietAdds DEF Burns, Offers
<1>4. /\ J \in Record /\ J.st \in Plain /\ O = {} /\ B = {}
      /\ J.behind \/ \A i \in Legs(legacy, m) : m.items[i].new \in J.names
  BY <1>1, <1>2, <1>3, RecordIs, BurnedIs DEF Ahead, StepOK
<1>5. CASE out = "done"
  <2>1. AfterModify(s).step = "modifying"
    BY <1>1, <1>5 DEF From
  <2>2. \A i \in 1..2 : /\ AfterModify(s).items[i].new = m.items[i].new
                        /\ AfterModify(s).items[i].tok = m.items[i].tok
    <3>1. m.at \in 1..2 /\ m \in SessionRec /\ m.items \in Item \X Item
      BY <1>1 DEF StepOK, From
    <3>. QED BY <3>1, AfterModifyIs
  <2>3. Legs(legacy, AfterModify(s)) = Legs(legacy, m)
    BY <2>2 DEF Legs
  <2>4. \A i \in Legs(legacy, m) : i \in 1..2
    BY DEF Legs
  <2>5. Ahead(B, O, s, AfterModify(s), J)
    BY <1>4, <2>1, <2>2, <2>3, <2>4 DEF Ahead
  <2>6. NextTells(B, O, s, GoOn(s, AfterModify(s)), J)
    BY <1>1, <1>4, <1>5, <2>1, <2>5, GoOnTells
  <2>. QED BY <1>1, <1>2, <1>3, <1>5, <2>6, CommitTells DEF Stepped
<1>6. CASE out = "refused"
  <2>1. NextTells(B, O, s, UnwindAll(s, "failed_modifying"), J)
    BY <1>1, <1>4, UnwindAllTells DEF Unwound
  <2>. QED BY <1>1, <1>2, <1>3, <1>6, <2>1, CommitTells DEF Stepped
<1>7. CASE out = "unknown"
  <2>1. NextTells(B, O, s, Fail(m, <<>>), J)
    BY <1>1, <1>4, BreakingOffTells DEF From, ItemsOK
  <2>2. flying' = flying \cup {tx} /\ tx \in Tx
    BY <1>1, <1>7 DEF Stepped
  <2>3. \A K, mm : LateOK(B, legacy, mm, K, tx)
    BY <1>2 DEF LateOK
  <2>. QED BY <1>1, <1>2, <1>3, <1>7, <2>1, <2>2, <2>3, CommitTells
<1>. QED BY <1>5, <1>6, <1>7 DEF Outcomes

LEMMA BrokenOffIs ==
  ASSUME NEW s \in Session, NEW m \in SessionRec, NEW w, NEW J
  PROVE  /\ Old(legacy, Fail(m, w).mem) = Old(legacy, m)
         /\ \A K \in Record : Written(J, Fail(m, w), K) =>
              \/ K.st = J.st /\ K.names = J.names /\ (K.behind <=> J.behind \/ Entries(w) # {})
              \/ K.st \in Entries(w)
<1>1. Fail(m, w).mem = Stop(m, "failed") /\ Fail(m, w).writes = w /\ "failed" \in Ends
  BY DEF Fail, Ends
<1>2. Fail(m, w).mem.items = m.items
  BY <1>1, EndIsOK
<1>. QED BY <1>1, <1>2 DEF Written, Old, Legs

\* The replacements of a session about to burn are all on record.
LEMMA LegsAreNamed ==
  ASSUME NEW N, NEW s \in Session, NEW m, ItemsOK(N, legacy, s, m),
         \A i \in Legs(legacy, m) : Minted(m.items[i]), NEW J,
         J.behind \/ \A i \in Legs(legacy, m) : m.items[i].new \in J.names
  PROVE  J.behind \/ \A n \in Old(legacy, m) : <<n, s>> \in J.names
<1>1. \A i \in Legs(legacy, m) : m.items[i].new = <<m.items[i].tok[1], s>>
  BY DEF ItemsOK, ItemOK, Legs
<1>. QED BY <1>1 DEF Old

LEMMA BurnOneTells ==
  ASSUME IInv, Records, NEW s \in Session, BurnOne(s)
  PROVE  Records'
<1> DEFINE m == mem[s]
           B == BurnedIn(nft', s)
           O == DeliveredIn(nft', s)
           J == journal[s]
           tx == BurnTx(s)
           n == m.items[m.at].tok[1]
<1>1. PICK out \in Outcomes :
         /\ Stepped(s, tx, out) /\ m.step = "burning" /\ legacy' = legacy
         /\ From(nft', s, m)
         /\ out = "done" => GoesOn(s, GoOn(s, m)) /\ UpTo(nft', s, m)
         /\ out = "refused" => GoesOn(s, BurnFails(s, FALSE))
         /\ out = "unknown" => GoesOn(s, Fail(m, <<>>))
         /\ out # "done" => nft' = nft
  BY BurnOneStep
<1>2. Running(m)
  BY <1>1 DEF Running
<1>3. From(nft, s, m) /\ StepOK(nft, legacy, s, m)
  BY <1>2, RunningIs
<1>4. m.at \in Legs(legacy, m) /\ \A i \in Legs(legacy, m) : Minted(m.items[i])
  BY <1>1, <1>3 DEF StepOK
<1>5. tx.op = "burn" /\ tx.by = s /\ tx.tok[2] = First /\ tx.tok[1] = n /\ n \in Old(legacy, m)
  BY <1>4 DEF BurnTx, Now, Legs, Leg, Old
<1>6. /\ J \in Record /\ J.st \in Plain /\ DeliveredIn(nft, s) = {}
      /\ J.behind \/ \A i \in Legs(legacy, m) : m.items[i].new \in J.names
      /\ BurnedIn(nft, s) \subseteq Old(legacy, m)
      /\ Ahead(BurnedIn(nft, s), {}, s, m, J)
  BY <1>1, <1>2, RecordIs DEF Ahead
<1>7. J.behind \/ \A k \in Old(legacy, m) : <<k, s>> \in J.names
  BY <1>3, <1>4, <1>6, LegsAreNamed DEF From
<1>8. CASE out = "done"
  <2>1. Burns(tx) = {n} /\ Offers(tx) = {}
    BY <1>5 DEF Burns, Offers
  <2>2. Adds(nft, nft', s, {n}, {})
    BY <1>1, <1>5, <1>8, <2>1, OutcomeAdds DEF Stepped, IInv
  <2>3. B = BurnedIn(nft, s) \cup {n} /\ O = {}
    BY <1>6, <2>2 DEF Adds
  <2>4. Ahead(B, O, s, m, J)
    BY <1>5, <1>6, <1>7, <2>3 DEF Ahead
  <2>5. NextTells(B, O, s, GoOn(s, m), J)
    BY <1>1, <1>6, <1>8, <2>4, GoOnTells
  <2>. QED BY <1>1, <1>2, <1>8, <2>2, <2>5, CommitTells DEF Stepped
<1>9. CASE out # "done"
  <2>1. nft' = nft /\ Adds(nft, nft', s, {}, {}) /\ O = {}
    BY <1>1, <1>6, <1>9, AddsNothing
  <2>2. CASE out = "refused"
    <3>1. StepOK(nft', legacy, s, m) /\ Ahead(B, {}, s, m, J)
      BY <1>3, <1>6, <2>1
    <3>2. NextTells(B, O, s, BurnFails(s, FALSE), J)
      BY <1>1, <1>6, <2>1, <3>1, BurnFailsTells
    <3>. QED BY <1>1, <1>2, <2>1, <2>2, <3>2, CommitTells DEF Stepped
  <2>3. CASE out = "unknown"
    <3>1. m \in SessionRec /\ m.items \in Item \X Item
      BY <1>3 DEF From, ItemsOK
    <3>2. NextTells(B, O, s, Fail(m, <<>>), J)
      BY <1>6, <2>1, <3>1, BreakingOffTells DEF Ahead
    <3>3. flying' = flying \cup {tx} /\ tx \in Tx
      BY <1>1, <2>3 DEF Stepped
    <3>4. \A K \in Record : Written(J, Fail(m, <<>>), K) => LateOK(B, legacy, Fail(m, <<>>).mem, K, tx)
      BY <1>5, <1>6, <1>7, <3>1, BrokenOffIs, EntriesAre DEF LateOK
    <3>. QED BY <1>1, <1>2, <1>5, <2>1, <2>3, <3>2, <3>3, <3>4, CommitTells
  <2>. QED BY <1>9, <2>2, <2>3 DEF Outcomes
<1>. QED BY <1>8, <1>9

LEMMA BurnStaleTells ==
  ASSUME IInv, Records, NEW s \in Session, BurnStale(s)
  PROVE  Records'
<1> DEFINE m == mem[s]
<1>1. /\ m.step = "burning" /\ Running(m) /\ UNCHANGED <<legacy, nft, flying>>
      /\ Commit(s, BurnFails(s, TRUE), 0)
  BY DEF BurnStale, Running
<1>2. /\ From(nft, s, m) /\ StepOK(nft, legacy, s, m)
  BY <1>1, RunningIs
<1>3. GoesOn(s, BurnFails(s, TRUE))
  BY <1>1, <1>2, BurnFailsIsOK DEF GoesOn
<1>4. Adds(nft, nft', s, {}, {})
  BY <1>1, AddsNothing
<1>5. DeliveredIn(nft, s) = {} /\ Ahead(BurnedIn(nft, s), {}, s, m, journal[s]) /\ journal[s] \in Record
  BY <1>1, RecordIs DEF Ahead
<1>6. NextTells(BurnedIn(nft, s), {}, s, BurnFails(s, TRUE), journal[s])
  BY <1>1, <1>2, <1>5, BurnFailsTells
<1>. QED BY <1>1, <1>3, <1>4, <1>5, <1>6, CommitTells

\* What comes of an offer: it is there, or it is not, or it may be later.
LEMMA OfferTells ==
  ASSUME IInv, Records, NEW s \in Session, Running(mem[s]), mem[s].at \in Legs(legacy, mem[s]),
         Minted(mem[s].items[mem[s].at]), Gone(nft, s, mem[s].items[mem[s].at]),
         NEW through \in BOOLEAN, Offer(s, through)
  PROVE  LET n == mem[s].items[mem[s].at].tok[1] IN
         \E O \in SUBSET {n} :
            /\ Adds(nft, nft', s, {}, O)
            /\ through => O = {n} /\ flying' = flying
            /\ \/ flying' = flying
               \/ /\ ~through
                  /\ \E tx \in Tx : /\ tx.by = s /\ tx.op = "offer" /\ tx.tok[1] = n
                                    /\ flying' = flying \cup {tx}
<1> DEFINE e  == mem[s].items[mem[s].at]
           tx == [op |-> "offer", tok |-> Now(s).new, trait |-> Now(s).now, by |-> s]
<1>1. /\ From(nft, s, mem[s]) /\ mem[s].at \in 1..2 /\ Now(s) = e /\ e \in Item
      /\ Replacement(e.tok, s) \in Token
  BY RunningIs DEF Legs, Now
<1>2. e.new = <<e.tok[1], s>> /\ e.new \in Token
  BY <1>1 DEF From, ItemsOK, ItemOK, Replacement
<1>3. tx \in Tx /\ tx.by = s /\ tx.op = "offer" /\ tx.tok = e.new /\ tx.tok[1] = e.tok[1]
  BY SMTT(30), ZenonT(30), <1>1, <1>2 DEF Tx, Item
<1>4. Safe(nft, tx)
  BY SMTT(30), ZenonT(30), <1>2, <1>3 DEF Safe, Gone
<1>5. PICK out \in Outcomes : Outcome(tx, out) /\ (through => out = "done")
  BY DEF Offer
<1> HIDE DEF tx, e
<1>6. Burns(tx) = {} /\ Offers(tx) = {e.tok[1]}
  BY <1>3 DEF Burns, Offers
<1>7. /\ out = "done" => Adds(nft, nft', s, {}, {e.tok[1]}) /\ flying' = flying
      /\ out # "done" => Adds(nft, nft', s, {}, {})
      /\ out = "unknown" => flying' = flying \cup {tx}
      /\ out = "refused" => flying' = flying
  BY <1>3, <1>4, <1>5, <1>6, OutcomeAdds, OutcomeIsSafe DEF IInv
<1>8. CASE out = "done"
  BY <1>7, <1>8 DEF e
<1>9. CASE out # "done"
  <2>1. ~through /\ {} \in SUBSET {e.tok[1]} /\ Adds(nft, nft', s, {}, {})
    BY <1>5, <1>7, <1>9
  <2>2. \/ flying' = flying
        \/ \E ty \in Tx : /\ ty.by = s /\ ty.op = "offer" /\ ty.tok[1] = e.tok[1]
                          /\ flying' = flying \cup {ty}
    BY <1>3, <1>7, <1>9 DEF Outcomes
  <2>. QED BY <2>1, <2>2 DEF e
<1>. QED BY <1>8, <1>9

LEMMA OfferOneTells ==
  ASSUME IInv, Records, NEW s \in Session, OfferOne(s)
  PROVE  Records'
<1> DEFINE m  == mem[s]
           lg == Legs(legacy, m)
           B  == BurnedIn(nft', s)
           O  == DeliveredIn(nft', s)
           J  == journal[s]
           n  == m.items[m.at].tok[1]
<1>1. m.step = "offering" /\ Running(m)
  BY DEF OfferOne, Running
<1>2. From(nft, s, m) /\ StepOK(nft, legacy, s, m)
  BY <1>1, RunningIs
<1>3. PICK through \in BOOLEAN :
        /\ Offer(s, through)
        /\ Commit(s, IF through THEN GoOn(s, mem[s]) ELSE Fail(mem[s], <<"failed_offers">>),
                  IF through THEN 0 ELSE 1)
        /\ legacy' = legacy
  BY DEF OfferOne
<1>4. /\ m.at \in lg /\ Minted(m.items[m.at]) /\ Gone(nft, s, m.items[m.at]) /\ lg \subseteq 1..2
  BY <1>1, <1>2 DEF StepOK, Legs
<1>5. From(nft', s, m) /\ StepOK(nft', legacy, s, m)
  BY <1>1, <1>3, <1>4, OfferIsSafe
<1>6. PICK O1 \in SUBSET {n} :
        /\ Adds(nft, nft', s, {}, O1)
        /\ through => O1 = {n} /\ flying' = flying
        /\ \/ flying' = flying
           \/ /\ ~through
              /\ \E tx \in Tx : /\ tx.by = s /\ tx.op = "offer" /\ tx.tok[1] = n
                                /\ flying' = flying \cup {tx}
  BY <1>1, <1>3, <1>4, OfferTells
<1>7. B = BurnedIn(nft, s) /\ O = DeliveredIn(nft, s) \cup O1
  BY <1>6 DEF Adds
<1>8. /\ J \in Record /\ J.st \in Plain /\ B \subseteq Old(legacy, m)
      /\ J.behind \/ \A k \in B : <<k, s>> \in J.names
      /\ DeliveredIn(nft, s) = {m.items[i].tok[1] : i \in {j \in lg : j < m.at}}
      /\ \A Q : Ahead(B, Q, s, m, J)
  BY <1>1, <1>7, RecordIs DEF RecordOK, Ahead
<1>9. CASE through
  <2>1. UpTo(nft', s, m)
    BY <1>1, <1>5 DEF UpTo, StepOK
  <2>2. GoesOn(s, GoOn(s, m))
    BY <1>1, <1>3, <1>5, <1>9, <2>1, GoOnIsOK DEF GoesOn
  <2>3. O = {m.items[i].tok[1] : i \in {j \in lg : j <= m.at}}
    <3>1. {j \in lg : j <= m.at} = {j \in lg : j < m.at} \cup {m.at}
      BY <1>4
    <3>. QED BY <1>6, <1>7, <1>8, <1>9, <3>1
  <2> HIDE DEF B, O
  <2>4. NextTells(BurnedIn(nft', s), O, s, GoOn(s, m), J)
    BY <1>1, <1>5, <1>8, <2>1, <2>3, GoOnTells DEF B
  <2>. QED BY <1>1, <1>3, <1>6, <1>9, <2>2, <2>4, CommitTells DEF O
<1>10. CASE ~through
  <2> DEFINE w == <<"failed_offers">>
  <2>1. "failed_offers" \in Plain /\ "failed_offers" \in Statuses /\ Entries(w) = {"failed_offers"}
    <3>1. "failed_offers" \in Statuses
      BY DEF Statuses
    <3>. QED BY <3>1, EntriesAre DEF Plain, Unwound, Partial
  <2>2. w \in Seq(Statuses)
    BY <2>1
  <2> HIDE DEF w
  <2>3. m \in SessionRec /\ m.items \in Item \X Item
    BY <1>2 DEF From, ItemsOK
  <2>4. GoesOn(s, Fail(m, w))
    BY <1>3, <1>10, <2>2, <2>3, FailIsOK DEF GoesOn, w
  <2>5. \A k \in B : <<k, s>> \in Names(m)
    <3>1. \A i \in lg : Minted(m.items[i])
      BY <1>1, <1>2 DEF StepOK
    <3>. QED BY <1>5, <1>8, <3>1, BurnedAreNamed DEF From
  <2>6. NextTells(B, O, s, Fail(m, w), J)
    BY <1>8, <2>1, <2>3, <2>5, FailTells, PlainIsTold
  <2>7. \A K \in Record : Written(J, Fail(m, w), K) => K.st \in Plain
    BY <1>8, <2>1, <2>3, BrokenOffIs
  <2>8. \/ flying' = flying
        \/ \E tx \in Tx : /\ tx.by = s /\ flying' = flying \cup {tx}
                          /\ \A K \in Record : Written(J, Fail(m, w), K) =>
                               LateOK(B, legacy, Fail(m, w).mem, K, tx)
    BY <1>6, <2>7 DEF LateOK
  <2>. QED BY <1>1, <1>3, <1>6, <2>4, <2>6, <2>8, CommitTells
<1>. QED BY <1>9, <1>10

LEMMA RescueTells ==
  ASSUME IInv, Records, NEW s \in Session, Rescue(s)
  PROVE  Records'
<1> DEFINE m  == mem[s]
           B  == BurnedIn(nft', s)
           O  == DeliveredIn(nft', s)
           J  == journal[s]
           n  == m.items[m.at].tok[1]
<1>1. m.step = "rescuing" /\ Running(m)
  BY DEF Rescue, Running
<1>2. /\ From(nft, s, m) /\ StepOK(nft, legacy, s, m)
      /\ m \in SessionRec /\ m.items \in Item \X Item
  BY <1>1, RunningIs DEF From, ItemsOK
<1>3. PICK through \in BOOLEAN :
        /\ Offer(s, through)
        /\ Commit(s, Fail(m, <<IF through THEN Rescued(m.why) ELSE NoOffer(m.why)>>),
                  IF through THEN 0 ELSE 1)
        /\ legacy' = legacy
  BY DEF Rescue
<1> DEFINE st == IF through THEN Rescued(m.why) ELSE NoOffer(m.why)
           w  == <<st>>
<1>4. /\ m.at \in Legs(legacy, m) /\ Minted(m.items[m.at]) /\ Gone(nft, s, m.items[m.at])
  BY <1>1, <1>2 DEF StepOK
<1>5. From(nft', s, m)
  BY <1>1, <1>3, <1>4, OfferIsSafe
<1>6. PICK O1 \in SUBSET {n} :
        /\ Adds(nft, nft', s, {}, O1)
        /\ through => O1 = {n} /\ flying' = flying
        /\ \/ flying' = flying
           \/ /\ ~through
              /\ \E tx \in Tx : /\ tx.by = s /\ tx.op = "offer" /\ tx.tok[1] = n
                                /\ flying' = flying \cup {tx}
  BY <1>1, <1>3, <1>4, OfferTells
<1>7. B = BurnedIn(nft, s) /\ O = DeliveredIn(nft, s) \cup O1
  BY <1>6 DEF Adds
<1>8. /\ J \in Record /\ m.why \in Partial /\ J.st \in Plain \cup {m.why} /\ B = {n}
      /\ J.behind \/ \A k \in B : <<k, s>> \in J.names
      /\ B \subseteq Old(legacy, m) /\ DeliveredIn(nft, s) = {} /\ n \in Old(legacy, m)
  BY <1>1, <1>4, <1>7, RecordIs DEF RecordOK, Old
<1>9. /\ O \subseteq {n} /\ (through => O = {n})
  BY <1>6, <1>7, <1>8
<1>10. /\ st \in Statuses
       /\ through => st \in Partial \cup {"partial"}
       /\ ~through => st \in Plain
  BY <1>8 DEF Rescued, NoOffer, Statuses, Plain, Unwound, Partial
<1>11. Entries(w) = {st} /\ w \in Seq(Statuses)
  <2> HIDE DEF st
  <2>. QED BY <1>10, EntriesAre, WritesAreStatuses
<1>12. GoesOn(s, Fail(m, w))
  <2>1. Commit(s, Fail(m, w), IF through THEN 0 ELSE 1)
    BY <1>3
  <2> HIDE DEF w
  <2>. QED BY <1>2, <1>11, <2>1, FailIsOK DEF GoesOn
<1>13. \A k \in B : <<k, s>> \in Names(m)
  <2>1. m.items[m.at].new = <<n, s>> /\ m.at \in DOMAIN m.items
    BY SMTT(30), ZenonT(30), <1>2, <1>4 DEF From, ItemsOK, ItemOK, Legs
  <2>. QED BY <1>4, <1>8, <2>1 DEF Names, Minted
<1> HIDE DEF st, w
<1>14. ASSUME NEW K \in Record, K.st \in {J.st} \cup Entries(w)
       PROVE  Told(B, O, legacy, m, K)
  <2>1. K.st \in Plain \/ K.st \in Partial \/ (K.st = "partial" /\ through)
    <3>1. "partial" \notin Plain
      BY DEF Plain
    <3>. QED BY <1>8, <1>10, <1>11, <1>14
  <2>2. K.st \in Partial \cup {"partial"} => K.st \notin Unwound \cup {"complete"}
    BY DEF Unwound, Partial
  <2>3. K.st \in Partial => K.st # "partial"
    BY DEF Partial
  <2>4. CASE K.st \in Plain
    BY <2>4, PlainIsTold
  <2>5. CASE K.st \notin Plain
    <3>1. K.st \in Partial \cup {"partial"} /\ (K.st = "partial" => through)
      BY <2>1, <2>3, <2>5
    <3>2. K.st = "partial" => O = B
      BY <1>8, <1>9, <3>1
    <3>3. n \in Old(legacy, m) /\ B = {n} /\ O \subseteq {n}
      BY <1>8, <1>9
    <3> HIDE DEF B, O, n
    <3>4. \E k \in Old(legacy, m) : B = {k} /\ O \subseteq {k}
      BY <3>3
    <3>. QED BY <2>2, <3>1, <3>2, <3>4 DEF Told
  <2>. QED BY <2>4, <2>5
<1>15. NextTells(B, O, s, Fail(m, w), J)
  <2> HIDE DEF B, O, J
  <2>. QED BY <1>2, <1>8, <1>13, <1>14, FailTells
<1>16. \A K \in Record : Written(J, Fail(m, w), K) /\ ~through =>
          K.st \in Plain \/ K.st \in Partial
  BY <1>2, <1>8, <1>10, <1>11, BrokenOffIs
<1>17. \/ flying' = flying
       \/ \E tx \in Tx : /\ tx.by = s /\ flying' = flying \cup {tx}
                         /\ \A K \in Record : Written(J, Fail(m, w), K) =>
                              LateOK(B, legacy, Fail(m, w).mem, K, tx)
  BY <1>6, <1>8, <1>16 DEF LateOK
<1>. QED BY <1>1, <1>3, <1>6, <1>12, <1>15, <1>17, CommitTells

\* What was compensated does not change why.
LEMMA WhyIsKept ==
  ASSUME NEW s \in Session, mem[s] \in SessionRec, mem[s].items \in Item \X Item,
         NEW c \in {"revert", "burn"} \X (1..2)
  PROVE  Skipped(s, c).why = mem[s].why /\ AfterUndo(s, c).why = mem[s].why
BY DEF Skipped, AfterUndo, SessionRec

LEMMA UnwindOneTells ==
  ASSUME IInv, Records, NEW s \in Session, UnwindOne(s)
  PROVE  Records'
<1> DEFINE m  == mem[s]
           B  == BurnedIn(nft', s)
           O  == DeliveredIn(nft', s)
           J  == journal[s]
<1>1. PICK c \in m.left, out \in Outcomes :
         /\ Stepped(s, Compensation(s, c), out) /\ m.step = "unwinding"
         /\ c \in {"revert", "burn"} \X (1..2) /\ legacy' = legacy
         /\ out = "done" => /\ GoesOn(s, Settle(s, AfterUndo(s, c)))
                            /\ Unwinding(nft', s, AfterUndo(s, c))
         /\ out = "refused" => /\ GoesOn(s, Settle(s, Skipped(s, c)))
                               /\ Unwinding(nft', s, Skipped(s, c))
         /\ out = "unknown" => GoesOn(s, Fail(m, <<>>))
  BY UnwindOneStep
<1> DEFINE tx == Compensation(s, c)
<1>2. /\ Running(m) /\ m.items \in Item \X Item /\ m \in SessionRec
  BY <1>1, RunningIs DEF Running, From
<1>3. Burns(tx) = {} /\ Offers(tx) = {} /\ tx.by = s
  <2>1. CASE c[1] = "revert"
    BY <2>1 DEF Compensation, Burns, Offers
  <2>2. CASE c[1] = "burn"
    <3>1. c = <<"burn", c[2]>> /\ c[2] \in 1..2
      BY <1>1, <2>2
    <3>2. From(nft, s, m) /\ StepOK(nft, legacy, s, m)
      BY <1>2, RunningIs
    <3>3. Minted(m.items[c[2]])
      BY <1>1, <3>1, <3>2 DEF StepOK
    <3>4. m.items[c[2]].new = <<m.items[c[2]].tok[1], s>>
      BY <3>1, <3>2, <3>3 DEF From, ItemsOK, ItemOK
    <3>5. tx.op = "burn" /\ tx.tok[2] = s /\ tx.by = s
      BY <2>2, <3>4 DEF Compensation
    <3>6. s # First
      BY SwapAssumption
    <3>. QED BY <3>5, <3>6 DEF Burns, Offers
  <2>. QED BY <1>1, <2>1, <2>2
<1> HIDE DEF tx
<1>4. Adds(nft, nft', s, {}, {}) /\ B = BurnedIn(nft, s) /\ O = DeliveredIn(nft, s)
  BY <1>1, <1>3, QuietAdds DEF tx
<1>5. J \in Record /\ J.st \in Plain /\ RecordOK(B, O, legacy, s, m, J)
  BY <1>1, <1>2, <1>4, RecordIs DEF Ahead
<1>6. ASSUME NEW r, Unwinding(nft', s, r), r.why = m.why, GoesOn(s, Settle(s, r)), out # "unknown"
      PROVE  Records'
  <2>1. /\ r \in SessionRec /\ r.step = "unwinding" /\ ItemsOK(nft', legacy, s, r)
        /\ StepOK(nft', legacy, s, r) /\ r.items \in Item \X Item
        /\ \A i \in 1..2 : r.items[i].tok = m.items[i].tok
    BY <1>6 DEF Unwinding, ItemsOK
  <2>2. Legs(legacy, r) = Legs(legacy, m) /\ \A i \in Legs(legacy, m) : i \in 1..2
    BY <2>1 DEF Legs
  <2>3. Old(legacy, r) = Old(legacy, m)
    BY <2>1, <2>2 DEF Old
  <2>4. RecordOK(B, O, legacy, s, r, J)
    <3> HIDE DEF B, O, J, m
    <3>. QED BY <1>1, <1>5, <1>6, <2>1, <2>2, <2>3 DEF RecordOK
  <2>5. NextTells(B, O, s, Settle(s, r), J)
    BY <1>2, <1>5, <2>1, <2>4, SettleTells
  <2>. QED BY <1>1, <1>2, <1>4, <1>6, <2>5, CommitTells DEF Stepped
<1>7. CASE out = "done"
  <2>1. AfterUndo(s, c).why = m.why
    BY <1>1, <1>2, WhyIsKept
  <2>. QED BY <1>1, <1>6, <1>7, <2>1
<1>8. CASE out = "refused"
  <2>1. Skipped(s, c).why = m.why
    BY <1>1, <1>2, WhyIsKept
  <2>. QED BY <1>1, <1>6, <1>8, <2>1
<1>9. CASE out = "unknown"
  <2>1. B \subseteq Old(legacy, m) /\ (J.behind \/ \A k \in B : <<k, s>> \in J.names)
    BY <1>1, <1>5 DEF RecordOK
  <2>2. NextTells(B, O, s, Fail(m, <<>>), J)
    BY <1>2, <1>5, <2>1, BreakingOffTells
  <2>3. flying' = flying \cup {tx} /\ tx \in Tx
    BY <1>1, <1>9 DEF Stepped, tx
  <2>4. \A K, mm : LateOK(B, legacy, mm, K, tx)
    BY <1>3 DEF LateOK, Burns, Offers
  <2>. QED BY <1>1, <1>2, <1>3, <1>4, <1>9, <2>2, <2>3, <2>4, CommitTells
<1>. QED BY <1>7, <1>8, <1>9 DEF Outcomes

\* The fee is in, or none was due: the session proceeds, and its record too.
LEMMA EarlyTells ==
  ASSUME IInv, Records, NEW s \in Session, mem[s].step \in {"checking", "paying"},
         NEW next \in {Proceed(s, mem[s]), Fail(mem[s], <<>>)}, NEW cost \in Nat,
         Commit(s, next, cost), UNCHANGED <<legacy, nft, flying>>
  PROVE  Records'
<1> DEFINE m == mem[s]
           B == BurnedIn(nft, s)
           O == DeliveredIn(nft, s)
           J == journal[s]
<1>1. Running(m)
  BY DEF Running
<1>2. /\ From(nft, s, m) /\ StepOK(nft, legacy, s, m)
      /\ m \in SessionRec /\ m.items \in Item \X Item
  BY <1>1, RunningIs DEF From, ItemsOK
<1>3. J \in Record /\ Ahead(B, O, s, m, J)
  BY <1>1, RecordIs
<1>4. Through(nft, s, m)
  BY <1>2 DEF Through, StepOK
<1>5. NextOK(nft', s, next)
  <2>1. NextOK(nft, s, Proceed(s, m))
    BY <1>2, <1>4, ProceedIsOK DEF FivePhases
  <2>2. NextOK(nft, s, Fail(m, <<>>))
    BY <1>2, FailIsOK, WritesAreStatuses
  <2>. QED BY <2>1, <2>2
<1>6. NextTells(B, O, s, next, J)
  <2>1. NextTells(B, O, s, Proceed(s, m), J)
    BY <1>2, <1>3, <1>4, ProceedTells DEF FivePhases
  <2>2. NextTells(B, O, s, Fail(m, <<>>), J)
    BY <1>2, <1>3, BreakingOffTells DEF Ahead
  <2>. QED BY <2>1, <2>2
<1>7. Adds(nft, nft', s, {}, {}) /\ GoesOn(s, next)
  BY <1>5, AddsNothing DEF GoesOn
<1>. QED BY <1>1, <1>6, <1>7, CommitTells

LEMMA PreCheckTells ==
  ASSUME IInv, Records, NEW s \in Session, PreCheck(s)
  PROVE  Records'
<1>1. /\ mem[s].step = "checking" /\ UNCHANGED <<legacy, nft, flying>>
      /\ \/ Commit(s, Fail(mem[s], <<>>), 1)
         \/ \E next \in {Proceed(s, mem[s]), Fail(mem[s], <<>>)} : Commit(s, next, 0)
  BY DEF PreCheck
<1>. QED BY <1>1, EarlyTells

LEMMA PaymentSeenTells ==
  ASSUME IInv, Records, NEW s \in Session, PaymentSeen(s)
  PROVE  Records'
BY EarlyTells DEF PaymentSeen

LEMMA WaitEndsTells ==
  ASSUME IInv, Records, NEW s \in Session, Cancel(s) \/ NoPayment(s)
  PROVE  Records'
<1> DEFINE m == mem[s]
           B == BurnedIn(nft, s)
           O == DeliveredIn(nft, s)
           J == journal[s]
<1>1. /\ Running(m) /\ UNCHANGED <<legacy, nft, flying, journal>> /\ m.step = "paying"
      /\ \E end \in Ends : mem' = [mem EXCEPT ![s] = Stop(m, end)]
  BY DEF Cancel, NoPayment, Running, Ends
<1>2. PICK end \in Ends : mem' = [mem EXCEPT ![s] = Stop(m, end)]
  BY <1>1
<1>3. m \in SessionRec /\ m.items \in Item \X Item
  BY <1>1, RunningIs DEF From, ItemsOK
<1>4. J.st \in Plain /\ (J.behind \/ \A n \in B : <<n, s>> \in J.names) /\ B \subseteq Old(legacy, m)
  BY <1>1, RecordIs DEF Ahead
<1>5. Stop(m, end).step = "ended" /\ Stop(m, end).items = m.items
  BY <1>3, EndIsOK
<1>6. Old(legacy, Stop(m, end)) = Old(legacy, m)
  BY <1>5 DEF Old, Legs
<1>7. RecordOK(B, O, legacy, s, Stop(m, end), J)
  <2> HIDE DEF B, O, J, m
  <2>. QED BY <1>3, <1>4, <1>5, <1>6, PlainIsTold DEF RecordOK
<1>8. journal' = [journal EXCEPT ![s] = J] /\ Adds(nft, nft', s, {}, {})
  BY <1>1, AddsNothing DEF IInv, TypeOK
<1>. QED BY <1>1, <1>2, <1>7, <1>8, StepTells DEF Running

LEMMA StartTells ==
  ASSUME IInv, Records, NEW s \in Session, NEW f \in Surface, NEW t \in Token, NEW u \in Token,
         Start(s, f, t, u)
  PROVE  Records'
<1> DEFINE items == <<Exchanged(t, u), Exchanged(u, t)>>
           m     == [mem[s] EXCEPT !.step = "checking", !.surface = f, !.items = items]
           J     == journal[s]
<1>1. mem[s].step = "none" /\ UNCHANGED <<legacy, nft, flying, journal>>
  BY DEF Start
<1>2. mem \in [Session -> SessionRec] /\ mem' = [mem EXCEPT ![s] = m]
  BY DEF Start, IInv, TypeOK, SessionRec
<1>3. items \in Item \X Item
  BY DEF Exchanged, Item, IInv, TypeOK
<1> HIDE DEF items
<1>4. m.step = "checking" /\ m.items = items
  BY <1>2 DEF SessionRec
<1>5. BurnedIn(nft, s) = {}
  BY <1>1, BurnedIs DEF IInv, Sessions, SessionOK
<1>6. J.st \in Plain /\ DeliveredIn(nft, s) = {}
  BY <1>1 DEF Records, RecordOK
<1> HIDE DEF m
<1>7. RecordOK(BurnedIn(nft', s), DeliveredIn(nft', s), legacy, s, m, J)
  BY <1>1, <1>3, <1>4, <1>5, <1>6 DEF RecordOK
<1>8. journal' = [journal EXCEPT ![s] = J] /\ Adds(nft, nft', s, {}, {})
  BY <1>1, AddsNothing DEF IInv, TypeOK
<1>. QED BY <1>1, <1>2, <1>7, <1>8, StepTells

\* What neither burns nor offers leaves every record true.
LEMMA QuietTells ==
  ASSUME IInv, Records, UNCHANGED <<legacy, flying, mem, journal>>,
         \A t \in Token : nft'[t].by = nft[t].by /\ nft'[t].offered = nft[t].offered
  PROVE  Records'
<1>1. \A s \in Session : BurnedIn(nft', s) = BurnedIn(nft, s) /\ DeliveredIn(nft', s) = DeliveredIn(nft, s)
  BY TokenIsPair DEF BurnedIn, DeliveredIn, Burner
<1>2. \A tx \in flying : tx.by \in Session
  BY DEF IInv, TypeOK, Tx
<1>. QED BY <1>1, <1>2 DEF Records

LEMMA AcceptTells ==
  ASSUME IInv, Records, NEW t \in Token, Accept(t)
  PROVE  Records'
<1>1. nft' = [nft EXCEPT ![t].at = "user"] /\ UNCHANGED <<legacy, flying, mem, journal>>
  BY DEF Accept
<1>2. \A k \in Token : nft'[k].by = nft[k].by /\ nft'[k].offered = nft[k].offered
  BY <1>1 DEF IInv, TypeOK
<1>. QED BY <1>1, <1>2, QuietTells

LEMMA LandTells ==
  ASSUME IInv, Records, NEW tx \in flying, Land(tx)
  PROVE  Records'
<1> DEFINE s == tx.by
           m == mem[s]
           J == journal[s]
           B == BurnedIn(nft, s)
           O == DeliveredIn(nft, s)
<1>1. /\ tx \in Tx /\ s \in Session /\ Safe(nft, tx) /\ m.step = "ended"
      /\ \A ty \in flying : ty \in Tx /\ ty.by \in Session /\ (ty.by = s => ty = tx)
      /\ Ledger(nft)
  BY DEF IInv, TypeOK, Undecided, Tx
<1>2. /\ flying' = flying \ {tx} /\ (Lands(tx) \/ nft' = nft)
      /\ UNCHANGED <<legacy, mem, journal>>
  BY DEF Land
<1>3. RecordOK(B, O, legacy, s, m, J) /\ LateOK(B, legacy, m, J, tx)
  BY <1>1 DEF Records
<1>4. /\ B \cup Burns(tx) = BurnedIn(nft', s) \/ nft' = nft
      /\ O \cup Offers(tx) = DeliveredIn(nft', s) \/ nft' = nft
      /\ \A r \in Session : r # s =>
           BurnedIn(nft', r) = BurnedIn(nft, r) /\ DeliveredIn(nft', r) = DeliveredIn(nft, r)
  BY <1>1, <1>2, LandingAdds DEF Adds
<1>5. /\ J.behind \/ \A n \in B \cup Burns(tx) : <<n, s>> \in J.names
      /\ m.items \in Item \X Item /\ B \cup Burns(tx) \subseteq Old(legacy, m)
  BY <1>1, <1>3 DEF RecordOK, LateOK, Burns
<1>6. Told(B \cup Burns(tx), O \cup Offers(tx), legacy, m, J)
  <2>1. Told(B, O, legacy, m, J)
    BY <1>1, <1>3 DEF RecordOK
  <2>2. CASE J.st \in Plain
    BY <2>2, PlainIsTold
  <2>3. CASE J.st \notin Plain /\ tx.op = "offer"
    <3>1. J.st \in Partial /\ B = {tx.tok[1]} /\ Burns(tx) = {} /\ Offers(tx) = {tx.tok[1]}
      BY <1>3, <2>3 DEF LateOK, Burns, Offers
    <3>2. PICK n \in Old(legacy, m) : B = {n} /\ O \subseteq {n}
      BY <2>1, <3>1 DEF Told
    <3>3. J.st \notin Unwound \cup {"partial", "complete"}
      BY <3>1 DEF Unwound, Partial
    <3>4. B \cup Burns(tx) = {n} /\ O \cup Offers(tx) \subseteq {n}
      BY <3>1, <3>2
    <3>. QED BY <3>3, <3>4 DEF Told
  <2>4. CASE J.st \notin Plain /\ tx.op # "offer"
    <3>1. Burns(tx) = {} /\ Offers(tx) = {}
      BY <1>3, <2>4 DEF LateOK, Burns, Offers
    <3>2. B \cup Burns(tx) = B /\ O \cup Offers(tx) = O
      BY <3>1
    <3>. QED BY <2>1, <3>2
  <2>. QED BY <2>2, <2>3, <2>4
<1>7. RecordOK(B \cup Burns(tx), O \cup Offers(tx), legacy, s, m, J)
  BY <1>1, <1>5, <1>6 DEF RecordOK
<1>8. RecordOK(BurnedIn(nft', s), DeliveredIn(nft', s), legacy, s, m, J)
  BY <1>3, <1>4, <1>7
<1>9. \A r \in Session :
        RecordOK(BurnedIn(nft', r), DeliveredIn(nft', r), legacy, r, mem[r], journal[r])
  <2>1. ASSUME NEW r \in Session, r # s
        PROVE  RecordOK(BurnedIn(nft', r), DeliveredIn(nft', r), legacy, r, mem[r], journal[r])
    <3>1. RecordOK(BurnedIn(nft, r), DeliveredIn(nft, r), legacy, r, mem[r], journal[r])
      BY DEF Records
    <3>. QED BY <1>4, <2>1, <3>1
  <2>. QED BY <1>8, <2>1
<1>10. \A ty \in flying' : LateOK(BurnedIn(nft', ty.by), legacy, mem[ty.by], journal[ty.by], ty)
  <2>1. TAKE ty \in flying'
  <2>2. ty \in flying /\ ty.by \in Session /\ ty.by # s
    BY <1>1, <1>2
  <2>3. LateOK(BurnedIn(nft, ty.by), legacy, mem[ty.by], journal[ty.by], ty)
    BY <2>2 DEF Records
  <2>4. BurnedIn(nft', ty.by) = BurnedIn(nft, ty.by)
    BY <1>4, <2>2
  <2>. QED BY <2>3, <2>4
<1>. QED BY <1>2, <1>9, <1>10 DEF Records

\* What a session was waiting for may land when nobody is there any more.
LEMMA PendingIsLate ==
  ASSUME IInv, Records, NEW s \in Session, NEW p \in Pending(s)
  PROVE  LateOK(BurnedIn(nft, s), legacy, mem[s], journal[s], p)
<1> DEFINE m == mem[s]
           J == journal[s]
           B == BurnedIn(nft, s)
           n == m.items[m.at].tok[1]
<1>1. m.step \in {"minting", "modifying", "burning", "offering", "rescuing", "unwinding"}
  BY DEF Pending
<1>2. Running(m) /\ p.by = s
  BY <1>1, PendingIsSafe DEF Running
<1>3. /\ From(nft, s, m) /\ StepOK(nft, legacy, s, m)
  BY <1>2, RunningIs
<1>4. RecordOK(B, DeliveredIn(nft, s), legacy, s, m, J)
  BY DEF Records
<1>5. CASE m.step \in {"minting", "modifying"}
  BY <1>5 DEF Pending, LateOK
<1>6. CASE m.step = "burning"
  <2>1. p.tok = m.items[m.at].tok /\ p.op = "burn"
    BY <1>6 DEF Pending, Now
  <2>2. m.at \in Legs(legacy, m) /\ \A i \in Legs(legacy, m) : Minted(m.items[i])
    BY <1>3, <1>6 DEF StepOK
  <2>3. J.behind \/ \A k \in Old(legacy, m) : <<k, s>> \in J.names
    BY <1>3, <1>4, <1>6, <2>2, LegsAreNamed DEF From, RecordOK
  <2>4. p.tok[1] \in Old(legacy, m) /\ J.st \in Plain
    BY <1>4, <1>6, <2>1, <2>2 DEF Old, RecordOK
  <2>. QED BY <1>2, <2>1, <2>3, <2>4 DEF LateOK
<1>7. CASE m.step \in {"offering", "rescuing"}
  <2>1. p.tok = m.items[m.at].new /\ p.op = "offer"
    BY <1>7 DEF Pending, Now
  <2>2. m.at \in Legs(legacy, m) /\ Minted(m.items[m.at])
    BY <1>3, <1>7 DEF StepOK
  <2>3. p.tok[1] = n
    BY <1>3, <2>1, <2>2 DEF From, ItemsOK, ItemOK, Legs
  <2>4. J.st \in Plain \/ (J.st \in Partial /\ B = {n})
    BY <1>4, <1>7 DEF RecordOK
  <2>. QED BY <2>1, <2>3, <2>4 DEF LateOK
<1>8. CASE m.step = "unwinding"
  <2>1. PICK c \in m.left : p = Compensation(s, c)
    BY <1>8 DEF Pending
  <2>2. c \in {"revert", "burn"} \X (1..2)
    BY <1>3 DEF From, SessionRec
  <2>3. CASE c[1] = "revert"
    BY <2>1, <2>3 DEF Compensation, LateOK
  <2>4. CASE c[1] = "burn"
    <3>1. c = <<"burn", c[2]>> /\ c[2] \in 1..2
      BY <2>2, <2>4
    <3>2. m.items[c[2]].new = <<m.items[c[2]].tok[1], s>>
      BY <1>3, <1>8, <3>1 DEF StepOK, From, ItemsOK, ItemOK
    <3>3. p.op = "burn" /\ p.tok[2] = s
      BY <2>1, <2>4, <3>2 DEF Compensation
    <3>4. s # First
      BY SwapAssumption
    <3>. QED BY <3>3, <3>4 DEF LateOK
  <2>. QED BY <2>2, <2>3, <2>4
<1>. QED BY <1>1, <1>5, <1>6, <1>7, <1>8

LEMMA RestartTells ==
  ASSUME IInv, Records, Restart
  PROVE  Records'
<1>1. /\ mem' = [s \in Session |-> IF Active(s) THEN Stop(mem[s], "gone") ELSE mem[s]]
      /\ flying' = flying \cup UNION {Pending(s) : s \in Session}
      /\ UNCHANGED <<legacy, nft, journal>>
  BY DEF Restart
<1>2. ASSUME NEW s \in Session
      PROVE  /\ Running(mem[s]) => mem'[s].step = "ended"
             /\ ~Running(mem[s]) => mem'[s] = mem[s]
             /\ mem'[s].items = mem[s].items
             /\ Old(legacy, mem'[s]) = Old(legacy, mem[s])
  <2>1. Active(s) <=> Running(mem[s])
    BY DEF Active, Running
  <2>2. mem[s] \in SessionRec /\ "gone" \in Ends
    BY DEF IInv, TypeOK, SessionRec, Ends
  <2>3. /\ Stop(mem[s], "gone").step = "ended"
        /\ Stop(mem[s], "gone").items = mem[s].items
    BY <2>2, EndIsOK
  <2>4. mem'[s].items = mem[s].items
    BY <1>1, <2>3
  <2>. QED BY <1>1, <2>1, <2>3, <2>4 DEF Old, Legs
<1>3. ASSUME NEW s \in Session
      PROVE  RecordOK(BurnedIn(nft, s), DeliveredIn(nft, s), legacy, s, mem'[s], journal[s])
  <2> DEFINE B == BurnedIn(nft, s)
             O == DeliveredIn(nft, s)
             J == journal[s]
  <2>1. RecordOK(B, O, legacy, s, mem[s], J)
    BY DEF Records
  <2>2. CASE ~Running(mem[s])
    BY <1>2, <2>1, <2>2
  <2>3. CASE Running(mem[s])
    <3>1. Told(B, O, legacy, mem'[s], J)
      <4>1. CASE J.st \in Plain
        BY <4>1, PlainIsTold
      <4>2. CASE J.st \notin Plain
        <5>1. mem[s].step = "rescuing"
          BY <2>1, <2>3, <4>2 DEF RecordOK, Running
        <5>2. J.st \in Partial /\ J.st \notin Unwound \cup {"partial", "complete"}
          BY <2>1, <4>2, <5>1 DEF RecordOK, Partial, Unwound
        <5>3. /\ O = {} /\ B \subseteq Old(legacy, mem[s])
              /\ B = {mem[s].items[mem[s].at].tok[1]}
          BY <2>1, <5>1 DEF RecordOK
        <5> HIDE DEF B, O, J
        <5>. QED BY <1>2, <5>2, <5>3 DEF Told
      <4>. QED BY <4>1, <4>2
    <3>2. /\ mem[s].items \in Item \X Item /\ B \subseteq Old(legacy, mem[s])
          /\ J.behind \/ \A n \in B : <<n, s>> \in J.names
      BY <2>1, <2>3 DEF RecordOK, Running
    <3> DEFINE r == mem'[s]
    <3>3. /\ r.step = "ended" /\ r.items \in Item \X Item /\ B \subseteq Old(legacy, r)
      BY <1>2, <2>3, <3>2
    <3>4. Told(B, O, legacy, r, J)
      BY <3>1
    <3> HIDE DEF B, O, J, r
    <3>5. RecordOK(B, O, legacy, s, r, J)
      BY <3>2, <3>3, <3>4 DEF RecordOK
    <3>. QED BY <3>5 DEF B, O, J, r
  <2>. QED BY <2>2, <2>3
<1>4. ASSUME NEW tx \in flying'
      PROVE  LateOK(BurnedIn(nft, tx.by), legacy, mem'[tx.by], journal[tx.by], tx)
  <2>1. CASE tx \in flying
    <3>1. tx.by \in Session /\ mem[tx.by].step = "ended"
      BY <2>1 DEF IInv, TypeOK, Undecided, Tx
    <3>. QED BY <1>2, <2>1, <3>1 DEF Records, Running
  <2>2. CASE \E s \in Session : tx \in Pending(s)
    <3>1. PICK s \in Session : tx \in Pending(s)
      BY <2>2
    <3>2. LateOK(BurnedIn(nft, s), legacy, mem[s], journal[s], tx) /\ tx.by = s
      BY <3>1, PendingIsLate, PendingIsSafe
    <3>. QED BY <1>2, <3>2 DEF LateOK
  <2>. QED BY <1>1, <2>1, <2>2
<1>. QED BY <1>1, <1>3, <1>4 DEF Records

LEMMA InitTells ==
  ASSUME Init
  PROVE  Records
<1>1. /\ flying = {}
      /\ nft = [t \in Token |-> [at |-> IF t[2] = First THEN "user" ELSE "none",
                                 trait |-> t[1], offered |-> FALSE, by |-> First]]
      /\ mem = [s \in Session |-> NoSession]
      /\ journal = [s \in Session |-> [st |-> "none", names |-> {}, behind |-> FALSE]]
  BY DEF Init
<1>2. ASSUME NEW s \in Session
      PROVE  BurnedIn(nft, s) = {} /\ DeliveredIn(nft, s) = {}
  BY <1>1, SwapAssumption, TokenIsPair DEF BurnedIn, DeliveredIn, Burner
<1>3. "none" \in Plain /\ NoSession.step = "none"
  BY DEF Plain, Statuses, Unwound, Partial, NoSession
<1>4. ASSUME NEW s \in Session
      PROVE  RecordOK(BurnedIn(nft, s), DeliveredIn(nft, s), legacy, s, mem[s], journal[s])
  <2>1. mem[s].step = "none" /\ journal[s].st = "none"
    BY <1>1, <1>3
  <2>. QED BY <1>2, <1>3, <2>1 DEF RecordOK
<1>. QED BY <1>1, <1>4 DEF Records

LEMMA NextTold ==
  ASSUME IInv, Records, [Next]_vars
  PROVE  Records'
<1>1. ASSUME NEW s \in Session, NEW f \in Surface, NEW t \in Token, NEW u \in Token, Start(s, f, t, u)
      PROVE  Records'
  BY <1>1, StartTells
<1>2. ASSUME NEW s \in Session, PaymentSeen(s) \/ Cancel(s) \/ NoPayment(s) \/ PreCheck(s)
      PROVE  Records'
  BY <1>2, PaymentSeenTells, WaitEndsTells, PreCheckTells
<1>3. ASSUME NEW s \in Session, MintOne(s) \/ ModifyOne(s) \/ BurnStale(s) \/ BurnOne(s)
      PROVE  Records'
  BY <1>3, MintOneTells, ModifyOneTells, BurnStaleTells, BurnOneTells
<1>4. ASSUME NEW s \in Session, OfferOne(s) \/ Rescue(s) \/ UnwindOne(s)
      PROVE  Records'
  BY <1>4, OfferOneTells, RescueTells, UnwindOneTells
<1>5. ASSUME NEW t \in Token, Accept(t)
      PROVE  Records'
  BY <1>5, AcceptTells
<1>6. ASSUME NEW t \in Token, Listen(t)
      PROVE  Records'
  BY <1>6, QuietTells DEF Listen
<1>7. ASSUME NEW tx \in flying, Land(tx)
      PROVE  Records'
  BY <1>7, LandTells
<1>8. CASE Restart
  BY <1>8, RestartTells
<1>9. CASE UNCHANGED vars
  BY <1>9, QuietTells DEF vars
<1>. QED BY <1>1, <1>2, <1>3, <1>4, <1>5, <1>6, <1>7, <1>8, <1>9 DEF Next, Task

LEMMA RecordsHold == Spec => [](IInv /\ Records)
<1>1. Init => IInv /\ Records
  BY InitEstablishes, InitTells
<1>2. IInv /\ Records /\ [Next]_vars => (IInv /\ Records)'
  BY NextKeeps, NextTold
<1>. QED BY <1>1, <1>2, PTL DEF Spec

\* An administrator can rely on the journal: whatever writes of it failed, and
\* whatever landed late, it names the replacement of every original that was
\* burned, unless it says that it is behind, and never claims another outcome
\* than the ledger's.
THEOREM JournalTold == Spec => []JournalTellsOutcome
<1>1. IInv /\ Records => JournalTellsOutcome
  <2> SUFFICES ASSUME IInv, Records, NEW s \in Session
               PROVE  LET st == journal[s].st
                          old == {mem[s].items[i].tok[1] : i \in Reminted(s)} IN
                      /\ journal[s].behind \/ \A n \in Burned(s) : <<n, s>> \in journal[s].names
                      /\ st \in Unwound => Burned(s) = {} /\ Delivered(s) = {}
                      /\ st \in Partial \cup {"partial"} =>
                          \E n \in old : Burned(s) = {n} /\ Delivered(s) \subseteq {n}
                      /\ st = "partial" => Delivered(s) = Burned(s)
                      /\ st = "complete" => Burned(s) = old /\ Delivered(s) = old
    BY DEF JournalTellsOutcome
  <2> DEFINE m == mem[s]
             J == journal[s]
             B == BurnedIn(nft, s)
             O == DeliveredIn(nft, s)
             old == {m.items[i].tok[1] : i \in Reminted(s)}
  <2>1. Burned(s) = B /\ Delivered(s) = O
    BY DEF Burned, Delivered, BurnedIn, DeliveredIn, Burner
  <2>2. RecordOK(B, O, legacy, s, m, J)
    BY DEF Records
  <2>3. CASE J.st \in Plain
    BY <2>1, <2>2, <2>3 DEF RecordOK, Plain, Unwound, Partial
  <2>4. CASE J.st \notin Plain
    <3>1. m.step \in {"rescuing", "ended"}
      BY <2>2, <2>4 DEF RecordOK
    <3>2. m.items \in Item \X Item
      BY <2>2, <3>1 DEF RecordOK
    <3>3. Old(legacy, m) = old
      BY <3>2, LegsAreReminted DEF Old
    <3>4. Told(B, O, legacy, m, J)
      <4>1. CASE m.step = "ended"
        BY <2>2, <4>1 DEF RecordOK
      <4>2. CASE m.step = "rescuing"
        <5>1. J.st \in Partial /\ O = {} /\ B = {m.items[m.at].tok[1]} /\ B \subseteq Old(legacy, m)
          BY <2>2, <2>4, <4>2 DEF RecordOK
        <5>2. J.st \notin Unwound \cup {"partial", "complete"}
          BY <5>1 DEF Partial, Unwound
        <5> HIDE DEF B, O, J
        <5>. QED BY <5>1, <5>2 DEF Told
      <4>. QED BY <3>1, <4>1, <4>2
    <3>5. J.behind \/ \A n \in B : <<n, s>> \in J.names
      BY <2>2 DEF RecordOK
    <3> HIDE DEF B, O, old
    <3>. QED BY <2>1, <3>3, <3>4, <3>5 DEF Told, old
  <2>. QED BY <2>3, <2>4
<1>. QED BY <1>1, RecordsHold, PTL

-----------------------------------------------------------------------------
(* Where the traits are while swaps run to plan.                           *)

\* Edition n has one living token, which shows trait x.
Sole(N, n, x) ==
    \E t \in Token :
        /\ t[1] = n /\ LiveIn(N, t) /\ N[t].trait = x
        /\ \A u \in Token : u[1] = n /\ LiveIn(N, u) => u = t

\* Sessions that have traits in their hands, and the editions they claim.
Working(m)   == m.step \in {"checking", "paying", "minting", "modifying", "burning", "unwinding"}
Claims(m, n) == Working(m) /\ \E i \in 1..2 : m.items[i].tok[1] = n

\* An item's tokens are all there is of its edition, and show the trait they
\* should.
ItemKept(N, s, e) ==
    /\ LiveIn(N, e.tok) => N[e.tok].at = "user" /\ N[e.tok].trait = (IF e.done THEN e.now ELSE e.was)
    /\ ~LiveIn(N, e.tok) => Minted(e) /\ Gone(N, s, e)
    /\ Minted(e) => N[e.new].at = "issuer" /\ ~N[e.new].offered /\ N[e.new].trait = e.now
    /\ \A u \in Token : u[1] = e.tok[1] /\ LiveIn(N, u) => u = e.tok \/ (Minted(e) /\ u = e.new)

\* A session exchanges the traits of two editions.
ItemsKept(N, s, m) ==
    /\ m.items[1].tok[1] # m.items[2].tok[1]
    /\ m.items[1].was = m.items[2].now /\ m.items[1].now = m.items[2].was
    /\ \A i \in 1..2 : ItemKept(N, s, m.items[i])

\* How far it has come, beside what StepOK says.
StepKept(N, L, m) ==
    /\ \A i \in Legs(L, m) : ~m.items[i].done
    /\ m.step \in {"checking", "paying", "minting"} => \A i \in 1..2 : ~m.items[i].done
    /\ m.step \in {"checking", "paying"} => \A i \in 1..2 : ~Minted(m.items[i])
    /\ m.step = "minting" => \A i \in 1..2 : Minted(m.items[i]) => i < m.at
    /\ m.step = "modifying" => \A i \in (1..2) \ Legs(L, m) : m.items[i].done <=> i < m.at
    /\ m.step = "burning" => \A i \in (1..2) \ Legs(L, m) : m.items[i].done
    /\ m.step = "unwinding" =>
        /\ m.why \in Unwound
        /\ \A i \in 1..2 : /\ LiveIn(N, m.items[i].tok)
                           /\ m.items[i].done => <<"revert", i>> \in m.left
                           /\ Minted(m.items[i]) => <<"burn", i>> \in m.left

WorkKept(N, L, s, m) == ItemsKept(N, s, m) /\ StepKept(N, L, m)

\* The trait an edition has, or had before the session that works on it.
HomeIs(N, M, n, x) ==
    \/ Sole(N, n, x) /\ \A s \in Session : ~Claims(M[s], n)
    \/ \E s \in Session : Working(M[s]) /\ \E i \in 1..2 :
        M[s].items[i].tok[1] = n /\ M[s].items[i].was = x

Kept ==
    /\ \A tx \in flying : tx.op = "offer"
    /\ \A t \in Token : index[t].at = "user" => nft[t].at \in {"user", "burned"}
    /\ \A s \in Session : /\ Working(mem[s]) => WorkKept(nft, legacy, s, mem[s])
                          /\ mem[s].step # "rescuing"
    /\ \A r, s \in Session, n \in Edition : Claims(mem[r], n) /\ Claims(mem[s], n) => r = s
    /\ \A n \in Edition : \E x \in Edition : HomeIs(nft, mem, n, x)
    /\ \A n, k, x \in Edition : HomeIs(nft, mem, n, x) /\ HomeIs(nft, mem, k, x) => n = k

Traits == ~disturbed => Kept

-----------------------------------------------------------------------------
(* Who stays out of a step keeps its traits.                               *)

\* An item sees nothing of what happens to other editions.
LEMMA ItemIsStable ==
  ASSUME NEW N, NEW M, NEW s, NEW e \in Item, ItemKept(N, s, e),
         Minted(e) => e.new = <<e.tok[1], s>> /\ e.new \in Token,
         \A t \in Token : t[1] = e.tok[1] => M[t] = N[t]
  PROVE  ItemKept(M, s, e) /\ (LiveIn(M, e.tok) <=> LiveIn(N, e.tok))
<1>1. e.tok \in Token /\ e.tok[1] \in Edition
  BY TokenIsPair DEF Item
<1>2. M[e.tok] = N[e.tok]
  BY <1>1
<1>3. Minted(e) => M[e.new] = N[e.new]
  BY <1>1
<1>4. Gone(M, s, e) <=> Gone(N, s, e)
  <2>1. <<e.tok[1], First>> \in Token /\ <<e.tok[1], First>>[1] = e.tok[1]
    BY <1>1, TokenIsPair
  <2>. QED BY <2>1 DEF Gone, Burner
<1>5. \A u \in Token : u[1] = e.tok[1] => (LiveIn(M, u) <=> LiveIn(N, u))
  BY DEF LiveIn
<1>. QED BY <1>1, <1>2, <1>3, <1>4, <1>5 DEF ItemKept, LiveIn

LEMMA SoleIsStable ==
  ASSUME NEW N, NEW M, NEW n,
         \A t \in Token : t[1] = n => (LiveIn(M, t) <=> LiveIn(N, t)) /\ (LiveIn(N, t) => M[t].trait = N[t].trait)
  PROVE  \A x : Sole(M, n, x) <=> Sole(N, n, x)
BY DEF Sole

\* What is known of a session's two items.
LEMMA PairIs ==
  ASSUME IInv, NEW s \in Session, Running(mem[s])
  PROVE  \A i \in 1..2 :
            /\ mem[s].items[i] \in Item /\ mem[s].items[i].tok[1] \in Edition
            /\ mem[s].items[i].was \in Edition /\ mem[s].items[i].now \in Edition
            /\ ItemOK(nft, legacy, s, mem[s].items[i])
            /\ Minted(mem[s].items[i]) =>
                 /\ mem[s].items[i].new = <<mem[s].items[i].tok[1], s>>
                 /\ mem[s].items[i].new \in Token
<1>1. /\ \A i \in 1..2 : /\ mem[s].items[i] \in Item /\ mem[s].items[i].tok[1] \in Edition
                         /\ Replacement(mem[s].items[i].tok, s) \in Token
      /\ \A i \in 1..2 : ItemOK(nft, legacy, s, mem[s].items[i])
  BY RunningIs DEF From, ItemsOK
<1>. QED BY <1>1 DEF Item, ItemOK, Replacement

\* Working sessions see nothing of what the owner accepts and the others
\* offer, begin to offer, or end with.
LEMMA OthersKeep ==
  ASSUME IInv, Kept, legacy' = legacy,
         \A t \in Token :
            /\ nft'[t].trait = nft[t].trait /\ nft'[t].by = nft[t].by
            /\ \/ nft'[t].at = nft[t].at
               \/ nft[t].at = "issuer" /\ nft[t].offered /\ nft'[t].at = "user"
            /\ nft'[t].offered => nft[t].offered \/ ~(t[2] \in Session /\ Working(mem[t[2]])),
         \A s \in Session : /\ Working(mem[s]) \/ Working(mem'[s]) => mem'[s] = mem[s]
                            /\ mem'[s].step # "rescuing",
         \A tx \in flying' : tx.op = "offer",
         \A t \in Token : index'[t].at = "user" => nft'[t].at \in {"user", "burned"}
  PROVE  Kept'
<1>1. \A t \in Token : LiveIn(nft', t) <=> LiveIn(nft, t)
  BY DEF LiveIn
<1>2. \A n, x : Sole(nft', n, x) <=> Sole(nft, n, x)
  BY <1>1, SoleIsStable
<1>3. \A s \in Session : Working(mem'[s]) <=> Working(mem[s])
  OBVIOUS
<1>4. \A s \in Session, n \in Edition : Claims(mem'[s], n) <=> Claims(mem[s], n)
  BY <1>3 DEF Claims
<1>5. \A n \in Edition, x \in Edition : HomeIs(nft', mem', n, x) <=> HomeIs(nft, mem, n, x)
  <2>1. \A n \in Edition, x \in Edition :
          (\E s \in Session : Working(mem'[s]) /\ \E i \in 1..2 :
              mem'[s].items[i].tok[1] = n /\ mem'[s].items[i].was = x)
          <=>
          (\E s \in Session : Working(mem[s]) /\ \E i \in 1..2 :
              mem[s].items[i].tok[1] = n /\ mem[s].items[i].was = x)
    BY <1>3
  <2>. QED BY <1>2, <1>4, <2>1 DEF HomeIs
<1>6. ASSUME NEW s \in Session, Working(mem[s])
      PROVE  WorkKept(nft', legacy, s, mem[s])
  <2>1. WorkKept(nft, legacy, s, mem[s]) /\ Running(mem[s])
    BY <1>6 DEF Kept, Working, Running
  <2>2. ASSUME NEW i \in 1..2
        PROVE  ItemKept(nft', s, mem[s].items[i]) /\ mem[s].items[i].tok \in Token
    <3> DEFINE e == mem[s].items[i]
    <3>1. /\ ItemKept(nft, s, e) /\ e \in Item /\ e.tok \in Token /\ e.tok[1] \in Edition
          /\ Minted(e) => e.new = <<e.tok[1], s>> /\ e.new \in Token
      BY <2>1, PairIs DEF WorkKept, ItemsKept, Item
    <3> HIDE DEF e
    <3>2. LiveIn(nft, e.tok) => nft'[e.tok].at = "user"
      BY <3>1 DEF ItemKept
    <3>3. Minted(e) => nft'[e.new].at = "issuer" /\ ~nft'[e.new].offered
      <4>1. Minted(e) => e.new[2] = s
        BY <3>1
      <4>. QED BY <1>6, <3>1, <4>1 DEF ItemKept
    <3>4. Gone(nft', s, e) <=> Gone(nft, s, e)
      BY <3>1, TokenIsPair DEF Gone, Burner
    <3>5. ItemKept(nft', s, e)
      BY <1>1, <3>1, <3>2, <3>3, <3>4 DEF ItemKept
    <3>. QED BY <3>1, <3>5 DEF e
  <2>3. StepKept(nft', legacy, mem[s])
    BY <1>1, <2>1, <2>2 DEF StepKept, WorkKept
  <2>. QED BY <2>1, <2>2, <2>3 DEF WorkKept, ItemsKept
<1>7. \A s \in Session : Working(mem'[s]) => WorkKept(nft', legacy', s, mem'[s])
  BY <1>3, <1>6
<1>. QED BY <1>4, <1>5, <1>7 DEF Kept

-----------------------------------------------------------------------------
(* A session hands its traits on, back, or across.                         *)

\* Session s, which held m, has become r: it still works on what it began
\* with, or the two editions show what they did before, or the exchange.
Handed(N, s, m, r) ==
    /\ r.step # "rescuing"
    /\ \/ /\ Working(r) /\ WorkKept(N, legacy, s, r)
          /\ \A i \in 1..2 : r.items[i].tok = m.items[i].tok /\ r.items[i].was = m.items[i].was
       \/ ~Working(r) /\ \A i \in 1..2 : Sole(N, m.items[i].tok[1], m.items[i].was)
       \/ ~Working(r) /\ \A i \in 1..2 : Sole(N, m.items[i].tok[1], m.items[i].now)

\* An edition that a session has in its hands is where it left it.
LEMMA HomeOfClaimed ==
  ASSUME IInv, Kept, NEW s \in Session, Working(mem[s]), NEW i \in 1..2
  PROVE  /\ Claims(mem[s], mem[s].items[i].tok[1])
         /\ \A x : HomeIs(nft, mem, mem[s].items[i].tok[1], x) <=> x = mem[s].items[i].was
<1> DEFINE n == mem[s].items[i].tok[1]
<1>1. Running(mem[s]) /\ WorkKept(nft, legacy, s, mem[s])
  BY DEF Kept, Working, Running
<1>2. n \in Edition /\ Claims(mem[s], n)
  BY <1>1, PairIs DEF Claims
<1>3. \A r \in Session : Claims(mem[r], n) => r = s
  BY <1>2 DEF Kept
<1>4. \A j \in 1..2 : mem[s].items[j].tok[1] = n => j = i
  BY <1>1 DEF WorkKept, ItemsKept
<1>5. ASSUME NEW x, HomeIs(nft, mem, n, x) PROVE x = mem[s].items[i].was
  <2>1. PICK r \in Session : Working(mem[r]) /\ \E j \in 1..2 :
                mem[r].items[j].tok[1] = n /\ mem[r].items[j].was = x
    BY <1>2, <1>5 DEF HomeIs
  <2>2. r = s
    BY <1>3, <2>1 DEF Claims
  <2>. QED BY <1>4, <2>1, <2>2
<1>6. HomeIs(nft, mem, n, mem[s].items[i].was)
  BY DEF HomeIs
<1>. QED BY <1>2, <1>5, <1>6

\* A step of one session, on the tokens of its own two editions.
LEMMA HandedKeeps ==
  ASSUME IInv, Kept, NEW s \in Session, Working(mem[s]), NEW m,
         mem' = [mem EXCEPT ![s] = m], Handed(nft', s, mem[s], m), legacy' = legacy,
         \A t \in Token : \/ nft'[t] = nft[t]
                          \/ \E i \in 1..2 : mem[s].items[i].tok[1] = t[1],
         \A tx \in flying' : tx.op = "offer",
         \A t \in Token : index'[t].at = "user" => nft'[t].at \in {"user", "burned"}
  PROVE  Kept'
<1> DEFINE Mine(n) == \E i \in 1..2 : mem[s].items[i].tok[1] = n
<1>1. /\ Running(mem[s]) /\ WorkKept(nft, legacy, s, mem[s])
      /\ mem'[s] = m /\ \A r \in Session : r # s => mem'[r] = mem[r]
  BY DEF Kept, Working, Running, IInv, TypeOK
<1>2. \A n : Mine(n) <=> Claims(mem[s], n)
  BY DEF Claims
<1>3. \A n : Claims(m, n) => Mine(n)
  BY DEF Handed, Claims
<1>4. \A n \in Edition : Mine(n) => \A r \in Session : r # s => ~Claims(mem[r], n)
  BY <1>2 DEF Kept
<1>5. \A t \in Token : ~Mine(t[1]) => nft'[t] = nft[t]
  OBVIOUS
<1>6. ASSUME NEW r \in Session, Working(mem'[r])
      PROVE  WorkKept(nft', legacy', r, mem'[r])
  <2>1. CASE r = s
    BY <1>1, <1>6, <2>1 DEF Handed
  <2>2. CASE r # s
    <3>1. /\ mem'[r] = mem[r] /\ Working(mem[r]) /\ Running(mem[r])
          /\ WorkKept(nft, legacy, r, mem[r])
      BY <1>1, <1>6, <2>2 DEF Kept, Working, Running
    <3>2. ASSUME NEW i \in 1..2
          PROVE  /\ ItemKept(nft', r, mem[r].items[i])
                 /\ LiveIn(nft', mem[r].items[i].tok) <=> LiveIn(nft, mem[r].items[i].tok)
      <4> DEFINE e == mem[r].items[i]
      <4>1. /\ ItemKept(nft, r, e) /\ e \in Item /\ e.tok[1] \in Edition
            /\ Minted(e) => e.new = <<e.tok[1], r>> /\ e.new \in Token
        BY <3>1, PairIs DEF WorkKept, ItemsKept
      <4>2. Claims(mem[r], e.tok[1])
        BY <3>1 DEF Claims
      <4>3. ~Mine(e.tok[1])
        BY <1>4, <2>2, <4>1, <4>2
      <4>4. \A t \in Token : t[1] = e.tok[1] => nft'[t] = nft[t]
        BY <1>5, <4>3
      <4> HIDE DEF e
      <4>5. ItemKept(nft', r, e) /\ (LiveIn(nft', e.tok) <=> LiveIn(nft, e.tok))
        BY <4>1, <4>4, ItemIsStable
      <4>. QED BY <4>5 DEF e
    <3>3. StepKept(nft', legacy, mem[r])
      BY <3>1, <3>2 DEF StepKept, WorkKept
    <3>. QED BY <3>1, <3>2, <3>3 DEF WorkKept, ItemsKept
  <2>. QED BY <2>1, <2>2
<1>7. \A n \in Edition : ~Mine(n) =>
        \A r \in Session : Claims(mem'[r], n) <=> Claims(mem[r], n)
  BY <1>1, <1>2, <1>3
<1>8. ASSUME NEW n \in Edition, ~Mine(n) PROVE \A x : HomeIs(nft', mem', n, x) <=> HomeIs(nft, mem, n, x)
  <2>1. \A x : Sole(nft', n, x) <=> Sole(nft, n, x)
    <3>1. \A t \in Token : t[1] = n => (LiveIn(nft', t) <=> LiveIn(nft, t))
                                       /\ (LiveIn(nft, t) => nft'[t].trait = nft[t].trait)
      BY <1>5, <1>8 DEF LiveIn
    <3>. QED BY <3>1, SoleIsStable
  <2>2. TAKE x
  <2>3. \A r \in Session :
          (Working(mem'[r]) /\ \E i \in 1..2 : mem'[r].items[i].tok[1] = n /\ mem'[r].items[i].was = x)
          <=> (Working(mem[r]) /\ \E i \in 1..2 : mem[r].items[i].tok[1] = n /\ mem[r].items[i].was = x)
    <3>1. TAKE r \in Session
    <3>2. CASE r = s
      <4>1. \A i \in 1..2 : mem[s].items[i].tok[1] # n
        BY <1>8
      <4>2. Working(m) => \A i \in 1..2 : m.items[i].tok[1] # n
        BY <4>1 DEF Handed
      <4>. QED BY <1>1, <3>2, <4>1, <4>2
    <3>3. CASE r # s
      BY <1>1, <3>3
    <3>. QED BY <3>2, <3>3
  <2>. QED BY <1>7, <1>8, <2>1, <2>3 DEF HomeIs
<1>9. \A i \in 1..2 : /\ mem[s].items[i].tok[1] \in Edition
                      /\ mem[s].items[i].was \in Edition /\ mem[s].items[i].now \in Edition
  BY <1>1, PairIs
<1>10. /\ mem[s].items[1].tok[1] # mem[s].items[2].tok[1]
       /\ mem[s].items[1].was = mem[s].items[2].now /\ mem[s].items[1].now = mem[s].items[2].was
  BY <1>1 DEF WorkKept, ItemsKept
<1>11. \A i \in 1..2 : HomeIs(nft, mem, mem[s].items[i].tok[1], mem[s].items[i].was)
  <2>1. ASSUME NEW i \in 1..2
        PROVE  \A x : HomeIs(nft, mem, mem[s].items[i].tok[1], x) <=> x = mem[s].items[i].was
    BY HomeOfClaimed
  <2>. QED BY <2>1
<1>12. mem[s].items[1].was # mem[s].items[2].was
  <2>1. 1 \in 1..2 /\ 2 \in 1..2
    OBVIOUS
  <2>. QED BY <1>9, <1>10, <1>11, <2>1 DEF Kept
<1>13. \/ \A i \in 1..2 : \A x : HomeIs(nft', mem', mem[s].items[i].tok[1], x) <=> x = mem[s].items[i].was
       \/ \A i \in 1..2 : \A x : HomeIs(nft', mem', mem[s].items[i].tok[1], x) <=> x = mem[s].items[i].now
  <2>1. ASSUME Working(m), NEW i \in 1..2, NEW x
        PROVE  HomeIs(nft', mem', mem[s].items[i].tok[1], x) <=> x = mem[s].items[i].was
    <3> DEFINE n == mem[s].items[i].tok[1]
    <3>1. \A j \in 1..2 : m.items[j].tok = mem[s].items[j].tok /\ m.items[j].was = mem[s].items[j].was
      BY <2>1 DEF Handed
    <3>2. \A r \in Session : Working(mem'[r]) /\ (\E j \in 1..2 : mem'[r].items[j].tok[1] = n) => r = s
      BY <1>1, <1>4, <1>9 DEF Claims
    <3>3. \A j \in 1..2 : mem[s].items[j].tok[1] = n => j = i
      BY <1>10
    <3>4. Claims(mem'[s], n)
      BY <1>1, <2>1, <3>1 DEF Claims
    <3> HIDE DEF n
    <3>5. HomeIs(nft', mem', n, x) <=> \E j \in 1..2 : m.items[j].tok[1] = n /\ m.items[j].was = x
      BY <1>1, <2>1, <3>2, <3>4 DEF HomeIs
    <3>6. mem[s].items[i].tok[1] = n
      BY DEF n
    <3>. QED BY <3>1, <3>3, <3>5, <3>6
  <2>2. ASSUME ~Working(m), NEW i \in 1..2, NEW x
        PROVE  HomeIs(nft', mem', mem[s].items[i].tok[1], x) <=> Sole(nft', mem[s].items[i].tok[1], x)
    <3>1. \A r \in Session : ~Claims(mem'[r], mem[s].items[i].tok[1])
      BY <1>1, <1>4, <1>9, <2>2 DEF Claims
    <3>. QED BY <3>1 DEF HomeIs, Claims
  <2>3. \A n, x, y : Sole(nft', n, x) /\ Sole(nft', n, y) => x = y
    BY DEF Sole
  <2>4. CASE ~Working(m) /\ \A i \in 1..2 : Sole(nft', mem[s].items[i].tok[1], mem[s].items[i].was)
    <3>1. ASSUME NEW i \in 1..2, NEW x
          PROVE  HomeIs(nft', mem', mem[s].items[i].tok[1], x) <=> x = mem[s].items[i].was
      <4>1. Sole(nft', mem[s].items[i].tok[1], mem[s].items[i].was)
        BY <2>4
      <4>2. HomeIs(nft', mem', mem[s].items[i].tok[1], x) <=> Sole(nft', mem[s].items[i].tok[1], x)
        BY <2>2, <2>4
      <4>3. Sole(nft', mem[s].items[i].tok[1], x) => x = mem[s].items[i].was
        BY <2>3, <4>1
      <4>. QED BY <4>1, <4>2, <4>3
    <3>. QED BY <3>1
  <2>5. CASE ~Working(m) /\ \A i \in 1..2 : Sole(nft', mem[s].items[i].tok[1], mem[s].items[i].now)
    <3>1. ASSUME NEW i \in 1..2, NEW x
          PROVE  HomeIs(nft', mem', mem[s].items[i].tok[1], x) <=> x = mem[s].items[i].now
      <4>1. Sole(nft', mem[s].items[i].tok[1], mem[s].items[i].now)
        BY <2>5
      <4>2. HomeIs(nft', mem', mem[s].items[i].tok[1], x) <=> Sole(nft', mem[s].items[i].tok[1], x)
        BY <2>2, <2>5
      <4>3. Sole(nft', mem[s].items[i].tok[1], x) => x = mem[s].items[i].now
        BY <2>3, <4>1
      <4>. QED BY <4>1, <4>2, <4>3
    <3>. QED BY <3>1
  <2>. QED BY <2>1, <2>4, <2>5 DEF Handed
<1>14. ASSUME NEW i \in 1..2
       PROVE  \/ \A x : HomeIs(nft', mem', mem[s].items[i].tok[1], x) <=> x = mem[s].items[1].was
              \/ \A x : HomeIs(nft', mem', mem[s].items[i].tok[1], x) <=> x = mem[s].items[2].was
  <2>1. i = 1 \/ i = 2
    OBVIOUS
  <2>. QED BY <1>10, <1>13, <2>1
<1>15. \A n \in Edition : \E x \in Edition : HomeIs(nft', mem', n, x)
  <2>1. TAKE n \in Edition
  <2>2. CASE Mine(n)
    <3>1. PICK i \in 1..2 : mem[s].items[i].tok[1] = n
      BY <2>2
    <3>2. HomeIs(nft', mem', n, mem[s].items[1].was) \/ HomeIs(nft', mem', n, mem[s].items[2].was)
      BY <1>14, <3>1
    <3>. QED BY <1>9, <3>2
  <2>3. CASE ~Mine(n)
    BY <1>8, <2>3 DEF Kept
  <2>. QED BY <2>2, <2>3
<1>16. \A n, k, x \in Edition : HomeIs(nft', mem', n, x) /\ HomeIs(nft', mem', k, x) => n = k
  <2>1. ASSUME NEW n \in Edition, NEW k \in Edition, NEW x \in Edition, Mine(n), ~Mine(k),
               HomeIs(nft', mem', n, x), HomeIs(nft', mem', k, x)
        PROVE  FALSE
    <3>1. PICK i \in 1..2 : mem[s].items[i].tok[1] = n
      BY <2>1
    <3>2. x = mem[s].items[1].was \/ x = mem[s].items[2].was
      BY <1>14, <2>1, <3>1
    <3>3. PICK j \in 1..2 : x = mem[s].items[j].was
      BY <3>2
    <3>4. HomeIs(nft, mem, mem[s].items[j].tok[1], x) /\ HomeIs(nft, mem, k, x)
      BY <1>8, <1>11, <2>1, <3>3
    <3>5. mem[s].items[j].tok[1] = k
      BY <1>9, <3>4 DEF Kept
    <3>. QED BY <2>1, <3>5
  <2>2. ASSUME NEW x, HomeIs(nft', mem', mem[s].items[1].tok[1], x), HomeIs(nft', mem', mem[s].items[2].tok[1], x)
        PROVE  FALSE
    <3>1. 1 \in 1..2 /\ 2 \in 1..2
      OBVIOUS
    <3>2. CASE \A i \in 1..2 : \A y : HomeIs(nft', mem', mem[s].items[i].tok[1], y) <=> y = mem[s].items[i].was
      <4>1. x = mem[s].items[1].was
        BY <2>2, <3>1, <3>2
      <4>2. x = mem[s].items[2].was
        BY <2>2, <3>1, <3>2
      <4>. QED BY <1>12, <4>1, <4>2
    <3>3. CASE \A i \in 1..2 : \A y : HomeIs(nft', mem', mem[s].items[i].tok[1], y) <=> y = mem[s].items[i].now
      <4>1. x = mem[s].items[1].now
        BY <2>2, <3>1, <3>3
      <4>2. x = mem[s].items[2].now
        BY <2>2, <3>1, <3>3
      <4>. QED BY <1>10, <1>12, <4>1, <4>2
    <3>. QED BY <1>13, <3>2, <3>3
  <2>3. ASSUME NEW n \in Edition, NEW k \in Edition, NEW x \in Edition, Mine(n), Mine(k),
               HomeIs(nft', mem', n, x), HomeIs(nft', mem', k, x)
        PROVE  n = k
    <3>1. /\ n = mem[s].items[1].tok[1] \/ n = mem[s].items[2].tok[1]
          /\ k = mem[s].items[1].tok[1] \/ k = mem[s].items[2].tok[1]
      <4>1. \A i \in 1..2 : i = 1 \/ i = 2
        OBVIOUS
      <4>. QED BY <2>3, <4>1
    <3>. QED BY <2>2, <2>3, <3>1
  <2>4. ASSUME NEW n \in Edition, NEW k \in Edition, NEW x \in Edition, ~Mine(n), ~Mine(k),
               HomeIs(nft', mem', n, x), HomeIs(nft', mem', k, x)
        PROVE  n = k
    BY <1>8, <2>4 DEF Kept
  <2> HIDE DEF Mine
  <2>. QED BY <2>1, <2>3, <2>4
<1>17. \A q, r \in Session, n \in Edition : Claims(mem'[q], n) /\ Claims(mem'[r], n) => q = r
  <2>1. \A r \in Session, n \in Edition : Claims(mem'[r], n) => Claims(mem[r], n)
    BY <1>1, <1>2, <1>3
  <2>. QED BY <2>1 DEF Kept
<1>18. \A r \in Session : mem'[r].step # "rescuing"
  BY <1>1 DEF Kept, Handed
<1>. QED BY <1>6, <1>15, <1>16, <1>17, <1>18 DEF Kept

-----------------------------------------------------------------------------
(* What a session goes on with, of its traits.                             *)

\* An item that is not between two tokens shows its edition's trait.
LEMMA ItemIsSole ==
  ASSUME NEW N, NEW s \in Session, NEW e \in Item, ItemKept(N, s, e), ItemOK(N, legacy, s, e)
  PROVE  /\ LiveIn(N, e.tok) /\ ~Minted(e) =>
              Sole(N, e.tok[1], IF e.done THEN e.now ELSE e.was)
         /\ ~LiveIn(N, e.tok) => Minted(e) /\ Sole(N, e.tok[1], e.now)
<1>1. e.tok \in Token /\ (Minted(e) => e.new \in Token)
  BY DEF Item, Minted
<1>2. ASSUME LiveIn(N, e.tok), ~Minted(e)
      PROVE  Sole(N, e.tok[1], IF e.done THEN e.now ELSE e.was)
  BY <1>1, <1>2 DEF ItemKept, Sole
<1>3. ASSUME ~LiveIn(N, e.tok)
      PROVE  Minted(e) /\ Sole(N, e.tok[1], e.now)
  <2>1. /\ Minted(e) /\ e.new = <<e.tok[1], s>> /\ LiveIn(N, e.new) /\ N[e.new].trait = e.now
        /\ e.new \in Token /\ e.new[1] = e.tok[1]
    BY <1>1, <1>3 DEF ItemKept, ItemOK
  <2>2. \A u \in Token : u[1] = e.tok[1] /\ LiveIn(N, u) => u = e.new
    BY <1>3 DEF ItemKept
  <2>. QED BY <2>1, <2>2 DEF Sole
<1>. QED BY <1>2, <1>3

\* Where both items stand, of a session that holds m.
LEMMA ItemsStand ==
  ASSUME NEW N, NEW s \in Session, NEW m, From(N, s, m), ItemsKept(N, s, m), NEW i \in 1..2
  PROVE  LET e == m.items[i] IN
         /\ e \in Item /\ e.tok \in Token /\ e.tok[1] \in Edition
         /\ ItemKept(N, s, e) /\ ItemOK(N, legacy, s, e)
         /\ Minted(e) => i \in Legs(legacy, m)
         /\ ~Gone(N, s, e) \/ ~Minted(e) => LiveIn(N, e.tok)
<1>1. /\ m.items[i] \in Item /\ ItemOK(N, legacy, s, m.items[i]) /\ ItemKept(N, s, m.items[i])
  BY SameLegs DEF From, ItemsOK, ItemsKept
<1>. QED BY <1>1, TokenIsPair DEF Item, ItemOK, ItemKept, Legs

\* What is done of an exchange at the end of a phase.
Past(m) ==
    /\ \A i \in Legs(legacy, m) : ~m.items[i].done
    /\ m.step \in {"checking", "paying", "minting"} => \A i \in 1..2 : ~m.items[i].done
    /\ m.step \in {"checking", "paying"} => \A i \in 1..2 : ~Minted(m.items[i])
    /\ m.step \in {"modifying", "burning"} => \A i \in (1..2) \ Legs(legacy, m) : m.items[i].done

\* With something to modify, nothing is burned before that.
LEMMA NothingSkipped ==
  ASSUME NEW N, NEW s \in Session, NEW m, From(N, s, m), m.step = "minting",
         Following(s) = "burning"
  PROVE  (1..2) \ Legs(legacy, m) = {}
<1> DEFINE lg == (1..2) \ Legs(legacy, m)
           pos == Position[m.step]
           rest == {i \in 1..5 : i > pos /\ Work(s, Phases[i]) # {}}
<1>1. SUFFICES ASSUME lg # {} PROVE FALSE
  OBVIOUS
<1>2. /\ Phases[1] = "paying" /\ Phases[2] = "minting" /\ Phases[3] = "modifying"
      /\ Work(s, "modifying") = lg
  BY SameLegs DEF Work, Phases
<1>3. pos = 2
  BY DEF Position
<1>4. 3 \in rest
  BY <1>1, <1>2, <1>3
<1>5. Following(s) = Phases[Least(rest)]
  BY <1>4 DEF Following, From
<1>6. Least(rest) \in 1..3
  <2>1. rest \subseteq 1..5 /\ rest # {}
    BY <1>4
  <2> HIDE DEF rest
  <2>2. Least(rest) \in rest /\ \A j \in rest : Least(rest) <= j
    BY <2>1, LeastIsLeast
  <2>3. Least(rest) \in 1..5 /\ Least(rest) <= 3
    BY <1>4, <2>1, <2>2
  <2>. QED BY <2>3
<1>7. Least(rest) = 1 \/ Least(rest) = 2 \/ Least(rest) = 3
  BY <1>6
<1> HIDE DEF rest
<1>. QED BY <1>2, <1>5, <1>7

LEMMA ProceedHands ==
  ASSUME NEW N, NEW s \in Session, NEW m, Ledger(N), From(N, s, m), Through(N, s, m),
         ItemsKept(N, s, m), Past(m),
         m.step \in {"checking", "paying", "minting", "modifying", "burning"}
  PROVE  Handed(N, s, m, Proceed(s, m).mem)
<1> DEFINE f == Following(s)
           lg == Legs(legacy, m)
           r == Enter(s, m, f)
<1>1. /\ f \in FivePhases \cup {"ready"}
      /\ f \in {"paying", "modifying"} => (1..2) \ lg # {}
      /\ f \in {"minting", "burning", "offering"} => lg # {}
      /\ f = "paying" => m.step = "checking"
      /\ f = "minting" => m.step \in {"checking", "paying"}
      /\ f = "modifying" => m.step = "minting" \/ (m.step \in {"checking", "paying"} /\ lg = {})
      /\ f = "burning" => m.step \in {"minting", "modifying"}
      /\ f = "offering" => m.step = "burning"
  BY FollowingIs DEF FivePhases
<1>2. Proceed(s, m).mem = r /\ m \in SessionRec /\ m.step = mem[s].step
  BY DEF Proceed, From
<1>3. ASSUME NEW i \in 1..2
      PROVE  LET e == m.items[i] IN
             /\ e \in Item /\ e.tok[1] \in Edition /\ e.tok \in Token
             /\ Minted(e) => i \in lg
             /\ ~Gone(N, s, e) \/ ~Minted(e) => LiveIn(N, e.tok)
             /\ LiveIn(N, e.tok) /\ ~Minted(e) => Sole(N, e.tok[1], IF e.done THEN e.now ELSE e.was)
             /\ ~LiveIn(N, e.tok) => Minted(e) /\ Sole(N, e.tok[1], e.now)
  BY ItemsStand, ItemIsSole
<1>4. CASE f = "ready"
  <2>1. r = Stop(m, "ready") /\ "ready" \in Ends
    BY <1>4 DEF Enter, Ends
  <2>2. ~Working(r) /\ r.step # "rescuing"
    BY <1>2, <2>1, EndIsOK DEF Working
  <2>3. lg = {} \/ m.step \notin {"modifying", "burning"}
    BY <1>4, ReadyIs DEF FivePhases
  <2>4. CASE m.step \in {"modifying", "burning"}
    <3>1. \A i \in 1..2 : m.items[i].done /\ i \notin lg
      BY <2>3, <2>4 DEF Past
    <3>2. \A i \in 1..2 : Sole(N, m.items[i].tok[1], m.items[i].now)
      BY <1>3, <3>1
    <3>. QED BY <1>2, <2>2, <3>2 DEF Handed
  <2>5. CASE m.step \notin {"modifying", "burning"}
    <3>1. lg = {} \/ m.step # "minting"
      BY <1>4, ReadyIs DEF FivePhases
    <3>2. \A i \in 1..2 : ~m.items[i].done /\ ~Minted(m.items[i])
      BY <1>3, <2>5, <3>1 DEF Past
    <3>3. \A i \in 1..2 : Sole(N, m.items[i].tok[1], m.items[i].was)
      BY <1>3, <3>2
    <3>. QED BY <1>2, <2>2, <3>3 DEF Handed
  <2>. QED BY <2>4, <2>5
<1>5. CASE f # "ready"
  <2>1. Work(s, f) = IF f \in {"paying", "modifying"} THEN (1..2) \ lg ELSE lg
    BY SameLegs DEF Work
  <2>2. f \in FivePhases /\ Work(s, f) # {}
    BY <1>1, <1>5, <2>1 DEF FivePhases
  <2>3. /\ r.step = f /\ r.items = m.items /\ r.at \in Work(s, f)
        /\ \A j \in Work(s, f) : r.at <= j
    <3> HIDE DEF f
    <3>1. /\ Enter(s, m, f).step = f /\ Enter(s, m, f).items = m.items
          /\ Enter(s, m, f).at \in Work(s, f)
          /\ \A j \in Work(s, f) : Enter(s, m, f).at <= j
      BY <2>2, EnterIs
    <3>. QED BY <3>1
  <2>4. r.step # "rescuing"
    BY <2>2, <2>3 DEF FivePhases
  <2> HIDE DEF r
  <2>5. CASE f = "offering"
    <3>1. /\ m.step = "burning" /\ \A i \in lg : Gone(N, s, m.items[i])
          /\ \A i \in (1..2) \ lg : m.items[i].done
      BY <1>1, <2>5 DEF Through, Past
    <3>2. ASSUME NEW i \in 1..2 PROVE Sole(N, m.items[i].tok[1], m.items[i].now)
      <4>1. CASE i \in lg
        <5>1. /\ m.items[i].tok = <<m.items[i].tok[1], First>> /\ Gone(N, s, m.items[i])
              /\ m.items[i].tok \in Token
          BY <1>3, <3>1, <4>1, TokenIsPair DEF Legs, Leg
        <5>2. N[m.items[i].tok].by \in Session
          BY <5>1 DEF Gone, Burner
        <5>3. N[m.items[i].tok].at = "burned"
          BY <5>1, <5>2 DEF Ledger
        <5>. QED BY <1>3, <5>3 DEF LiveIn
      <4>2. CASE i \notin lg
        BY <1>3, <3>1, <4>2
      <4>. QED BY <4>1, <4>2
    <3>3. ~Working(r)
      BY <2>3, <2>5 DEF Working
    <3>. QED BY <1>2, <2>4, <3>2, <3>3 DEF Handed
  <2>6. CASE f # "offering"
    <3>1. Legs(legacy, r) = lg /\ ItemsKept(N, s, r) /\ Working(r)
      BY <2>2, <2>3, <2>6 DEF Legs, ItemsKept, Working, FivePhases
    <3>2. f \in {"paying", "minting", "modifying"} => \A i \in 1..2 : ~m.items[i].done
      BY <1>1 DEF Past
    <3>3. f \in {"paying", "minting"} => \A i \in 1..2 : ~Minted(m.items[i])
      BY <1>1 DEF Past
    <3>4. f = "burning" => \A i \in (1..2) \ lg : m.items[i].done
      <4>1. f = "burning" /\ m.step = "minting" => (1..2) \ lg = {}
        BY NothingSkipped
      <4>. QED BY <1>1, <4>1 DEF Past
    <3>5. f = "modifying" => \A i \in (1..2) \ lg : ~(i < r.at)
      <4>1. f = "modifying" => \A i \in (1..2) \ lg : r.at <= i /\ r.at \in 1..2
        BY <2>1, <2>3
      <4>. QED BY <4>1
    <3>6. \A i \in lg : ~m.items[i].done
      BY DEF Past
    <3>7. StepKept(N, legacy, r)
      BY <2>2, <2>3, <2>6, <3>1, <3>2, <3>3, <3>4, <3>5, <3>6 DEF StepKept, FivePhases
    <3>. QED BY <1>2, <2>3, <2>4, <3>1, <3>7 DEF Handed, WorkKept
  <2>. QED BY <2>5, <2>6
<1>. QED BY <1>4, <1>5

\* What is done of it when a session is through with the item it is at.
SoFar(m) ==
    /\ \A i \in Legs(legacy, m) : ~m.items[i].done
    /\ m.step = "minting" =>
        \A i \in 1..2 : ~m.items[i].done /\ (Minted(m.items[i]) => i <= m.at)
    /\ m.step = "modifying" => \A i \in (1..2) \ Legs(legacy, m) : m.items[i].done <=> i <= m.at
    /\ m.step = "burning" => \A i \in (1..2) \ Legs(legacy, m) : m.items[i].done

LEMMA GoOnHands ==
  ASSUME NEW N, NEW s \in Session, NEW m, Ledger(N), From(N, s, m), UpTo(N, s, m),
         ItemsKept(N, s, m), SoFar(m), m.step \in {"minting", "modifying", "burning"}
  PROVE  Handed(N, s, m, GoOn(s, m).mem)
<1> DEFINE lg == Legs(legacy, m)
           work == Work(s, mem[s].step)
           rest == {j \in work : j > mem[s].at}
<1>1. /\ m \in SessionRec /\ m.step = mem[s].step /\ m.at = mem[s].at /\ lg \subseteq 1..2
      /\ m.at \in 0..2
  BY SameLegs DEF From, SessionRec
<1>2. work = IF m.step = "modifying" THEN (1..2) \ lg ELSE lg
  BY <1>1, SameLegs DEF Work
<1>3. CASE rest = {}
  <2>1. \A i \in work : i <= m.at
    BY <1>1, <1>2, <1>3
  <2>2. Through(N, s, m) /\ Past(m)
    BY <1>1, <1>2, <2>1 DEF Through, UpTo, Past, SoFar
  <2>3. GoOn(s, m) = Proceed(s, m)
    BY <1>3 DEF GoOn
  <2>. QED BY <2>2, <2>3, ProceedHands
<1>4. CASE rest # {}
  <2> DEFINE a == Least(rest)
             r == [m EXCEPT !.at = a]
  <2>1. rest \subseteq 1..5
    BY <1>1, <1>2
  <2>2. a \in rest /\ \A j \in rest : a <= j
    BY <1>4, <2>1, LeastIsLeast
  <2>3. GoOn(s, m).mem = r
    BY <1>4 DEF GoOn
  <2>4. a \in 1..2 /\ m.at < a /\ \A i \in work : i < a <=> i <= m.at
    BY SMTT(30), ZenonT(30), <1>1, <1>2, <2>2
  <2> HIDE DEF a
  <2>5. r.step = m.step /\ r.at = a /\ r.items = m.items
    BY <1>1 DEF SessionRec
  <2> HIDE DEF r
  <2>6. Legs(legacy, r) = lg /\ ItemsKept(N, s, r) /\ Working(r) /\ r.step # "rescuing"
    BY <2>5 DEF Legs, ItemsKept, Working
  <2>7. m.step = "minting" => \A i \in 1..2 : Minted(m.items[i]) => i < a
    BY <1>1, <2>4 DEF SoFar
  <2>8. m.step = "modifying" => \A i \in (1..2) \ lg : m.items[i].done <=> i < a
    BY <1>2, <2>4 DEF SoFar
  <2>9. StepKept(N, legacy, r)
    BY <2>5, <2>6, <2>7, <2>8 DEF StepKept, SoFar
  <2>. QED BY <2>3, <2>5, <2>6, <2>9 DEF Handed, WorkKept
<1>. QED BY <1>3, <1>4

\* An unwinding that undoes everything ends where the session began.
LEMMA SettleHands ==
  ASSUME NEW N, NEW s \in Session, NEW m, m \in SessionRec, m.step = "unwinding",
         ItemsOK(N, legacy, s, m), WorkKept(N, legacy, s, m)
  PROVE  Handed(N, s, m, Settle(s, m).mem)
<1>1. /\ m.why \in Unwound /\ m.why \notin Partial
      /\ \A i \in 1..2 : /\ LiveIn(N, m.items[i].tok)
                         /\ m.items[i].done => <<"revert", i>> \in m.left
                         /\ Minted(m.items[i]) => <<"burn", i>> \in m.left
  BY DEF WorkKept, StepKept, Unwound, Partial
<1>2. CASE m.left # {}
  <2>1. Settle(s, m).mem = m
    BY <1>2 DEF Settle
  <2>. QED BY <2>1 DEF Handed, Working
<1>3. CASE m.left = {}
  <2>1. Settle(s, m).mem = Stop(m, "failed") /\ "failed" \in Ends
    BY <1>1, <1>3 DEF Settle, Fail, Ends
  <2>2. Settle(s, m).mem.step = "ended"
    BY <2>1, EndIsOK
  <2>3. \A i \in 1..2 : Sole(N, m.items[i].tok[1], m.items[i].was)
    <3>1. TAKE i \in 1..2
    <3>2. /\ m.items[i] \in Item /\ ItemOK(N, legacy, s, m.items[i]) /\ ItemKept(N, s, m.items[i])
          /\ LiveIn(N, m.items[i].tok) /\ ~m.items[i].done /\ ~Minted(m.items[i])
      BY <1>1, <1>3 DEF ItemsOK, WorkKept, ItemsKept
    <3>. QED BY <3>2, ItemIsSole
  <2>. QED BY <2>2, <2>3 DEF Handed, Working
<1>. QED BY <1>2, <1>3

LEMMA UnwindAllHands ==
  ASSUME NEW N, NEW s \in Session, From(N, s, mem[s]), ItemsKept(N, s, mem[s]),
         NEW why \in Unwound, \A i \in Legs(legacy, mem[s]) : ~mem[s].items[i].done,
         \A i \in Legs(legacy, mem[s]) : ~Gone(N, s, mem[s].items[i])
  PROVE  Handed(N, s, mem[s], UnwindAll(s, why).mem)
<1> DEFINE left == Undone(s) \cup BurntBack(s)
           m == [mem[s] EXCEPT !.step = "unwinding", !.why = why, !.left = left]
<1>1. DOMAIN mem[s].items = 1..2 /\ mem[s] \in SessionRec /\ why \in Statuses
  BY LegsAreReminted DEF From, Statuses
<1>2. /\ left \in SUBSET ({"revert", "burn"} \X (1..2))
      /\ \A i \in 1..2 : /\ mem[s].items[i].done => <<"revert", i>> \in left
                         /\ Minted(mem[s].items[i]) => <<"burn", i>> \in left
  BY <1>1 DEF Undone, BurntBack, Minted
<1> HIDE DEF left
<1>3. /\ m \in SessionRec /\ m.step = "unwinding" /\ m.items = mem[s].items /\ m.left = left
      /\ m.why = why
  BY <1>1, <1>2, StepNames DEF SessionRec
<1>4. UnwindAll(s, why) = Settle(s, m)
  BY DEF UnwindAll, Unwind, left
<1> HIDE DEF m
<1>5. Legs(legacy, m) = Legs(legacy, mem[s]) /\ ItemsOK(N, legacy, s, m) /\ ItemsKept(N, s, m)
  BY <1>3 DEF Legs, ItemsOK, From, ItemsKept
<1>6. \A i \in 1..2 : LiveIn(N, mem[s].items[i].tok)
  BY ItemsStand
<1>7. StepKept(N, legacy, m)
  BY <1>2, <1>3, <1>5, <1>6 DEF StepKept
<1>8. Handed(N, s, m, Settle(s, m).mem)
  BY <1>3, <1>5, <1>7, SettleHands DEF WorkKept
<1>. QED BY <1>3, <1>4, <1>8 DEF Handed

\* A session that ends before it touched anything leaves all as it was.
LEMMA EarlyEndHands ==
  ASSUME NEW N, NEW s \in Session, From(N, s, mem[s]), WorkKept(N, legacy, s, mem[s]),
         mem[s].step \in {"checking", "paying"}, NEW end \in Ends
  PROVE  /\ Handed(N, s, mem[s], Stop(mem[s], end))
         /\ \A i \in 1..2 : Sole(N, mem[s].items[i].tok[1], mem[s].items[i].was)
<1>1. Stop(mem[s], end).step = "ended"
  BY EndIsOK DEF From
<1>2. \A i \in 1..2 : Sole(N, mem[s].items[i].tok[1], mem[s].items[i].was)
  <2>1. TAKE i \in 1..2
  <2>2. ~mem[s].items[i].done /\ ~Minted(mem[s].items[i])
    BY DEF WorkKept, StepKept
  <2>3. /\ mem[s].items[i] \in Item /\ ItemKept(N, s, mem[s].items[i])
        /\ ItemOK(N, legacy, s, mem[s].items[i]) /\ LiveIn(N, mem[s].items[i].tok)
    BY <2>2, ItemsStand DEF WorkKept
  <2>. QED BY <2>2, <2>3, ItemIsSole
<1>. QED BY <1>1, <1>2 DEF Handed, Working

-----------------------------------------------------------------------------
(* The steps of a session that runs to plan keep the traits.               *)

\* What a transaction does to traits and places.
LEMMA OutcomeStays ==
  ASSUME IInv, NEW tx \in Tx, NEW out \in Outcomes, Outcome(tx, out)
  PROVE  /\ \A t \in Token : t # tx.tok => nft'[t] = nft[t]
         /\ \A t \in Token : nft[t].at \in {"user", "burned"} => nft'[t].at \in {"user", "burned"}
         /\ out # "done" => nft' = nft
         /\ out = "done" =>
              /\ Lands(tx)
              /\ nft'[tx.tok].trait = IF tx.op \in {"mint", "modify"} THEN tx.trait
                                      ELSE nft[tx.tok].trait
<1>1. /\ nft \in [Token -> TokenState] /\ tx.tok \in Token
      /\ tx.op \in {"mint", "modify", "burn", "offer"}
  BY DEF IInv, Ledger, Tx
<1>2. out # "done" => nft' = nft
  BY DEF Outcome
<1>3. ASSUME out = "done"
      PROVE  /\ Lands(tx)
             /\ \A t \in Token : t # tx.tok => nft'[t] = nft[t]
             /\ \A t \in Token : nft[t].at \in {"user", "burned"} => nft'[t].at \in {"user", "burned"}
             /\ nft'[tx.tok].trait = IF tx.op \in {"mint", "modify"} THEN tx.trait
                                     ELSE nft[tx.tok].trait
  <2>1. Lands(tx)
    BY <1>3 DEF Outcome
  <2>2. /\ \A t \in Token : t # tx.tok => nft'[t] = nft[t]
        /\ nft[tx.tok].at \in {"user", "burned"} => nft'[tx.tok].at \in {"user", "burned"}
    BY <1>1, <2>1, LandsChanges
  <2>3. nft'[tx.tok] = Effect(tx) /\ nft[tx.tok] \in TokenState
    BY <1>1, <2>1 DEF Lands
  <2>4. Effect(tx).trait = IF tx.op \in {"mint", "modify"} THEN tx.trait ELSE nft[tx.tok].trait
    BY <2>3 DEF Effect, TokenState
  <2>. QED BY <2>1, <2>2, <2>3, <2>4
<1>. QED BY <1>2, <1>3

\* Where a step goes on to.
LEMMA GoesOnTo ==
  ASSUME IInv, NEW s \in Session, NEW next, GoesOn(s, next)
  PROVE  mem' = [mem EXCEPT ![s] = next.mem]
<1>1. PICK cost \in Nat : Commit(s, next, cost)
  BY DEF GoesOn
<1>2. /\ next.mem \in SessionRec /\ next.writes \in Seq(Statuses)
      /\ next.mem.items \in Item \X Item
  BY DEF GoesOn, NextOK, SessionOK
<1>. QED BY <1>1, <1>2, CommitIs DEF IInv

\* A step on one of its session's editions, whose outcome is known.
LEMMA HandedOn ==
  ASSUME IInv, Kept, NEW s \in Session, Working(mem[s]), NEW tx, NEW out, Stepped(s, tx, out),
         out # "unknown", NEW i \in 1..2, tx.tok[1] = mem[s].items[i].tok[1],
         NEW next, GoesOn(s, next), Handed(nft', s, mem[s], next.mem), legacy' = legacy,
         \A t \in Token : index'[t].at = "user" => index[t].at = "user"
  PROVE  Kept'
<1>1. mem' = [mem EXCEPT ![s] = next.mem] /\ flying' = flying
  BY GoesOnTo DEF Stepped
<1>2. /\ \A t \in Token : t # tx.tok => nft'[t] = nft[t]
      /\ \A t \in Token : nft[t].at \in {"user", "burned"} => nft'[t].at \in {"user", "burned"}
  BY OutcomeStays DEF Stepped
<1>3. \A t \in Token : nft'[t] = nft[t] \/ \E j \in 1..2 : mem[s].items[j].tok[1] = t[1]
  BY <1>2
<1>4. \A t \in Token : index'[t].at = "user" => nft'[t].at \in {"user", "burned"}
  BY <1>2 DEF Kept
<1>5. \A tx2 \in flying' : tx2.op = "offer"
  BY <1>1 DEF Kept
<1>. QED BY <1>1, <1>3, <1>4, <1>5, HandedKeeps

\* Of two items, a step changes one.
LEMMA OtherItemKept ==
  ASSUME IInv, NEW s \in Session, Running(mem[s]), ItemsKept(nft, s, mem[s]), NEW k \in 1..2,
         NEW m, \A i \in 1..2 : /\ m.items[i].tok = mem[s].items[i].tok
                                /\ m.items[i].was = mem[s].items[i].was
                                /\ m.items[i].now = mem[s].items[i].now
                                /\ i # k => m.items[i] = mem[s].items[i],
         \A t \in Token : t[1] # mem[s].items[k].tok[1] => nft'[t] = nft[t],
         ItemKept(nft', s, m.items[k])
  PROVE  /\ ItemsKept(nft', s, m)
         /\ \A i \in 1..2 : i # k =>
              (LiveIn(nft', m.items[i].tok) <=> LiveIn(nft, mem[s].items[i].tok))
<1>1. ASSUME NEW i \in 1..2, i # k
      PROVE  /\ ItemKept(nft', s, m.items[i])
             /\ LiveIn(nft', m.items[i].tok) <=> LiveIn(nft, mem[s].items[i].tok)
  <2> DEFINE e == mem[s].items[i]
  <2>1. /\ ItemKept(nft, s, e) /\ e \in Item
        /\ Minted(e) => e.new = <<e.tok[1], s>> /\ e.new \in Token
    BY PairIs DEF ItemsKept
  <2>2. e.tok[1] # mem[s].items[k].tok[1]
    <3>1. (i = 1 /\ k = 2) \/ (i = 2 /\ k = 1)
      BY <1>1
    <3>. QED BY <3>1 DEF ItemsKept
  <2>3. m.items[i] = e
    BY <1>1
  <2>4. \A t \in Token : t[1] = e.tok[1] => nft'[t] = nft[t]
    BY <2>2
  <2> HIDE DEF e
  <2>5. ItemKept(nft', s, e) /\ (LiveIn(nft', e.tok) <=> LiveIn(nft, e.tok))
    BY <2>1, <2>4, ItemIsStable
  <2>. QED BY <2>3, <2>5 DEF e
<1>2. \A i \in 1..2 : ItemKept(nft', s, m.items[i])
  BY <1>1
<1>3. /\ m.items[1].tok[1] # m.items[2].tok[1]
      /\ m.items[1].was = m.items[2].now /\ m.items[1].now = m.items[2].was
  BY DEF ItemsKept
<1>. QED BY <1>1, <1>2, <1>3 DEF ItemsKept

\* Being handed on from a state with the same items.
LEMMA HandedFrom ==
  ASSUME NEW N, NEW s, NEW m, NEW k, NEW r, Handed(N, s, m, r),
         \A i \in 1..2 : m.items[i].tok = k.items[i].tok /\ m.items[i].was = k.items[i].was
                         /\ m.items[i].now = k.items[i].now
  PROVE  Handed(N, s, k, r)
BY DEF Handed

LEMMA AfterMintIs ==
  ASSUME NEW s \in Session, mem[s] \in SessionRec, mem[s].items \in Item \X Item,
         mem[s].at \in 1..2, Replacement(mem[s].items[mem[s].at].tok, s) \in Token
  PROVE  \A i \in 1..2 :
            LET e == mem[s].items[i]
                d == AfterMint(s).items[i] IN
            /\ d \in Item /\ d.tok = e.tok /\ d.was = e.was /\ d.now = e.now /\ d.done = e.done
            /\ d.new = IF i = mem[s].at THEN Replacement(e.tok, s) ELSE e.new
            /\ i # mem[s].at => d = e
<1> DEFINE m == mem[s]
           e == m.items[m.at]
           new == Replacement(e.tok, s)
           d == [e EXCEPT !.new = new]
<1>1. e \in Item /\ new \in Token
  OBVIOUS
<1> HIDE DEF e, new
<1>2. /\ d \in Item /\ d.tok = e.tok /\ d.was = e.was /\ d.now = e.now /\ d.done = e.done
      /\ d.new = new
  BY <1>1 DEF Item
<1> HIDE DEF d
<1>3. AfterMint(s).items = [m.items EXCEPT ![m.at] = d]
  BY DEF AfterMint, SessionRec, d, e, new, Now
<1>4. \A i \in 1..2 : AfterMint(s).items[i] = IF i = m.at THEN d ELSE m.items[i]
  BY <1>2, <1>3, ItemsExcept
<1>5. \A i \in 1..2 : m.items[i] \in Item
  OBVIOUS
<1>. QED BY <1>2, <1>4, <1>5 DEF e, new

LEMMA MintOneTraits ==
  ASSUME IInv, Kept, NEW s \in Session, MintOne(s), ~disturbed'
  PROVE  Kept'
<1> DEFINE m == mem[s]
           m2 == AfterMint(s)
           a == m.at
           e == m.items[a]
           d == m2.items[a]
<1>1. PICK out \in Outcomes :
         /\ Stepped(s, MintTx(s), out) /\ m.step = "minting"
         /\ disturbed' = (disturbed \/ out = "unknown") /\ UNCHANGED <<legacy, index>>
         /\ From(nft', s, m) /\ StepOK(nft', legacy, s, m)
         /\ out = "done" => /\ GoesOn(s, GoOn(s, m2)) /\ Lands(MintTx(s))
                            /\ From(nft', s, m2) /\ UpTo(nft', s, m2)
         /\ out = "refused" => GoesOn(s, UnwindAll(s, "failed_minting"))
  BY MintOneStep
<1>2. out # "unknown" /\ Running(m) /\ Working(m)
  BY <1>1 DEF Running, Working
<1>3. /\ WorkKept(nft, legacy, s, m) /\ ItemsKept(nft, s, m) /\ StepKept(nft, legacy, m)
      /\ Ledger(nft) /\ Ledger(nft')
  BY <1>1, <1>2 DEF Kept, WorkKept, IInv, Stepped
<1>4. /\ a \in Legs(legacy, m) /\ a \in 1..2 /\ Now(s) = e /\ Untouched(nft, s)
      /\ m \in SessionRec /\ m.items \in Item \X Item /\ From(nft, s, m)
  BY <1>1, <1>2, RunningIs DEF StepOK, Legs, Now, From, ItemsOK
<1>5. /\ e \in Item /\ e.tok \in Token /\ e.tok[1] \in Edition /\ e.tok[2] = First
      /\ e.now \in Edition /\ Replacement(e.tok, s) \in Token
      /\ Replacement(e.tok, s) = <<e.tok[1], s>> /\ ~Minted(e) /\ ~e.done /\ ItemKept(nft, s, e)
  <2>1. ~Minted(e) /\ ~e.done
    BY <1>1, <1>3, <1>4 DEF StepKept, SessionRec
  <2>2. e \in Item /\ e.tok \in Token /\ e.tok[1] \in Edition /\ Replacement(e.tok, s) \in Token
    BY <1>2, <1>4, RunningIs
  <2>3. e.tok[2] = First /\ e.now \in Edition /\ Replacement(e.tok, s) = <<e.tok[1], s>>
    BY <1>4, <2>2 DEF Legs, Leg, Item, Replacement
  <2>. QED BY <1>3, <1>4, <2>1, <2>2, <2>3 DEF ItemsKept
<1>6. MintTx(s).tok = <<e.tok[1], s>> /\ MintTx(s).trait = e.now /\ MintTx(s).op = "mint"
      /\ MintTx(s).tok[1] = e.tok[1]
  BY <1>4, <1>5 DEF MintTx
<1>7. \A t \in Token : index'[t].at = "user" => index[t].at = "user"
  BY <1>1
<1> HIDE DEF m2
<1>8. CASE out = "done"
  <2>1. \A i \in 1..2 :
            /\ m2.items[i] \in Item /\ m2.items[i].tok = m.items[i].tok
            /\ m2.items[i].was = m.items[i].was /\ m2.items[i].now = m.items[i].now
            /\ m2.items[i].done = m.items[i].done
            /\ m2.items[i].new = IF i = a THEN <<e.tok[1], s>> ELSE m.items[i].new
            /\ i # a => m2.items[i] = m.items[i]
    <3>1. m \in SessionRec /\ m.items \in Item \X Item /\ a \in 1..2 /\ Replacement(e.tok, s) \in Token
      BY <1>4, <1>5
    <3>2. ASSUME NEW i \in 1..2
          PROVE  /\ m2.items[i] \in Item /\ m2.items[i].tok = m.items[i].tok
                 /\ m2.items[i].was = m.items[i].was /\ m2.items[i].now = m.items[i].now
                 /\ m2.items[i].done = m.items[i].done
                 /\ m2.items[i].new = IF i = a THEN Replacement(m.items[i].tok, s) ELSE m.items[i].new
                 /\ i # a => m2.items[i] = m.items[i]
      BY <3>1, AfterMintIs DEF m2
    <3>. QED BY <1>5, <3>2
  <2> DEFINE new == <<e.tok[1], s>>
  <2>2. /\ new \in Token /\ nft[new].at = "none" /\ nft'[new].at = "issuer"
        /\ nft'[new].trait = e.now /\ nft'[new].offered = nft[new].offered
        /\ \A t \in Token : t # new => nft'[t] = nft[t]
    <3>1. /\ MintTx(s) \in Tx /\ Lands(MintTx(s)) /\ nft \in [Token -> TokenState]
          /\ Outcome(MintTx(s), out)
      BY <1>1, <1>3, <1>8 DEF Stepped, Ledger
    <3>2. /\ nft'[MintTx(s).tok].trait = e.now
          /\ \A t \in Token : t # MintTx(s).tok => nft'[t] = nft[t]
      BY <1>6, <1>8, <3>1, OutcomeStays
    <3>3. /\ nft[MintTx(s).tok].at = "none" /\ nft'[MintTx(s).tok].at = "issuer"
          /\ nft'[MintTx(s).tok].offered = nft[MintTx(s).tok].offered
      BY <1>6, <3>1, LandsChanges
    <3>. QED BY <1>5, <1>6, <3>2, <3>3
  <2>3. ~nft'[new].offered
    BY <1>3, <1>4, <1>5, <2>2 DEF Ledger, Untouched
  <2>4. /\ LiveIn(nft, e.tok) /\ e.tok # new /\ nft'[e.tok] = nft[e.tok]
        /\ nft[e.tok].at = "user" /\ nft[e.tok].trait = e.was
        /\ \A u \in Token : u[1] = e.tok[1] /\ LiveIn(nft, u) => u = e.tok
    <3>1. LiveIn(nft, e.tok)
      BY <1>5 DEF ItemKept
    <3>2. e.tok # new
      BY <2>2, <3>1 DEF LiveIn
    <3>. QED BY <1>5, <2>2, <3>1, <3>2 DEF ItemKept
  <2>5. \A u \in Token : u[1] = e.tok[1] /\ LiveIn(nft', u) => u = e.tok \/ u = new
    BY <2>2, <2>4 DEF LiveIn
  <2>6. d.tok = e.tok /\ d.was = e.was /\ d.now = e.now /\ d.new = new /\ ~d.done /\ Minted(d)
    <3>1. new # NoToken
      BY <2>2, TokenIsPair
    <3>. QED BY <1>4, <1>5, <2>1, <3>1 DEF Minted
  <2>7. ItemKept(nft', s, d)
    <3> HIDE DEF d, e, new
    <3>. QED BY <2>2, <2>3, <2>4, <2>5, <2>6 DEF ItemKept, LiveIn
  <2>8. \A t \in Token : t[1] # e.tok[1] => nft'[t] = nft[t]
    BY <2>2
  <2>9. ItemsKept(nft', s, m2)
    BY <1>2, <1>3, <1>4, <2>1, <2>7, <2>8, OtherItemKept
  <2>10. m2.step = m.step /\ m2.at = a /\ Legs(legacy, m2) = Legs(legacy, m)
    BY <1>1, <1>8, <2>1 DEF From, Legs
  <2>11. SoFar(m2)
    <3>1. \A i \in 1..2 : ~m2.items[i].done
      BY <1>1, <1>3, <2>1 DEF StepKept
    <3>2. \A i \in 1..2 : Minted(m2.items[i]) => i <= a
      <4>1. \A i \in 1..2 : i # a /\ Minted(m2.items[i]) => i < a
        BY <1>1, <1>3, <2>1 DEF StepKept
      <4>. QED BY <1>4, <4>1
    <3>3. \A i \in Legs(legacy, m2) : i \in 1..2
      BY DEF Legs
    <3>. QED BY <1>1, <2>10, <3>1, <3>2, <3>3 DEF SoFar
  <2>12. Handed(nft', s, m2, GoOn(s, m2).mem)
    BY <1>1, <1>3, <1>8, <2>9, <2>10, <2>11, GoOnHands
  <2>13. Handed(nft', s, m, GoOn(s, m2).mem)
    BY <2>1, <2>12, HandedFrom
  <2>. QED BY <1>1, <1>2, <1>4, <1>6, <1>7, <1>8, <2>13, HandedOn
<1>9. CASE out = "refused"
  <2>1. nft' = nft
    BY <1>1, <1>9 DEF Stepped, Outcome
  <2>2. \A i \in Legs(legacy, m) : ~Gone(nft, s, m.items[i]) /\ ~m.items[i].done
    <3>1. \A i \in Legs(legacy, m) : i \in 1..2 /\ m.items[i].tok[1] \in Edition
      BY <1>2, RunningIs DEF Legs
    <3>. QED BY <1>3, <1>4, <3>1 DEF Untouched, Gone, StepKept
  <2>3. Handed(nft', s, m, UnwindAll(s, "failed_minting").mem)
    BY <1>3, <1>4, <2>1, <2>2, UnwindAllHands DEF Unwound
  <2>. QED BY <1>1, <1>2, <1>4, <1>6, <1>7, <1>9, <2>3, HandedOn
<1>. QED BY <1>2, <1>8, <1>9 DEF Outcomes

LEMMA ModifyOneTraits ==
  ASSUME IInv, Kept, NEW s \in Session, ModifyOne(s), ~disturbed'
  PROVE  Kept'
<1> DEFINE m == mem[s]
           m2 == AfterModify(s)
           a == m.at
           e == m.items[a]
           d == m2.items[a]
<1>1. PICK out \in Outcomes :
         /\ Stepped(s, ModifyTx(s), out) /\ m.step = "modifying"
         /\ disturbed' = (disturbed \/ out = "unknown") /\ UNCHANGED <<legacy, index>>
         /\ From(nft', s, m) /\ StepOK(nft', legacy, s, m)
         /\ out = "done" => /\ GoesOn(s, GoOn(s, m2)) /\ Lands(ModifyTx(s))
                            /\ From(nft', s, m2) /\ UpTo(nft', s, m2)
         /\ out = "refused" => GoesOn(s, UnwindAll(s, "failed_modifying"))
  BY ModifyOneStep
<1>2. out # "unknown" /\ Running(m) /\ Working(m)
  BY <1>1 DEF Running, Working
<1>3. /\ WorkKept(nft, legacy, s, m) /\ ItemsKept(nft, s, m) /\ StepKept(nft, legacy, m)
      /\ Ledger(nft) /\ Ledger(nft')
  BY <1>1, <1>2 DEF Kept, WorkKept, IInv, Stepped
<1>4. /\ a \in (1..2) \ Legs(legacy, m) /\ a \in 1..2 /\ Now(s) = e /\ Untouched(nft, s)
      /\ m \in SessionRec /\ m.items \in Item \X Item /\ From(nft, s, m)
  BY <1>1, <1>2, RunningIs DEF StepOK, Now, From, ItemsOK
<1>5. /\ e \in Item /\ e.tok \in Token /\ e.tok[1] \in Edition /\ ~Minted(e)
      /\ ItemKept(nft, s, e)
  BY <1>3, <1>4, ItemsStand
<1>6. ModifyTx(s).tok = e.tok /\ ModifyTx(s).trait = e.now /\ ModifyTx(s).op = "modify"
  BY <1>4 DEF ModifyTx
<1>7. \A t \in Token : index'[t].at = "user" => index[t].at = "user"
  BY <1>1
<1> HIDE DEF m2
<1>8. CASE out = "done"
  <2>1. \A i \in 1..2 :
            /\ m2.items[i] \in Item /\ m2.items[i].tok = m.items[i].tok
            /\ m2.items[i].was = m.items[i].was /\ m2.items[i].now = m.items[i].now
            /\ m2.items[i].new = m.items[i].new
            /\ m2.items[i].done = IF i = a THEN TRUE ELSE m.items[i].done
            /\ i # a => m2.items[i] = m.items[i]
    <3>1. m \in SessionRec /\ m.items \in Item \X Item /\ a \in 1..2
      BY <1>4
    <3>. QED BY <3>1, AfterModifyIs DEF m2
  <2>2. /\ nft'[e.tok].trait = e.now /\ nft'[e.tok].at = nft[e.tok].at
        /\ LiveIn(nft, e.tok) /\ \A t \in Token : t # e.tok => nft'[t] = nft[t]
    <3>1. /\ ModifyTx(s) \in Tx /\ Lands(ModifyTx(s)) /\ nft \in [Token -> TokenState]
          /\ Outcome(ModifyTx(s), out)
      BY <1>1, <1>3, <1>8 DEF Stepped, Ledger
    <3>2. /\ nft'[ModifyTx(s).tok].trait = e.now
          /\ \A t \in Token : t # ModifyTx(s).tok => nft'[t] = nft[t]
      BY <1>6, <1>8, <3>1, OutcomeStays
    <3>3. /\ nft'[ModifyTx(s).tok].at = nft[ModifyTx(s).tok].at
          /\ LiveIn(nft, ModifyTx(s).tok)
      BY <1>6, <3>1, LandsChanges
    <3>. QED BY <1>6, <3>2, <3>3
  <2>3. d.tok = e.tok /\ d.was = e.was /\ d.now = e.now /\ d.new = e.new /\ d.done = TRUE
    BY <1>4, <2>1
  <2>4. ItemKept(nft', s, d)
    <3>1. /\ nft[e.tok].at = "user"
          /\ \A u \in Token : u[1] = e.tok[1] /\ LiveIn(nft, u) => u = e.tok
      BY <1>5, <2>2 DEF ItemKept
    <3>2. \A u \in Token : u[1] = e.tok[1] /\ LiveIn(nft', u) => u = e.tok
      BY <2>2, <3>1 DEF LiveIn
    <3>3. ~Minted(d)
      BY <1>5, <2>3 DEF Minted
    <3> HIDE DEF d, e
    <3>. QED BY <2>2, <2>3, <3>1, <3>2, <3>3 DEF ItemKept, LiveIn
  <2>5. \A t \in Token : t[1] # e.tok[1] => nft'[t] = nft[t]
    BY <2>2
  <2>6. ItemsKept(nft', s, m2)
    BY <1>2, <1>3, <1>4, <2>1, <2>4, <2>5, OtherItemKept
  <2>7. m2.step = m.step /\ m2.at = a /\ Legs(legacy, m2) = Legs(legacy, m)
    BY <1>1, <1>8, <2>1 DEF From, Legs
  <2>8. SoFar(m2)
    <3>1. \A i \in (1..2) \ Legs(legacy, m) : m.items[i].done <=> i < a
      BY <1>1, <1>3 DEF StepKept
    <3>2. \A i \in (1..2) \ Legs(legacy, m) : m2.items[i].done <=> i <= a
      <4>1. \A i \in 1..2 : i <= a <=> i < a \/ i = a
        BY <1>4
      <4>. QED BY <2>1, <3>1, <4>1
    <3>3. \A i \in Legs(legacy, m) : ~m2.items[i].done
      <4>1. \A i \in Legs(legacy, m) : i \in 1..2 /\ i # a /\ ~m.items[i].done
        BY <1>3, <1>4 DEF StepKept, Legs
      <4>. QED BY <2>1, <4>1
    <3>. QED BY <1>1, <2>7, <3>2, <3>3 DEF SoFar
  <2>9. Handed(nft', s, m2, GoOn(s, m2).mem)
    BY <1>1, <1>3, <1>8, <2>6, <2>7, <2>8, GoOnHands
  <2>10. Handed(nft', s, m, GoOn(s, m2).mem)
    BY <2>1, <2>9, HandedFrom
  <2>. QED BY <1>1, <1>2, <1>4, <1>6, <1>7, <1>8, <2>10, HandedOn
<1>9. CASE out = "refused"
  <2>1. nft' = nft
    BY <1>1, <1>9 DEF Stepped, Outcome
  <2>2. \A i \in Legs(legacy, m) : ~Gone(nft, s, m.items[i]) /\ ~m.items[i].done
    <3>1. \A i \in Legs(legacy, m) : i \in 1..2 /\ m.items[i].tok[1] \in Edition
      BY <1>2, RunningIs DEF Legs
    <3>. QED BY <1>3, <1>4, <3>1 DEF Untouched, Gone, StepKept
  <2>3. Handed(nft', s, m, UnwindAll(s, "failed_modifying").mem)
    BY <1>3, <1>4, <2>1, <2>2, UnwindAllHands DEF Unwound
  <2>. QED BY <1>1, <1>2, <1>4, <1>6, <1>7, <1>9, <2>3, HandedOn
<1>. QED BY <1>2, <1>8, <1>9 DEF Outcomes

\* Rows that a burn or a healing writes show no token with its owner.
LEMMA RowsLeaveTheOwner ==
  ASSUME NEW gone \in SUBSET Token, Heal(gone)
  PROVE  \A t \in Token : index'[t].at = "user" => index[t].at = "user"
BY DEF Heal, Row

LEMMA BurnRowsLeaveTheOwner ==
  ASSUME NEW s \in Session, BurnOne(s)
  PROVE  \A t \in Token : index'[t].at = "user" => index[t].at = "user"
<1>1. \/ index' = index
      \/ \E commits \in 0..2 : index' = Persisted(Now(s), commits)
  BY DEF BurnOne
<1>2. ASSUME NEW commits \in 0..2, index' = Persisted(Now(s), commits), NEW t \in Token,
             index'[t].at = "user"
      PROVE  index[t].at = "user"
  BY <1>2 DEF Persisted, Row
<1>. QED BY <1>1, <1>2

LEMMA BurnOneTraits ==
  ASSUME IInv, Kept, NEW s \in Session, BurnOne(s), ~disturbed'
  PROVE  Kept'
<1> DEFINE m == mem[s]
           a == m.at
           e == m.items[a]
<1>1. PICK out \in Outcomes :
         /\ Stepped(s, BurnTx(s), out) /\ m.step = "burning" /\ legacy' = legacy
         /\ disturbed' = (disturbed \/ out = "unknown"
                          \/ (out = "refused" /\ BurnFails(s, FALSE).mem.why \in Partial))
         /\ From(nft', s, m)
         /\ out = "done" => /\ GoesOn(s, GoOn(s, m)) /\ Lands(BurnTx(s)) /\ UpTo(nft', s, m)
         /\ out = "refused" => GoesOn(s, BurnFails(s, FALSE))
  BY BurnOneStep
<1>2. out # "unknown" /\ Running(m) /\ Working(m)
  BY <1>1 DEF Running, Working
<1>3. /\ WorkKept(nft, legacy, s, m) /\ ItemsKept(nft, s, m) /\ StepKept(nft, legacy, m)
      /\ Ledger(nft) /\ Ledger(nft')
  BY <1>1, <1>2 DEF Kept, WorkKept, IInv, Stepped
<1>4. /\ a \in Legs(legacy, m) /\ Legs(legacy, m) \subseteq 1..2 /\ a \in 1..2 /\ Now(s) = e
      /\ m \in SessionRec /\ m.items \in Item \X Item /\ From(nft, s, m)
      /\ StepOK(nft, legacy, s, m)
      /\ \A i \in Legs(legacy, m) : Minted(m.items[i]) /\ (Gone(nft, s, m.items[i]) <=> i < a)
  BY <1>1, <1>2, RunningIs DEF StepOK, Legs, Now, From, ItemsOK
<1>5. /\ e \in Item /\ e.tok \in Token /\ e.tok[1] \in Edition /\ e.tok = <<e.tok[1], First>>
      /\ Minted(e) /\ ~e.done /\ ItemKept(nft, s, e) /\ ItemOK(nft, legacy, s, e)
  <2>1. ~e.done /\ Minted(e) /\ e.tok[2] = First
    BY <1>3, <1>4 DEF StepKept, Legs, Leg
  <2>2. e \in Item /\ e.tok \in Token /\ e.tok[1] \in Edition /\ ItemKept(nft, s, e)
        /\ ItemOK(nft, legacy, s, e)
    BY <1>3, <1>4, ItemsStand
  <2>. QED BY <2>1, <2>2, TokenIsPair
<1>6. BurnTx(s).tok = e.tok /\ BurnTx(s).op = "burn" /\ BurnTx(s).by = s
  BY <1>4 DEF BurnTx
<1>7. \A t \in Token : index'[t].at = "user" => index[t].at = "user"
  BY BurnRowsLeaveTheOwner
<1>8. CASE out = "done"
  <2>1. /\ nft'[e.tok].at = "burned" /\ nft'[e.tok].by = s
        /\ \A t \in Token : t # e.tok => nft'[t] = nft[t]
    <3>1. BurnTx(s) \in Tx /\ Lands(BurnTx(s)) /\ nft \in [Token -> TokenState]
      BY <1>1, <1>3, <1>8 DEF Stepped, Ledger
    <3>. QED BY <1>6, <3>1, LandsChanges
  <2>2. /\ e.new \in Token /\ e.new # e.tok /\ nft'[e.new] = nft[e.new]
        /\ nft[e.new].at = "issuer" /\ ~nft[e.new].offered /\ nft[e.new].trait = e.now
    <3>1. e.new = <<e.tok[1], s>> /\ e.new \in Token /\ e.new # e.tok
      BY <1>5, TokenIsPair DEF ItemOK
    <3>. QED BY <1>5, <2>1, <3>1 DEF ItemKept
  <2>3. Gone(nft', s, e)
    BY <1>5, <2>1 DEF Gone, Burner
  <2>4. \A u \in Token : u[1] = e.tok[1] /\ LiveIn(nft', u) => u = e.new
    BY <1>5, <2>1 DEF ItemKept, LiveIn
  <2>5. ItemKept(nft', s, e)
    <3> HIDE DEF e
    <3>. QED BY <1>5, <2>1, <2>2, <2>3, <2>4 DEF ItemKept, LiveIn
  <2>6. \A t \in Token : t[1] # e.tok[1] => nft'[t] = nft[t]
    BY <2>1
  <2>7. ItemsKept(nft', s, m)
    BY <1>2, <1>3, <1>4, <2>5, <2>6, OtherItemKept
  <2>8. SoFar(m)
    BY <1>1, <1>3 DEF SoFar, StepKept
  <2>9. Handed(nft', s, m, GoOn(s, m).mem)
    BY <1>1, <1>3, <1>8, <2>7, <2>8, GoOnHands
  <2>. QED BY <1>1, <1>2, <1>4, <1>6, <1>7, <1>8, <2>9, HandedOn
<1>9. CASE out = "refused"
  <2>1. nft' = nft
    BY <1>1, <1>9 DEF Stepped, Outcome
  <2>2. BurnFails(s, FALSE).mem.why \notin Partial
    BY <1>1, <1>9
  <2>3. Reminted(s) = Legs(legacy, m) /\ Least(Legs(legacy, m)) \in Legs(legacy, m)
        /\ \A j \in Legs(legacy, m) : Least(Legs(legacy, m)) <= j
    <3>1. Reminted(s) = Legs(legacy, m)
      BY <1>4, SameLegs
    <3>2. Legs(legacy, m) \subseteq 1..5 /\ Legs(legacy, m) # {}
      BY <1>4
    <3>. QED BY <3>1, <3>2, LeastIsLeast
  <2>4. a = Least(Reminted(s))
    <3>1. SUFFICES ASSUME a # Least(Reminted(s)) PROVE BurnFails(s, FALSE).mem.why \in Partial
      BY <2>2
    <3>2. BurnFails(s, FALSE) = Unwind(s, "partial_burn_failure", {<<"burn", a>>})
      BY <3>1 DEF BurnFails
    <3> DEFINE k == [m EXCEPT !.step = "unwinding", !.why = "partial_burn_failure",
                              !.left = {<<"burn", a>>}]
    <3>3. k.left # {} /\ k.why = "partial_burn_failure"
      BY <1>4 DEF SessionRec
    <3>4. BurnFails(s, FALSE) = Settle(s, k)
      BY <3>2 DEF Unwind
    <3> HIDE DEF k
    <3>5. Settle(s, k).mem = k
      BY <3>3 DEF Settle
    <3>. QED BY <3>3, <3>4, <3>5 DEF Partial
  <2>5. BurnFails(s, FALSE) = UnwindAll(s, "failed_burning")
    BY <2>4 DEF BurnFails
  <2>6. \A i \in Legs(legacy, m) : ~Gone(nft, s, m.items[i]) /\ ~m.items[i].done
    <3>1. \A i \in Legs(legacy, m) : ~(i < a)
      BY <1>4, <2>3, <2>4
    <3>. QED BY <1>3, <1>4, <3>1 DEF StepKept
  <2>7. Handed(nft', s, m, UnwindAll(s, "failed_burning").mem)
    BY <1>3, <1>4, <2>1, <2>6, UnwindAllHands DEF Unwound
  <2>. QED BY <1>1, <1>2, <1>4, <1>6, <1>7, <1>9, <2>5, <2>7, HandedOn
<1>. QED BY <1>2, <1>8, <1>9 DEF Outcomes

\* Of a swap that runs to plan no original is gone before its burn.
LEMMA BurnStaleTraits ==
  ASSUME IInv, Kept, NEW s \in Session, BurnStale(s)
  PROVE  FALSE
<1> DEFINE m == mem[s]
           e == m.items[m.at]
<1>1. m.step = "burning" /\ Running(m) /\ Working(m) /\ SeenAbsent(Now(s).tok)
  BY DEF BurnStale, Running, Working
<1>2. ItemsKept(nft, s, m) /\ From(nft, s, m) /\ StepOK(nft, legacy, s, m)
  BY <1>1, RunningIs DEF Kept, WorkKept
<1>3. m.at \in Legs(legacy, m) /\ m.at \in 1..2 /\ Now(s) = e /\ ~Gone(nft, s, e)
  <2>1. m.at \in Legs(legacy, m) /\ m.at \in 1..2
    BY <1>1, <1>2 DEF StepOK, Legs
  <2>. QED BY <1>1, <1>2, <2>1 DEF StepOK, Now
<1>4. LiveIn(nft, e.tok)
  BY <1>2, <1>3, ItemsStand
<1>. QED BY <1>1, <1>3, <1>4 DEF SeenAbsent, Live, LiveIn

\* What a compensation leaves of item i, which was e.
UndoneAs(c, i, e, d) ==
    /\ d \in Item /\ d.tok = e.tok /\ d.was = e.was /\ d.now = e.now
    /\ d.done = IF c = <<"revert", i>> THEN FALSE ELSE e.done
    /\ d.new = IF c = <<"burn", i>> THEN NoToken ELSE e.new
    /\ i # c[2] => d = e

LEMMA AfterUndoIs ==
  ASSUME NEW s \in Session, mem[s] \in SessionRec, mem[s].items \in Item \X Item,
         NEW c \in {"revert", "burn"} \X (1..2)
  PROVE  /\ AfterUndo(s, c).left = mem[s].left \ {c} /\ AfterUndo(s, c).why = mem[s].why
         /\ AfterUndo(s, c).step = mem[s].step
         /\ \A i \in 1..2 : UndoneAs(c, i, mem[s].items[i], AfterUndo(s, c).items[i])
<1> DEFINE m == mem[s]
           k == c[2]
           e == m.items[k]
           d == UndoneItem(e, c)
<1>1. e \in Item /\ k \in 1..2 /\ c = <<c[1], k>> /\ c[1] \in {"revert", "burn"}
  OBVIOUS
<1>2. Skipped(s, c).items = m.items /\ Skipped(s, c).left = m.left \ {c}
      /\ Skipped(s, c).why = m.why /\ Skipped(s, c).step = m.step
      /\ Skipped(s, c) \in [step : Steps, surface : Surface, items : {<<>>} \cup (Item \X Item), at : 0..2,
                            left : SUBSET ({"revert", "burn"} \X (1..2)), why : Statuses, end : Ends]
  BY DEF Skipped, SessionRec
<1> HIDE DEF e, k
<1>3. /\ d \in Item /\ d.tok = e.tok /\ d.was = e.was /\ d.now = e.now
      /\ d.done = IF c[1] = "revert" THEN FALSE ELSE e.done
      /\ d.new = IF c[1] = "burn" THEN NoToken ELSE e.new
  <2>1. CASE c[1] = "revert"
    BY <1>1, <2>1 DEF Item, UndoneItem
  <2>2. CASE c[1] = "burn"
    BY <1>1, <2>2 DEF Item, UndoneItem
  <2>. QED BY <1>1, <2>1, <2>2
<1> HIDE DEF d
<1>4. AfterUndo(s, c) = [Skipped(s, c) EXCEPT !.items = [m.items EXCEPT ![k] = d]]
  BY DEF AfterUndo, d, e, k
<1>5. /\ AfterUndo(s, c).items = [m.items EXCEPT ![k] = d]
      /\ AfterUndo(s, c).left = m.left \ {c} /\ AfterUndo(s, c).why = m.why
      /\ AfterUndo(s, c).step = m.step
  BY <1>2, <1>4
<1>6. \A i \in 1..2 : AfterUndo(s, c).items[i] = IF i = k THEN d ELSE m.items[i]
  BY <1>1, <1>3, <1>5, ItemsExcept
<1>7. \A i \in 1..2 : /\ m.items[i] \in Item
                      /\ c = <<"revert", i>> <=> i = k /\ c[1] = "revert"
                      /\ c = <<"burn", i>> <=> i = k /\ c[1] = "burn"
  BY <1>1
<1>8. m.items[k] = e
  BY DEF e
<1>9. ASSUME NEW i \in 1..2
      PROVE  UndoneAs(c, i, m.items[i], AfterUndo(s, c).items[i])
  <2>1. CASE i = k
    BY <1>3, <1>6, <1>7, <1>8, <2>1 DEF UndoneAs, k
  <2>2. CASE i # k
    BY <1>6, <1>7, <2>2 DEF UndoneAs, k
  <2>. QED BY <2>1, <2>2
<1>. QED BY <1>5, <1>9

LEMMA UnwindOneTraits ==
  ASSUME IInv, Kept, NEW s \in Session, UnwindOne(s), ~disturbed'
  PROVE  Kept'
<1> DEFINE m == mem[s]
<1>1. PICK c \in m.left, out \in Outcomes :
         /\ Stepped(s, Compensation(s, c), out) /\ m.step = "unwinding"
         /\ c \in {"revert", "burn"} \X (1..2)
         /\ disturbed' = (disturbed \/ out # "done") /\ UNCHANGED <<legacy, index>>
         /\ out = "done" => /\ GoesOn(s, Settle(s, AfterUndo(s, c)))
                            /\ Unwinding(nft', s, AfterUndo(s, c))
                            /\ Lands(Compensation(s, c))
  BY UnwindOneStep
<1> DEFINE m2 == AfterUndo(s, c)
           a == c[2]
           e == m.items[a]
           d == m2.items[a]
           tx == Compensation(s, c)
<1>2. out = "done" /\ Running(m) /\ Working(m)
  BY <1>1 DEF Running, Working
<1>3. /\ WorkKept(nft, legacy, s, m) /\ ItemsKept(nft, s, m) /\ StepKept(nft, legacy, m)
      /\ nft \in [Token -> TokenState]
  BY <1>1, <1>2 DEF Kept, WorkKept, IInv, Ledger
<1>4. /\ a \in 1..2 /\ c = <<c[1], a>> /\ c[1] \in {"revert", "burn"}
      /\ m \in SessionRec /\ m.items \in Item \X Item /\ From(nft, s, m)
      /\ StepOK(nft, legacy, s, m)
  BY <1>1, <1>2, RunningIs DEF From, ItemsOK
<1>5. /\ e \in Item /\ e.tok \in Token /\ e.tok[1] \in Edition /\ ItemKept(nft, s, e)
      /\ Minted(e) => e.new = <<e.tok[1], s>> /\ e.new \in Token /\ e.new # e.tok
      /\ LiveIn(nft, e.tok)
  <2>1. /\ e \in Item /\ e.tok \in Token /\ e.tok[1] \in Edition /\ ItemKept(nft, s, e)
        /\ ItemOK(nft, legacy, s, e) /\ LiveIn(nft, e.tok)
    BY <1>1, <1>3, <1>4, ItemsStand DEF StepKept
  <2>2. Minted(e) => e.new = <<e.tok[1], s>> /\ e.tok[2] = First
    BY <2>1 DEF ItemOK, Leg
  <2>. QED BY <2>1, <2>2, TokenIsPair
<1>6. /\ m2.left = m.left \ {c} /\ m2.why = m.why /\ m2.step = m.step
      /\ \A i \in 1..2 :
           /\ m2.items[i] \in Item /\ m2.items[i].tok = m.items[i].tok
           /\ m2.items[i].was = m.items[i].was /\ m2.items[i].now = m.items[i].now
           /\ m2.items[i].done = IF c = <<"revert", i>> THEN FALSE ELSE m.items[i].done
           /\ m2.items[i].new = IF c = <<"burn", i>> THEN NoToken ELSE m.items[i].new
           /\ i # a => m2.items[i] = m.items[i]
  <2>0. mem[s] \in SessionRec /\ mem[s].items \in Item \X Item /\ c \in {"revert", "burn"} \X (1..2)
    BY <1>1, <1>4
  <2>1. /\ m2.left = m.left \ {c} /\ m2.why = m.why /\ m2.step = m.step
        /\ \A i \in 1..2 : UndoneAs(c, i, m.items[i], m2.items[i])
    BY <2>0, AfterUndoIs
  <2>. QED BY <2>1 DEF UndoneAs
<1> HIDE DEF m2
<1>7. tx \in Tx /\ Outcome(tx, out) /\ Lands(tx)
  BY <1>1, <1>2 DEF Stepped
<1>8. /\ \A t \in Token : t # tx.tok => nft'[t] = nft[t]
      /\ nft'[tx.tok].trait = IF tx.op \in {"mint", "modify"} THEN tx.trait ELSE nft[tx.tok].trait
      /\ tx.op = "burn" => nft'[tx.tok].at = "burned"
      /\ tx.op = "modify" => nft'[tx.tok].at = nft[tx.tok].at
  <2> HIDE DEF tx
  <2>1. /\ \A t \in Token : t # tx.tok => nft'[t] = nft[t]
        /\ nft'[tx.tok].trait = IF tx.op \in {"mint", "modify"} THEN tx.trait ELSE nft[tx.tok].trait
    BY <1>2, <1>7, OutcomeStays
  <2>2. /\ tx.op = "burn" => nft'[tx.tok].at = "burned"
        /\ tx.op = "modify" => nft'[tx.tok].at = nft[tx.tok].at
    BY <1>3, <1>7, LandsChanges
  <2>. QED BY <2>1, <2>2
<1>9. /\ nft[e.tok].at = "user" /\ nft[e.tok].trait = IF e.done THEN e.now ELSE e.was
      /\ Minted(e) => nft[e.new].at = "issuer" /\ ~nft[e.new].offered /\ nft[e.new].trait = e.now
      /\ \A u \in Token : u[1] = e.tok[1] /\ LiveIn(nft, u) => u = e.tok \/ (Minted(e) /\ u = e.new)
  BY <1>5 DEF ItemKept
<1>10. /\ ItemKept(nft', s, d) /\ LiveIn(nft', d.tok)
       /\ \A t \in Token : t[1] # e.tok[1] => nft'[t] = nft[t]
       /\ tx.tok[1] = e.tok[1]
  <2>1. CASE c[1] = "revert"
    <3>1. tx.op = "modify" /\ tx.tok = e.tok /\ tx.trait = e.was
      BY <2>1 DEF Compensation
    <3>2. d.tok = e.tok /\ d.was = e.was /\ d.now = e.now /\ d.new = e.new /\ d.done = FALSE
      <4>1. c = <<"revert", a>> /\ c # <<"burn", a>>
        BY <1>4, <2>1
      <4>. QED BY <1>4, <1>6, <4>1
    <3>3. /\ nft'[e.tok].at = "user" /\ nft'[e.tok].trait = e.was
          /\ \A t \in Token : t # e.tok => nft'[t] = nft[t]
      BY <1>8, <1>9, <3>1
    <3>4. \A u \in Token : LiveIn(nft', u) <=> LiveIn(nft, u)
      BY <1>9, <3>3 DEF LiveIn
    <3>5. Minted(d) <=> Minted(e)
      BY <3>2 DEF Minted
    <3>6. ItemKept(nft', s, d) /\ LiveIn(nft', d.tok)
      <4> HIDE DEF d, e
      <4>. QED BY <1>5, <1>9, <3>2, <3>3, <3>4, <3>5 DEF ItemKept
    <3>. QED BY <3>1, <3>3, <3>6
  <2>2. CASE c[1] = "burn"
    <3>1. tx.op = "burn" /\ tx.tok = e.new
      BY <2>2 DEF Compensation
    <3>2. Minted(e)
      <4>1. <<"burn", a>> \in m.left
        BY <1>1, <1>4, <2>2
      <4>. QED BY <1>1, <1>4, <4>1 DEF StepOK
    <3>3. d.tok = e.tok /\ d.was = e.was /\ d.now = e.now /\ d.new = NoToken /\ d.done = e.done
      <4>1. c = <<"burn", a>> /\ c # <<"revert", a>>
        BY <1>4, <2>2
      <4>. QED BY <1>4, <1>6, <4>1
    <3>4. /\ nft'[e.new].at = "burned" /\ nft'[e.tok] = nft[e.tok]
          /\ \A t \in Token : t # e.new => nft'[t] = nft[t]
      BY <1>5, <1>8, <3>1, <3>2
    <3>5. \A u \in Token : u[1] = e.tok[1] /\ LiveIn(nft', u) => u = e.tok
      BY <1>9, <3>4 DEF LiveIn
    <3>6. ~Minted(d)
      BY <3>3 DEF Minted
    <3>7. ItemKept(nft', s, d) /\ LiveIn(nft', d.tok)
      <4>1. LiveIn(nft', e.tok)
        BY <1>5, <3>4 DEF LiveIn
      <4> HIDE DEF d, e
      <4>. QED BY <1>9, <3>3, <3>4, <3>5, <3>6, <4>1 DEF ItemKept
    <3>8. tx.tok[1] = e.tok[1]
      BY <1>5, <3>1, <3>2
    <3>. QED BY <3>1, <3>4, <3>7, <3>8
  <2>. QED BY <1>4, <2>1, <2>2
<1>11. /\ ItemsKept(nft', s, m2)
       /\ \A i \in 1..2 : i # a => (LiveIn(nft', m2.items[i].tok) <=> LiveIn(nft, m.items[i].tok))
  <2> HIDE DEF a, tx
  <2>1. /\ a \in 1..2 /\ ItemKept(nft', s, m2.items[a])
        /\ \A t \in Token : t[1] # m.items[a].tok[1] => nft'[t] = nft[t]
        /\ \A i \in 1..2 : /\ m2.items[i].tok = m.items[i].tok
                           /\ m2.items[i].was = m.items[i].was
                           /\ m2.items[i].now = m.items[i].now
                           /\ i # a => m2.items[i] = m.items[i]
    BY <1>4, <1>6, <1>10
  <2>. QED BY <1>2, <1>3, <2>1, OtherItemKept
<1>12. Legs(legacy, m2) = Legs(legacy, m)
  BY <1>6 DEF Legs
<1>13. StepKept(nft', legacy, m2)
  <2>1. \A i \in 1..2 : LiveIn(nft', m2.items[i].tok)
    BY <1>1, <1>3, <1>10, <1>11 DEF StepKept
  <2>2. ASSUME NEW i \in 1..2
        PROVE  /\ m2.items[i].done => <<"revert", i>> \in m2.left
               /\ Minted(m2.items[i]) => <<"burn", i>> \in m2.left
    <3>1. /\ m.items[i].done => <<"revert", i>> \in m.left
          /\ Minted(m.items[i]) => <<"burn", i>> \in m.left
      BY <1>1, <1>3 DEF StepKept
    <3>2. /\ m2.items[i].done => m.items[i].done /\ c # <<"revert", i>>
          /\ Minted(m2.items[i]) => Minted(m.items[i]) /\ c # <<"burn", i>>
      BY <1>6 DEF Minted
    <3>. QED BY <1>6, <3>1, <3>2
  <2>3. \A i \in Legs(legacy, m2) : ~m2.items[i].done
    <3>1. \A i \in Legs(legacy, m) : i \in 1..2 /\ ~m.items[i].done
      BY <1>3 DEF StepKept, Legs
    <3>. QED BY <1>6, <1>12, <3>1
  <2>4. m2.step = "unwinding" /\ m2.why \in Unwound
    BY <1>1, <1>3, <1>6 DEF StepKept
  <2>. QED BY <2>1, <2>2, <2>3, <2>4 DEF StepKept
<1>14. Handed(nft', s, m2, Settle(s, m2).mem)
  <2>1. /\ m2 \in SessionRec /\ m2.step = "unwinding" /\ ItemsOK(nft', legacy, s, m2)
        /\ GoesOn(s, Settle(s, m2))
    BY <1>1, <1>2 DEF Unwinding, m2
  <2>. QED BY <1>11, <1>13, <2>1, SettleHands DEF WorkKept
<1>15. Handed(nft', s, m, Settle(s, m2).mem)
  BY <1>6, <1>14, HandedFrom
<1>16. /\ Stepped(s, tx, out) /\ GoesOn(s, Settle(s, m2)) /\ legacy' = legacy
       /\ \A t \in Token : index'[t].at = "user" => index[t].at = "user"
  BY <1>1, <1>2 DEF m2
<1> HIDE DEF tx
<1>. QED BY <1>2, <1>4, <1>10, <1>15, <1>16, HandedOn

-----------------------------------------------------------------------------
(* Before the chain work, and after it.                                    *)

\* A session that has nothing on the ledger yet goes on or ends.
LEMMA EarlyKeeps ==
  ASSUME IInv, Kept, NEW s \in Session, mem[s].step \in {"checking", "paying"},
         NEW m, mem' = [mem EXCEPT ![s] = m],
         m = Proceed(s, mem[s]).mem \/ \E end \in Ends : m = Stop(mem[s], end),
         UNCHANGED <<legacy, nft, flying>>,
         \A t \in Token : index'[t].at = "user" => index[t].at = "user"
  PROVE  Kept'
<1>1. Running(mem[s]) /\ Working(mem[s])
  BY DEF Running, Working
<1>2. /\ From(nft, s, mem[s]) /\ StepOK(nft, legacy, s, mem[s]) /\ Ledger(nft)
      /\ WorkKept(nft, legacy, s, mem[s])
  BY <1>1, RunningIs DEF Kept, IInv
<1>3. Handed(nft, s, mem[s], m)
  <2>1. CASE m = Proceed(s, mem[s]).mem
    <3>1. Through(nft, s, mem[s])
      BY <1>2 DEF Through, StepOK
    <3>2. ItemsKept(nft, s, mem[s]) /\ Past(mem[s])
      BY <1>2 DEF WorkKept, StepKept, Past
    <3>. QED BY <1>2, <2>1, <3>1, <3>2, ProceedHands
  <2>2. CASE \E end \in Ends : m = Stop(mem[s], end)
    BY <1>2, <2>2, EarlyEndHands
  <2>. QED BY <2>1, <2>2
<1>4. /\ \A tx \in flying' : tx.op = "offer"
      /\ \A t \in Token : index'[t].at = "user" => nft'[t].at \in {"user", "burned"}
  BY DEF Kept
<1>5. Handed(nft', s, mem[s], m) /\ legacy' = legacy /\ \A t \in Token : nft'[t] = nft[t]
  BY <1>3
<1>. QED BY <1>1, <1>4, <1>5, HandedKeeps

LEMMA EarlyCommits ==
  ASSUME IInv, NEW s \in Session, mem[s].step \in {"checking", "paying"},
         NEW next \in {Proceed(s, mem[s]), Fail(mem[s], <<>>)}, NEW cost \in Nat,
         Commit(s, next, cost)
  PROVE  /\ mem' = [mem EXCEPT ![s] = next.mem]
         /\ next.mem = Proceed(s, mem[s]).mem \/ \E end \in Ends : next.mem = Stop(mem[s], end)
<1>1. Running(mem[s])
  BY DEF Running
<1>2. /\ From(nft, s, mem[s]) /\ StepOK(nft, legacy, s, mem[s])
      /\ mem[s] \in SessionRec /\ mem[s].items \in Item \X Item
  BY <1>1, RunningIs DEF From, ItemsOK
<1>3. Through(nft, s, mem[s])
  BY <1>2 DEF Through, StepOK
<1>4. NextOK(nft, s, next)
  <2>1. NextOK(nft, s, Proceed(s, mem[s]))
    BY <1>2, <1>3, ProceedIsOK DEF FivePhases
  <2>2. NextOK(nft, s, Fail(mem[s], <<>>))
    BY <1>2, FailIsOK, WritesAreStatuses
  <2>. QED BY <2>1, <2>2
<1>5. mem' = [mem EXCEPT ![s] = next.mem]
  BY <1>4, CommitIs DEF NextOK, SessionOK, IInv
<1>. QED BY <1>5 DEF Fail, Ends

LEMMA PreCheckTraits ==
  ASSUME IInv, Kept, NEW s \in Session, PreCheck(s)
  PROVE  Kept'
<1>1. mem[s].step = "checking" /\ UNCHANGED <<legacy, nft, flying>> /\ Running(mem[s])
  BY DEF PreCheck, Running
<1>2. PICK next \in {Proceed(s, mem[s]), Fail(mem[s], <<>>)}, cost \in Nat :
        /\ Commit(s, next, cost)
        /\ index' = index \/ \E gone \in SUBSET Token : Heal(gone)
  <2>1. CASE Commit(s, Fail(mem[s], <<>>), 1) /\ UNCHANGED index
    BY <2>1
  <2>2. CASE \E gone \in SUBSET {mem[s].items[i].tok : i \in Reminted(s)} :
            /\ \A t \in gone : SeenAbsent(t)
            /\ Heal(gone)
            /\ Commit(s, IF gone = {} THEN Proceed(s, mem[s]) ELSE Fail(mem[s], <<>>), 0)
    <3>1. PICK gone \in SUBSET {mem[s].items[i].tok : i \in Reminted(s)} :
            /\ Heal(gone)
            /\ Commit(s, IF gone = {} THEN Proceed(s, mem[s]) ELSE Fail(mem[s], <<>>), 0)
      BY <2>2
    <3>2. \A i \in Reminted(s) : mem[s].items[i].tok \in Token
      BY <1>1, RunningIs, SameLegs
    <3>3. gone \in SUBSET Token
      BY <3>2
    <3>. QED BY <3>1, <3>3
  <2>. QED BY <2>1, <2>2 DEF PreCheck
<1>3. \A t \in Token : index'[t].at = "user" => index[t].at = "user"
  BY <1>2, RowsLeaveTheOwner
<1>4. /\ mem' = [mem EXCEPT ![s] = next.mem]
      /\ next.mem = Proceed(s, mem[s]).mem \/ \E end \in Ends : next.mem = Stop(mem[s], end)
  BY <1>1, <1>2, EarlyCommits
<1>. QED BY <1>1, <1>3, <1>4, EarlyKeeps

LEMMA PaymentSeenTraits ==
  ASSUME IInv, Kept, NEW s \in Session, PaymentSeen(s)
  PROVE  Kept'
<1>1. /\ mem[s].step = "paying" /\ UNCHANGED <<legacy, nft, index, flying>>
      /\ Commit(s, Proceed(s, mem[s]), 0)
  BY DEF PaymentSeen
<1>2. mem' = [mem EXCEPT ![s] = Proceed(s, mem[s]).mem]
  BY <1>1, EarlyCommits
<1>. QED BY <1>1, <1>2, EarlyKeeps

LEMMA WaitEndsTraits ==
  ASSUME IInv, Kept, NEW s \in Session, Cancel(s) \/ NoPayment(s)
  PROVE  Kept'
<1>1. /\ mem[s].step = "paying" /\ UNCHANGED <<legacy, nft, index, flying>>
      /\ \E end \in Ends : mem' = [mem EXCEPT ![s] = Stop(mem[s], end)]
  BY DEF Cancel, NoPayment, Ends
<1>. QED BY <1>1, EarlyKeeps

\* An offer leaves a token where it is and as it is.
LEMMA OfferShows ==
  ASSUME IInv, NEW tx \in Tx, tx.op = "offer", Lands(tx) \/ nft' = nft
  PROVE  \A t \in Token :
            /\ nft'[t].trait = nft[t].trait /\ nft'[t].by = nft[t].by /\ nft'[t].at = nft[t].at
            /\ nft'[t].offered => nft[t].offered \/ t = tx.tok
<1>1. CASE Lands(tx)
  <2>1. nft \in [Token -> TokenState] /\ tx.tok \in Token /\ nft[tx.tok] \in TokenState
    BY DEF IInv, Ledger, Tx
  <2>2. Effect(tx).trait = nft[tx.tok].trait
    BY <2>1 DEF Effect, TokenState
  <2>3. nft'[tx.tok].trait = nft[tx.tok].trait
    BY <1>1, <2>1, <2>2 DEF Lands
  <2>. QED BY <1>1, <2>1, <2>3, LandsChanges
<1>2. CASE nft' = nft
  BY <1>2
<1>. QED BY <1>1, <1>2

LEMMA OfferOneTraits ==
  ASSUME IInv, Kept, NEW s \in Session, OfferOne(s)
  PROVE  Kept'
<1> DEFINE m == mem[s]
           tx == [op |-> "offer", tok |-> Now(s).new, trait |-> Now(s).now, by |-> s]
<1>1. m.step = "offering" /\ Running(m) /\ ~Working(m) /\ UNCHANGED <<legacy, index, disturbed>>
  BY DEF OfferOne, Running, Working
<1>2. /\ From(nft, s, m) /\ StepOK(nft, legacy, s, m)
  BY <1>1, RunningIs
<1>3. PICK through \in BOOLEAN :
        /\ Offer(s, through)
        /\ Commit(s, IF through THEN GoOn(s, m) ELSE Fail(m, <<"failed_offers">>),
                  IF through THEN 0 ELSE 1)
  BY DEF OfferOne
<1>4. m.at \in Legs(legacy, m) /\ Minted(m.items[m.at]) /\ Gone(nft, s, m.items[m.at])
  BY <1>1, <1>2 DEF StepOK
<1>5. From(nft', s, m) /\ StepOK(nft', legacy, s, m)
  BY <1>1, <1>3, <1>4, OfferIsSafe
<1>6. /\ tx \in Tx /\ tx.op = "offer" /\ tx.tok[2] = s
  <2>1. /\ m.at \in 1..2 /\ m.items[m.at] \in Item /\ Now(s) = m.items[m.at]
        /\ Replacement(m.items[m.at].tok, s) \in Token
    BY <1>1, <1>4, RunningIs DEF Legs, Now
  <2>2. Now(s).new = <<Now(s).tok[1], s>> /\ Now(s).new \in Token /\ Now(s).now \in Edition
    BY <1>2, <1>4, <2>1 DEF From, ItemsOK, ItemOK, Replacement, Item
  <2>. QED BY <2>2 DEF Tx
<1>7. PICK out \in Outcomes : Outcome(tx, out)
  BY <1>3 DEF Offer
<1> HIDE DEF tx
<1>8. /\ Lands(tx) \/ nft' = nft
      /\ flying' \subseteq flying \cup {tx}
  BY <1>7 DEF Outcome
<1>9. /\ mem' = [mem EXCEPT ![s] = mem'[s]]
      /\ ~Working(mem'[s]) /\ mem'[s].step # "rescuing"
  <2>1. CASE through
    <3>1. UpTo(nft', s, m)
      BY <1>1, <1>5 DEF UpTo, StepOK
    <3>2. NextOK(nft', s, GoOn(s, m))
      BY <1>1, <1>5, <3>1, GoOnIsOK
    <3>3. mem' = [mem EXCEPT ![s] = GoOn(s, m).mem]
      BY <1>3, <2>1, <3>2, CommitIs DEF NextOK, SessionOK, IInv
    <3>4. Following(s) = "ready"
      <4>1. m.step \in FivePhases \cup {"checking"}
        BY <1>1 DEF FivePhases
      <4>. QED BY <1>1, <1>2, <4>1, FollowingIs DEF FivePhases
    <3>5. GoOn(s, m).mem.step \in {"ended", "offering"}
      BY <1>1, <1>2, <3>4 DEF GoOn, Proceed, Enter, Stop, From, SessionRec
    <3>. QED BY <3>3, <3>5 DEF Working, IInv, TypeOK
  <2>2. CASE ~through
    <3>1. <<"failed_offers">> \in Seq(Statuses)
      BY WritesAreStatuses DEF Statuses
    <3> DEFINE next == Fail(m, <<"failed_offers">>)
    <3>2. NextOK(nft', s, next) /\ next.mem.step = "ended"
      BY <1>2, <3>1, FailIsOK DEF From, ItemsOK
    <3>3. Commit(s, next, 1)
      BY <1>3, <2>2
    <3> HIDE DEF next
    <3>4. mem' = [mem EXCEPT ![s] = next.mem]
      BY <3>2, <3>3, CommitIs DEF NextOK, SessionOK, IInv
    <3>. QED BY <3>2, <3>4 DEF Working, IInv, TypeOK
  <2>. QED BY <2>1, <2>2
<1>10. \A r \in Session : /\ Working(mem[r]) \/ Working(mem'[r]) => mem'[r] = mem[r]
                          /\ mem'[r].step # "rescuing"
  <2>1. \A r \in Session : r # s => mem'[r] = mem[r]
    BY <1>9 DEF IInv, TypeOK
  <2>. QED BY <1>1, <1>9, <2>1 DEF Kept
<1>11. \A t \in Token :
            /\ nft'[t].trait = nft[t].trait /\ nft'[t].by = nft[t].by /\ nft'[t].at = nft[t].at
            /\ nft'[t].offered => nft[t].offered \/ t = tx.tok
  BY <1>6, <1>8, OfferShows
<1>12. \A t \in Token :
         nft'[t].offered => nft[t].offered \/ ~(t[2] \in Session /\ Working(mem[t[2]]))
  BY <1>1, <1>6, <1>11
<1>13. \A ty \in flying' : ty.op = "offer"
  BY <1>6, <1>8 DEF Kept
<1>14. \A t \in Token : index'[t].at = "user" => nft'[t].at \in {"user", "burned"}
  BY <1>1, <1>11 DEF Kept
<1>. QED BY <1>1, <1>10, <1>11, <1>12, <1>13, <1>14, OthersKeep

LEMMA LandTraits ==
  ASSUME IInv, Kept, NEW tx \in flying, Land(tx)
  PROVE  Kept'
<1>1. /\ tx \in Tx /\ tx.by \in Session /\ tx.op = "offer" /\ Safe(nft, tx)
      /\ mem[tx.by].step = "ended"
  BY DEF IInv, TypeOK, Undecided, Tx, Kept
<1>2. tx.tok[2] = tx.by /\ ~Working(mem[tx.by])
  BY <1>1 DEF Safe, Working
<1>3. /\ flying' \subseteq flying /\ (Lands(tx) \/ nft' = nft)
      /\ legacy' = legacy /\ index' = index /\ mem' = mem
  BY DEF Land
<1>4. \A t \in Token :
            /\ nft'[t].trait = nft[t].trait /\ nft'[t].by = nft[t].by /\ nft'[t].at = nft[t].at
            /\ nft'[t].offered => nft[t].offered \/ t = tx.tok
  BY <1>1, <1>3, OfferShows
<1>5. \A t \in Token :
         nft'[t].offered => nft[t].offered \/ ~(t[2] \in Session /\ Working(mem[t[2]]))
  BY <1>2, <1>4
<1>6. /\ \A ty \in flying' : ty.op = "offer"
      /\ \A t \in Token : index'[t].at = "user" => nft'[t].at \in {"user", "burned"}
      /\ \A s \in Session : mem'[s].step # "rescuing" /\ mem'[s] = mem[s]
  BY <1>3, <1>4 DEF Kept
<1>. QED BY <1>3, <1>4, <1>5, <1>6, OthersKeep

LEMMA AcceptTraits ==
  ASSUME IInv, Kept, NEW t \in Token, Accept(t)
  PROVE  Kept'
<1>1. /\ nft[t].at = "issuer" /\ nft[t].offered /\ nft' = [nft EXCEPT ![t].at = "user"]
      /\ legacy' = legacy /\ index' = index /\ mem' = mem /\ flying' = flying
      /\ nft \in [Token -> TokenState]
  BY DEF Accept, IInv, Ledger
<1>2. \A u \in Token :
        /\ nft'[u].trait = nft[u].trait /\ nft'[u].by = nft[u].by
        /\ \/ nft'[u].at = nft[u].at
           \/ nft[u].at = "issuer" /\ nft[u].offered /\ nft'[u].at = "user"
        /\ nft'[u].offered => nft[u].offered \/ ~(u[2] \in Session /\ Working(mem[u[2]]))
  <2>1. \A u \in Token : u # t => nft'[u] = nft[u]
    BY <1>1
  <2>2. /\ nft'[t].trait = nft[t].trait /\ nft'[t].by = nft[t].by /\ nft'[t].at = "user"
        /\ nft'[t].offered = nft[t].offered
    BY <1>1 DEF TokenState
  <2>. QED BY <1>1, <2>1, <2>2
<1>3. /\ \A ty \in flying' : ty.op = "offer"
      /\ \A u \in Token : index'[u].at = "user" => nft'[u].at \in {"user", "burned"}
      /\ \A s \in Session : mem'[s].step # "rescuing" /\ mem'[s] = mem[s]
  BY <1>1, <1>2 DEF Kept
<1>. QED BY <1>1, <1>2, <1>3, OthersKeep

LEMMA ListenTraits ==
  ASSUME IInv, Kept, NEW t \in Token, Listen(t)
  PROVE  Kept'
<1>1. /\ index' = [index EXCEPT ![t] = Row(t, nft[t].at, nft[t].trait)]
      /\ legacy' = legacy /\ nft' = nft /\ mem' = mem /\ flying' = flying
      /\ index \in [Token -> [at : Places, trait : Edition]]
  BY DEF Listen, IInv, TypeOK
<1>2. Row(t, nft[t].at, nft[t].trait).at = "user" => nft[t].at = "user"
  BY DEF Row
<1>3. \A u \in Token : index'[u].at = "user" => nft'[u].at \in {"user", "burned"}
  <2>1. \A u \in Token : u # t => index'[u] = index[u]
    BY <1>1
  <2>2. index'[t] = Row(t, nft[t].at, nft[t].trait)
    BY <1>1
  <2>. QED BY <1>1, <1>2, <2>1, <2>2 DEF Kept
<1>4. /\ \A ty \in flying' : ty.op = "offer"
      /\ \A s \in Session : mem'[s].step # "rescuing" /\ mem'[s] = mem[s]
  BY <1>1 DEF Kept
<1>. QED BY <1>1, <1>3, <1>4, OthersKeep

-----------------------------------------------------------------------------
(* A session begins; all sessions go.                                      *)

\* Of an edition no session works on the tokens are all there is.
LEMMA HomeOfUnclaimed ==
  ASSUME NEW N, NEW M, NEW n, \A r \in Session : ~Claims(M[r], n), NEW x
  PROVE  HomeIs(N, M, n, x) <=> Sole(N, n, x)
BY DEF HomeIs, Claims

\* What its owner holds, with the roster up to date and no session on it, is
\* all there is of an edition.
LEMMA RosterIsRight ==
  ASSUME IInv, Kept, NEW v \in Token, index[v].at = "user", Live(v),
         nft[v].trait = index[v].trait,
         \A r \in Session : Active(r) => \A i \in 1..2 : mem[r].items[i].tok # v
  PROVE  /\ \A r \in Session : ~Claims(mem[r], v[1])
         /\ nft[v].at = "user" /\ Sole(nft, v[1], index[v].trait)
         /\ \A u \in Token : u[1] = v[1] /\ LiveIn(nft, u) => u = v
<1>1. nft[v].at = "user" /\ LiveIn(nft, v) /\ v[1] \in Edition
  BY TokenIsPair DEF Kept, Live, LiveIn
<1>2. ASSUME NEW r \in Session, Claims(mem[r], v[1]) PROVE FALSE
  <2>1. PICK i \in 1..2 : mem[r].items[i].tok[1] = v[1]
    BY <1>2 DEF Claims
  <2>2. Working(mem[r]) /\ Active(r)
    BY <1>2 DEF Claims, Working, Active
  <2>3. ItemKept(nft, r, mem[r].items[i])
    BY <2>2 DEF Kept, WorkKept, ItemsKept
  <2> DEFINE e == mem[r].items[i]
  <2>4. v = e.tok \/ (Minted(e) /\ v = e.new /\ nft[e.new].at = "issuer")
    BY <1>1, <2>1, <2>3 DEF ItemKept
  <2>. QED BY <1>1, <2>2, <2>4
<1>3. PICK x \in Edition : Sole(nft, v[1], x)
  BY <1>1, <1>2, HomeOfUnclaimed DEF Kept
<1>4. nft[v].trait = x /\ \A u \in Token : u[1] = v[1] /\ LiveIn(nft, u) => u = v
  BY <1>1, <1>3 DEF Sole
<1>. QED BY <1>1, <1>2, <1>3, <1>4

LEMMA StartTraits ==
  ASSUME IInv, Kept, NEW s \in Session, NEW f \in Surface, NEW t \in Token, NEW u \in Token,
         Start(s, f, t, u), ~disturbed'
  PROVE  Kept'
<1> DEFINE items == <<Exchanged(t, u), Exchanged(u, t)>>
           m     == [mem[s] EXCEPT !.step = "checking", !.surface = f, !.items = items]
<1>1. /\ mem[s].step = "none" /\ t # u /\ index[t].at = "user" /\ index[u].at = "user"
      /\ UNCHANGED <<legacy, nft, index, flying>>
      /\ \A v \in {t, u} : /\ Live(v) /\ nft[v].trait = index[v].trait
                           /\ ~\E r \in Session : Active(r) /\ \E i \in 1..2 : mem[r].items[i].tok = v
  BY DEF Start, Listed
<1>2. mem \in [Session -> SessionRec] /\ mem' = [mem EXCEPT ![s] = m]
  BY DEF Start, IInv, TypeOK, SessionRec
<1>3. ASSUME NEW v \in {t, u}
      PROVE  /\ \A r \in Session : ~Claims(mem[r], v[1])
             /\ nft[v].at = "user" /\ Sole(nft, v[1], index[v].trait) /\ v[1] \in Edition
             /\ \A w \in Token : w[1] = v[1] /\ LiveIn(nft, w) => w = v
  <2>1. /\ v \in Token /\ index[v].at = "user" /\ Live(v) /\ nft[v].trait = index[v].trait
        /\ \A r \in Session : Active(r) => \A i \in 1..2 : mem[r].items[i].tok # v
    BY <1>1
  <2>. QED BY <2>1, RosterIsRight, TokenIsPair
<1>4. t[1] # u[1]
  <2>1. LiveIn(nft, u)
    BY <1>3 DEF LiveIn
  <2>. QED BY <1>1, <1>3, <2>1
<1>5. /\ items \in Item \X Item /\ items[1] = Exchanged(t, u) /\ items[2] = Exchanged(u, t)
  BY DEF Exchanged, Item, IInv, TypeOK
<1>6. /\ items[1].tok = t /\ items[1].was = index[t].trait /\ items[1].now = index[u].trait
      /\ items[2].tok = u /\ items[2].was = index[u].trait /\ items[2].now = index[t].trait
      /\ \A i \in 1..2 : items[i].new = NoToken /\ items[i].done = FALSE /\ items[i].tok \in {t, u}
                         /\ items[i].was = index[items[i].tok].trait
  <2>1. \A i \in 1..2 : i = 1 \/ i = 2
    OBVIOUS
  <2>. QED BY <1>5, <2>1 DEF Exchanged
<1> HIDE DEF items
<1>7. m.step = "checking" /\ m.items = items
  BY <1>2 DEF SessionRec
<1> HIDE DEF m
<1>8. Working(m) /\ m.step # "rescuing" /\ ~Working(mem[s])
  BY <1>1, <1>7 DEF Working
<1>9. WorkKept(nft, legacy, s, m)
  <2>1. ASSUME NEW i \in 1..2 PROVE ItemKept(nft, s, items[i]) /\ ~Minted(items[i]) /\ ~items[i].done
    <3>1. /\ items[i].tok \in {t, u} /\ items[i].was = index[items[i].tok].trait
          /\ ~items[i].done /\ ~Minted(items[i])
      BY <1>6 DEF Minted
    <3>2. nft[items[i].tok].at = "user" /\ nft[items[i].tok].trait = items[i].was
      BY <1>1, <1>3, <3>1
    <3>3. \A w \in Token : w[1] = items[i].tok[1] /\ LiveIn(nft, w) => w = items[i].tok
      BY <1>3, <3>1
    <3>. QED BY <3>1, <3>2, <3>3 DEF ItemKept, LiveIn
  <2>2. ItemsKept(nft, s, m)
    BY <1>4, <1>6, <1>7, <2>1 DEF ItemsKept
  <2>3. StepKept(nft, legacy, m)
    BY <1>7, <2>1 DEF StepKept, Legs
  <2>. QED BY <2>2, <2>3 DEF WorkKept
<1>10. /\ mem'[s] = m /\ \A r \in Session : r # s => mem'[r] = mem[r]
  BY <1>2
<1>11. \A n : Claims(m, n) <=> n = t[1] \/ n = u[1]
  <2>1. \A i \in 1..2 : i = 1 \/ i = 2
    OBVIOUS
  <2>. QED BY <1>6, <1>7, <1>8, <2>1 DEF Claims
<1>12. \A n \in Edition : n # t[1] /\ n # u[1] =>
         \A r \in Session : Claims(mem'[r], n) <=> Claims(mem[r], n)
  BY <1>8, <1>10, <1>11 DEF Claims
<1>13. ASSUME NEW n \in Edition, NEW x \in Edition
       PROVE  HomeIs(nft', mem', n, x) <=> HomeIs(nft, mem, n, x)
  <2>1. CASE n # t[1] /\ n # u[1]
    <3>1. \A i \in 1..2 : m.items[i].tok[1] # n
      BY <1>6, <1>7, <2>1
    <3>2. \A r \in Session :
            (Working(mem'[r]) /\ \E i \in 1..2 : mem'[r].items[i].tok[1] = n /\ mem'[r].items[i].was = x)
            <=> (Working(mem[r]) /\ \E i \in 1..2 : mem[r].items[i].tok[1] = n /\ mem[r].items[i].was = x)
      BY <1>8, <1>10, <3>1
    <3>3. nft' = nft
      BY <1>1
    <3>. QED BY <1>12, <2>1, <3>2, <3>3 DEF HomeIs
  <2>2. ASSUME NEW i \in 1..2, n = items[i].tok[1]
        PROVE  HomeIs(nft', mem', n, x) <=> HomeIs(nft, mem, n, x)
    <3>1. /\ \A r \in Session : ~Claims(mem[r], n)
          /\ Sole(nft, n, items[i].was)
      BY <1>3, <1>6, <2>2
    <3>2. HomeIs(nft, mem, n, x) <=> x = items[i].was
      BY <3>1, HomeOfUnclaimed DEF Sole
    <3>3. \A j \in 1..2 : items[j].tok[1] = n => j = i
      <4>1. i \in {1, 2}
        OBVIOUS
      <4>2. \A j \in 1..2 : j = 1 \/ j = 2
        OBVIOUS
      <4>. QED BY <1>4, <1>6, <2>2, <4>1, <4>2
    <3>4. Claims(m, n)
      BY <1>7, <1>8, <2>2 DEF Claims
    <3>5. \A r \in Session : Claims(mem'[r], n) <=> r = s
      BY <1>10, <3>1, <3>4
    <3>6. HomeIs(nft', mem', n, x) <=> x = items[i].was
      <4>1. ASSUME HomeIs(nft', mem', n, x) PROVE x = items[i].was
        <5>1. PICK r \in Session : Working(mem'[r]) /\ \E j \in 1..2 :
                mem'[r].items[j].tok[1] = n /\ mem'[r].items[j].was = x
          BY <3>5, <4>1 DEF HomeIs
        <5>2. r = s
          BY <3>5, <5>1 DEF Claims
        <5>. QED BY <1>7, <1>10, <3>3, <5>1, <5>2
      <4>2. HomeIs(nft', mem', n, items[i].was)
        BY <1>7, <1>8, <1>10, <2>2 DEF HomeIs
      <4>. QED BY <4>1, <4>2
    <3>. QED BY <3>2, <3>6
  <2>3. n = t[1] \/ n = u[1] => \E i \in 1..2 : n = items[i].tok[1]
    BY <1>6
  <2>. QED BY <2>1, <2>2, <2>3
<1>14. \A q, r \in Session, n \in Edition : Claims(mem'[q], n) /\ Claims(mem'[r], n) => q = r
  <2>1. \A r \in Session, n \in Edition :
           n = t[1] \/ n = u[1] => (Claims(mem'[r], n) <=> r = s)
    BY <1>3, <1>10, <1>11
  <2>. QED BY <1>12, <2>1 DEF Kept
<1>15. \A r \in Session : /\ Working(mem'[r]) => WorkKept(nft', legacy', r, mem'[r])
                          /\ mem'[r].step # "rescuing"
  BY <1>1, <1>8, <1>9, <1>10 DEF Kept
<1>16. /\ \A n \in Edition : \E x \in Edition : HomeIs(nft', mem', n, x)
       /\ \A n, k, x \in Edition : HomeIs(nft', mem', n, x) /\ HomeIs(nft', mem', k, x) => n = k
  BY <1>13 DEF Kept
<1>17. /\ \A tx \in flying' : tx.op = "offer"
       /\ \A v \in Token : index'[v].at = "user" => nft'[v].at \in {"user", "burned"}
  BY <1>1 DEF Kept
<1>. QED BY <1>14, <1>15, <1>16, <1>17 DEF Kept

LEMMA RestartTraits ==
  ASSUME IInv, Kept, Restart, ~disturbed'
  PROVE  Kept'
<1>1. /\ mem' = [s \in Session |-> IF Active(s) THEN Stop(mem[s], "gone") ELSE mem[s]]
      /\ flying' = flying \cup UNION {Pending(s) : s \in Session}
      /\ UNCHANGED <<legacy, nft, index>>
      /\ \A s \in Session : mem[s].step \notin {"minting", "modifying", "burning", "unwinding"}
  BY DEF Restart
<1>2. \A s \in Session : mem[s].step \in {"none", "ended", "checking", "paying", "offering"}
  <2>1. \A s \in Session : mem[s].step \in Steps /\ mem[s].step # "rescuing"
    BY DEF IInv, TypeOK, Kept
  <2>. QED BY <1>1, <2>1, StepNames
<1>3. \A s \in Session : mem'[s].step \in {"none", "ended"}
  <2>1. \A s \in Session : Stop(mem[s], "gone").step = "ended"
    BY DEF Stop, IInv, TypeOK
  <2>. QED BY <1>1, <2>1 DEF Active
<1>4. \A tx \in flying' : tx.op = "offer"
  <2>1. ASSUME NEW s \in Session, NEW p \in Pending(s) PROVE p.op = "offer"
    <3>1. Running(mem[s])
      BY PendingIsSafe
    <3>2. mem[s].step \in {"checking", "paying", "offering"}
      BY <1>2, <3>1 DEF Running
    <3>. QED BY <3>2 DEF Pending
  <2>. QED BY <1>1, <2>1 DEF Kept
<1>5. \A s \in Session : ~Working(mem'[s]) /\ mem'[s].step # "rescuing"
  BY <1>3 DEF Working
<1>6. ASSUME NEW n \in Edition, NEW x \in Edition
      PROVE  HomeIs(nft', mem', n, x) <=> HomeIs(nft, mem, n, x)
  <2>1. HomeIs(nft', mem', n, x) <=> Sole(nft, n, x)
    BY <1>1, <1>5 DEF HomeIs, Claims
  <2>2. CASE \A r \in Session : ~Claims(mem[r], n)
    BY <2>1, <2>2, HomeOfUnclaimed
  <2>3. ASSUME NEW r \in Session, Claims(mem[r], n)
        PROVE  HomeIs(nft, mem, n, x) <=> Sole(nft, n, x)
    <3>1. PICK i \in 1..2 : mem[r].items[i].tok[1] = n
      BY <2>3 DEF Claims
    <3>2. Working(mem[r]) /\ Running(mem[r]) /\ mem[r].step \in {"checking", "paying"}
      BY <1>2, <2>3 DEF Claims, Working, Running
    <3>3. From(nft, r, mem[r]) /\ WorkKept(nft, legacy, r, mem[r]) /\ "failed" \in Ends
      BY <3>2, RunningIs DEF Kept, Ends
    <3>4. Sole(nft, n, mem[r].items[i].was)
      BY <3>1, <3>2, <3>3, EarlyEndHands
    <3>5. HomeIs(nft, mem, n, x) <=> x = mem[r].items[i].was
      BY <3>1, <3>2, HomeOfClaimed
    <3>. QED BY <3>4, <3>5 DEF Sole
  <2>. QED BY <2>1, <2>2, <2>3
<1>7. /\ \A n \in Edition : \E x \in Edition : HomeIs(nft', mem', n, x)
      /\ \A n, k, x \in Edition : HomeIs(nft', mem', n, x) /\ HomeIs(nft', mem', k, x) => n = k
  BY <1>6 DEF Kept
<1>8. \A v \in Token : index'[v].at = "user" => nft'[v].at \in {"user", "burned"}
  BY <1>1 DEF Kept
<1>. QED BY <1>4, <1>5, <1>7, <1>8 DEF Kept, Claims

-----------------------------------------------------------------------------
(* Together.                                                               *)

LEMMA InitTraits ==
  ASSUME Init
  PROVE  Traits
<1>1. /\ nft = [t \in Token |-> [at |-> IF t[2] = First THEN "user" ELSE "none",
                                 trait |-> t[1], offered |-> FALSE, by |-> First]]
      /\ index = [t \in Token |-> [at |-> IF t[2] = First THEN "user" ELSE "none",
                                   trait |-> t[1]]]
      /\ flying = {} /\ mem = [s \in Session |-> NoSession]
  BY DEF Init
<1>2. \A t \in Token : /\ LiveIn(nft, t) <=> t[2] = First
                       /\ nft[t].trait = t[1]
                       /\ index[t].at = "user" => nft[t].at = "user"
  BY <1>1 DEF LiveIn
<1>3. \A s \in Session : ~Working(mem[s]) /\ mem[s].step # "rescuing"
  BY <1>1 DEF NoSession, Working
<1>4. ASSUME NEW n \in Edition, NEW x \in Edition
      PROVE  HomeIs(nft, mem, n, x) <=> x = n
  <2>1. HomeIs(nft, mem, n, x) <=> Sole(nft, n, x)
    BY <1>3, HomeOfUnclaimed DEF Claims
  <2>2. Sole(nft, n, n)
    <3>1. <<n, First>> \in Token /\ <<n, First>>[1] = n /\ <<n, First>>[2] = First
      BY TokenIsPair
    <3>2. \A u \in Token : u[1] = n /\ LiveIn(nft, u) => u = <<n, First>>
      BY <1>2, TokenIsPair
    <3>. QED BY <1>2, <3>1, <3>2 DEF Sole
  <2>. QED BY <2>1, <2>2 DEF Sole
<1>. QED BY <1>1, <1>2, <1>3, <1>4 DEF Traits, Kept, Claims

\* What did not run to plan stays so.
LEMMA DisturbedStays ==
  ASSUME [Next]_vars
  PROVE  disturbed => disturbed'
<1>1. ASSUME NEW s \in Session, NEW f \in Surface, NEW t \in Token, NEW u \in Token, Start(s, f, t, u)
      PROVE  disturbed => disturbed'
  BY <1>1 DEF Start
<1>2. ASSUME NEW s \in Session, PaymentSeen(s) \/ Cancel(s) \/ NoPayment(s) \/ PreCheck(s)
      PROVE  disturbed => disturbed'
  BY <1>2 DEF PaymentSeen, Cancel, NoPayment, PreCheck
<1>3. ASSUME NEW s \in Session, MintOne(s) \/ ModifyOne(s) PROVE disturbed => disturbed'
  BY <1>3 DEF MintOne, ModifyOne
<1>4. ASSUME NEW s \in Session, BurnStale(s) \/ BurnOne(s) PROVE disturbed => disturbed'
  BY <1>4 DEF BurnStale, BurnOne
<1>5. ASSUME NEW s \in Session, OfferOne(s) \/ Rescue(s) \/ UnwindOne(s)
      PROVE  disturbed => disturbed'
  BY <1>5 DEF OfferOne, Rescue, UnwindOne
<1>6. ASSUME NEW t \in Token, Accept(t) \/ Listen(t) PROVE disturbed => disturbed'
  BY <1>6 DEF Accept, Listen
<1>7. ASSUME NEW tx \in flying, Land(tx) PROVE disturbed => disturbed'
  BY <1>7 DEF Land
<1>8. CASE Restart
  BY <1>8 DEF Restart
<1>9. CASE UNCHANGED vars
  BY <1>9 DEF vars
<1>. QED BY <1>1, <1>2, <1>3, <1>4, <1>5, <1>6, <1>7, <1>8, <1>9 DEF Next, Task

LEMMA NextTraits ==
  ASSUME IInv, Traits, [Next]_vars
  PROVE  Traits'
<1>1. SUFFICES ASSUME ~disturbed' PROVE Kept'
  BY DEF Traits
<1>2. Kept
  <2>1. disturbed => disturbed'
    BY DisturbedStays
  <2>. QED BY <1>1, <2>1 DEF Traits
<1>3. ASSUME NEW s \in Session, NEW f \in Surface, NEW t \in Token, NEW u \in Token, Start(s, f, t, u)
      PROVE  Kept'
  BY <1>1, <1>2, <1>3, StartTraits
<1>4. ASSUME NEW s \in Session, PaymentSeen(s) \/ Cancel(s) \/ NoPayment(s) \/ PreCheck(s)
      PROVE  Kept'
  BY <1>2, <1>4, PaymentSeenTraits, WaitEndsTraits, PreCheckTraits
<1>5. ASSUME NEW s \in Session, MintOne(s) \/ ModifyOne(s) \/ BurnStale(s) \/ BurnOne(s)
      PROVE  Kept'
  BY <1>1, <1>2, <1>5, MintOneTraits, ModifyOneTraits, BurnStaleTraits, BurnOneTraits
<1>6. ASSUME NEW s \in Session, OfferOne(s) \/ Rescue(s) \/ UnwindOne(s)
      PROVE  Kept'
  <2>1. ~Rescue(s)
    BY <1>2 DEF Rescue, Kept
  <2>. QED BY <1>1, <1>2, <1>6, <2>1, OfferOneTraits, UnwindOneTraits
<1>7. ASSUME NEW t \in Token, Accept(t) \/ Listen(t)
      PROVE  Kept'
  BY <1>2, <1>7, AcceptTraits, ListenTraits
<1>8. ASSUME NEW tx \in flying, Land(tx)
      PROVE  Kept'
  BY <1>2, <1>8, LandTraits
<1>9. CASE Restart
  BY <1>1, <1>2, <1>9, RestartTraits
<1>10. CASE UNCHANGED vars
  BY <1>2, <1>10 DEF vars, Kept
<1>. QED BY <1>3, <1>4, <1>5, <1>6, <1>7, <1>8, <1>9, <1>10 DEF Next, Task

\* Where every edition's trait is, as long as swaps run to plan.
LEMMA HomesHold == Spec => [](IInv /\ Traits)
<1>1. Init => IInv /\ Traits
  BY InitEstablishes, InitTraits
<1>2. IInv /\ Traits /\ [Next]_vars => (IInv /\ Traits)'
  BY NextKeeps, NextTraits
<1>. QED BY <1>1, <1>2, PTL DEF Spec

\* With no session under way, and none that did not run to plan, every edition
\* has one token, and no two show the same trait: a swap exchanges traits.
THEOREM TraitsKept == Spec => []TraitsConserved
<1>1. IInv /\ Traits => TraitsConserved
  <2>1. SUFFICES ASSUME IInv, Kept, \A s \in Session : ~Active(s)
                 PROVE  /\ \A n \in Edition : \E t \in Token : t[1] = n /\ Live(t)
                        /\ \A t, u \in Token :
                             Live(t) /\ Live(u) /\ (t[1] = u[1] \/ nft[t].trait = nft[u].trait) => t = u
    BY DEF TraitsConserved, Traits
  <2>2. \A s \in Session : \A n : ~Claims(mem[s], n)
    BY <2>1 DEF Active, Claims, Working
  <2>3. \A n, x \in Edition : HomeIs(nft, mem, n, x) <=> Sole(nft, n, x)
    BY <2>2, HomeOfUnclaimed
  <2>4. \A n \in Edition : \E x \in Edition : Sole(nft, n, x)
    BY <2>1, <2>3 DEF Kept
  <2>5. \A t \in Token : Live(t) <=> LiveIn(nft, t)
    BY DEF Live, LiveIn
  <2>6. ASSUME NEW t \in Token, Live(t)
        PROVE  /\ t[1] \in Edition /\ nft[t].trait \in Edition /\ Sole(nft, t[1], nft[t].trait)
               /\ \A u \in Token : u[1] = t[1] /\ Live(u) => u = t
    <3>1. t[1] \in Edition
      BY TokenIsPair
    <3>2. PICK x \in Edition : Sole(nft, t[1], x)
      BY <2>4, <3>1
    <3>. QED BY <2>5, <2>6, <3>1, <3>2 DEF Sole
  <2>7. ASSUME NEW t \in Token, NEW u \in Token, Live(t), Live(u), nft[t].trait = nft[u].trait
        PROVE  t = u
    <3>1. t[1] = u[1]
      BY <2>1, <2>3, <2>6, <2>7 DEF Kept
    <3>. QED BY <2>6, <2>7, <3>1
  <2>8. \A n \in Edition : \E t \in Token : t[1] = n /\ Live(t)
    BY <2>4, <2>5 DEF Sole
  <2>. QED BY <2>6, <2>7, <2>8
<1>. QED BY <1>1, HomesHold, PTL
=============================================================================
