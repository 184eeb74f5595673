------------------------- MODULE OrderAttempts_proofs -------------------------
(***************************************************************************)
(* Proofs about OrderAttempts, for any number of attempts, orders, passes  *)
(* and days, any cap, any order size.  The inductive invariant is IInv of  *)
(* OrderInvariant.  Its Core is preserved process by process, its          *)
(* SlotAccounting by counting the attempts that hold a slot of a day; the  *)
(* safety properties of OrderAttempts follow from it, and with it every    *)
(* step maps to a step of OrderContract.                                   *)
(***************************************************************************)
EXTENDS OrderInvariant, FiniteSetTheorems, TLAPS

-----------------------------------------------------------------------------
(* Passes.                                                                *)

\* A pass record holds what it was built from.
LEMMA DoingTyped ==
  ASSUME NEW s \in Stages, NEW a \in Attempts, NEW n \in Shares, NEW t \in BOOLEAN
  PROVE  /\ Doing(s, a, n, t) \in Passes
         /\ Doing(s, a, n, t).at = s
         /\ Doing(s, a, n, t).attempt = a
         /\ Doing(s, a, n, t).total = n
         /\ Doing(s, a, n, t).terminal = t
  BY DEF Doing, Passes

\* A pass record at the start of a stage.
LEMMA AtTyped ==
  ASSUME NEW a \in Attempts, NEW s \in Stages
  PROVE  At(s, a) \in Passes /\ At(s, a).at = s /\ At(s, a).attempt = a
  BY SizeAssumption DEF At, Doing, Passes, Shares

\* The idle pass is a pass.
LEMMA IdleTyped == Idle \in Passes /\ Idle.at = "idle"
  BY SizeAssumption DEF Idle, At, Doing, Passes, Stages, Shares

\* Replacing one pass by a well-formed one keeps the passes well formed.
LEMMA PassTyped ==
  ASSUME PassTypes, NEW p \in Workers, NEW r \in Passes,
         r.at # "idle" => r.attempt \in Attempts, pass' = [pass EXCEPT ![p] = r]
  PROVE  PassTypes'
  BY DEF PassTypes

\* A step that replaces one pass keeps PassOK if the new pass knows what it
\* must, and what the other passes know stays true.
LEMMA PassKnows ==
  ASSUME Core, NEW p \in Workers, NEW r \in Passes, pass' = [pass EXCEPT ![p] = r],
         r.at # "idle" => r.attempt \in Attempts, Knows(r)',
         \A q \in Workers \ {p} : Knows(pass[q]) => Knows(pass[q])'
  PROVE  PassTypes' /\ PassOK'
  <1>1. PassTypes' BY PassTyped DEF Core, TypeOK
  <1>2. \A q \in Workers : q # p => pass'[q] = pass[q] BY DEF Core, TypeOK, PassTypes
  <1>3. pass'[p] = r BY DEF Core, TypeOK, PassTypes
  <1>4. ASSUME NEW q \in Workers PROVE Knows(pass[q])'
    <2>1. CASE q = p BY <1>3, <2>1 DEF Knows, FloorCovers, Settled
    <2>2. CASE q # p 
      <3>1. Knows(pass[q]) BY DEF Core, PassOK
      <3>2. pass'[q] = pass[q] BY <1>2, <2>2
      <3> QED BY <2>2, <3>1, <3>2 
    <2> QED BY <2>1, <2>2
  <1> QED BY <1>1, <1>4 DEF PassOK

\* What the exchange answers a probe is true until it is booked: a match is
\* final, so a terminal total stays the total.
LEMMA ProbeKnows == ASSUME Core, NEW p \in Workers, Probe(p) PROVE PassTypes' /\ PassOK'
  <1>1. PICK a \in Attempts : a = pass[p].attempt
    BY DEF Probe, Core, TypeOK, PassTypes
  <1>2. PICK o \in Orders : o = ext[a] /\ hash[a] = o
     BY <1>1 DEF Probe, Core, TypeOK, RowTypes, BindingOK
  <1>3. indexed[o] \in Nat /\ matched[o] \in Nat /\ indexed[o] <= matched[o]
     BY <1>2, SizeAssumption DEF Core, TypeOK, OrderOK, OrderTypes, Shares
  <1>4. PICK n \in Shares, t \in BOOLEAN :
         /\ \/ readable[o] /\ phase[o] = "done" /\ n = matched[o] /\ n = indexed[o] /\ t
            \/ n > 0 /\ n = indexed[o] /\ (t => Settled(o))
         /\ pass' = [pass EXCEPT ![p] = Doing("book", a, n, t)]
    BY <1>1, <1>2 DEF Probe
  <1>5. n <= matched[o] /\ (t \/ n = 0 => phase[o] = "done" /\ n = matched[o])
    BY <1>2, <1>3, <1>4 DEF Settled, Core, OrderOK
  <1>6. PICK r \in Passes : /\ r = Doing("book", a, n, t)
                            /\ r.at = "book" /\ r.attempt = a /\ r.total = n /\ r.terminal = t
    BY DoingTyped DEF Stages
  <1>7. UNCHANGED <<hash, ext, request, browser, phase, indexed, matched, booked>>
    BY DEF Probe, rowVars, orderVars
  <1>8. Knows(r)'
    BY <1>2, <1>5, <1>6, <1>7, NoneAssumption DEF Knows
  <1>9. \A q \in Workers \ {p} : Knows(pass[q]) => Knows(pass[q])'
    BY <1>4, <1>7 DEF Core, TypeOK, PassTypes, Knows, FloorCovers, Settled
  <1> QED BY <1>4, <1>6, <1>8, <1>9, PassKnows

\* Booking leaves the pass with a total the ledger now holds, and no other
\* pass knows less for it, since what is booked only grows.
LEMMA BookKnows == ASSUME Core, NEW p \in Workers, Book(p) PROVE PassTypes' /\ PassOK'
  <1>1. PICK a \in Attempts, n \in Shares, t \in BOOLEAN :
            a = pass[p].attempt /\ n = pass[p].total /\ t = (pass[p].terminal /\ booked[a] = n)
    BY DEF Book, Core, TypeOK, PassTypes, Passes
  <1>2. hash[a] # None /\ ext[a] # None /\ n <= matched[hash[a]]
         /\ (t => phase[hash[a]] = "done" /\ n = matched[hash[a]])
    BY <1>1 DEF Book, Core, PassOK, Knows
  <1>3. n \in Nat /\ booked[a] \in Nat BY SizeAssumption DEF Core, TypeOK, RowTypes, Shares
  <1>4. UNCHANGED <<hash, ext, request, browser, phase, indexed, matched>>
    BY DEF Book, rowVars, orderVars
  <1>5. \A b \in Attempts : booked'[b] >= booked[b]
    BY <1>1, <1>3, SizeAssumption DEF Book, BookTotal, Core, TypeOK, RowTypes, Shares
  <1>6. booked' \in [Attempts -> Nat]
    BY <1>1, SizeAssumption DEF Book, BookTotal, Core, TypeOK, RowTypes, Shares
  <1>7. ASSUME NEW q \in Workers \ {p}, Knows(pass[q]) PROVE Knows(pass[q])'
    <2>1. pass'[q] = pass[q]
      BY DEF Book, EndPass, Core, TypeOK, PassTypes
    <2>2. pass[q].at = "fees" => pass[q].total <= booked'[pass[q].attempt]
      <3>1. SUFFICES ASSUME pass[q].at = "fees" PROVE pass[q].total <= booked'[pass[q].attempt]
        OBVIOUS
      <3>2. PICK b \in Attempts, m \in Nat : b = pass[q].attempt /\ m = pass[q].total
        BY <3>1, SizeAssumption DEF Core, TypeOK, PassTypes, Passes, Shares
      <3>3. m <= booked[b] /\ booked[b] \in Nat /\ booked'[b] \in Nat
        BY <1>7, <3>1, <3>2, <1>6, SizeAssumption DEF Knows, Core, TypeOK, RowTypes, Shares
      <3> QED BY <1>5, <3>2, <3>3
    <2> QED BY <1>4, <1>7, <2>1, <2>2 DEF Knows, FloorCovers, Settled
  <1>8. CASE n = 0
    <2>1. pass' = [pass EXCEPT ![p] = Idle] BY <1>1, <1>8 DEF Book, EndPass
    <2>2. Knows(Idle)' BY IdleTyped DEF Knows
    <2> QED BY <1>7, <2>1, <2>2, IdleTyped, PassKnows
  <1>9. CASE n > 0
    <2>1. pass' = [pass EXCEPT ![p] = Doing("fees", a, n, t)] /\ booked'[a] >= n
      BY <1>1, <1>3, <1>9 DEF Book, BookTotal, Core, TypeOK, RowTypes
    <2>2. PICK r \in Passes : /\ r = Doing("fees", a, n, t)
                              /\ r.at = "fees" /\ r.attempt = a /\ r.total = n /\ r.terminal = t
      BY DoingTyped DEF Stages
    <2>3. Knows(r)' BY <1>2, <1>4, <1>9, <2>1, <2>2 DEF Knows
    <2> QED BY <1>7, <2>1, <2>2, <2>3, PassKnows
  <1> QED BY <1>3, <1>8, <1>9

\* A pass goes on to probe only a row that is bound.
LEMMA AdoptKnows == ASSUME Core, NEW p \in Workers, Adopt(p) PROVE PassTypes' /\ PassOK'
  <1>1. PICK a \in Attempts : a = pass[p].attempt
    BY DEF Adopt, Core, TypeOK, PassTypes
  <1>2. UNCHANGED <<hash, request, browser, phase, indexed, matched, booked>>
    BY DEF Adopt, rowVars, orderVars
  <1>3. hash[a] # None BY <1>1 DEF Adopt, Core, PassOK, Knows
  <1>4. \A b \in Attempts : ext[b] # None => ext'[b] # None
    BY <1>1, <1>3 DEF Adopt, Core, TypeOK, RowTypes
  <1>5. PICK r \in {At("probe", a), Idle} :
           pass' = [pass EXCEPT ![p] = r] /\ (r # Idle => ext'[a] # None)
    BY <1>1, <1>3 DEF Adopt, Core, TypeOK, RowTypes
  <1>6. /\ r \in Passes /\ (r.at # "idle" => r.attempt = a)
        /\ r # Idle => r.at = "probe"
        /\ r = Idle => r.at = "idle"
    BY AtTyped, IdleTyped DEF Stages
  <1>7. Knows(r)' BY <1>2, <1>3, <1>5, <1>6 DEF Knows
  <1>8. ASSUME NEW q \in Workers \ {p}, Knows(pass[q]) PROVE Knows(pass[q])'
    BY <1>2, <1>4, <1>5, <1>8 DEF Core, TypeOK, PassTypes, Passes, Knows, FloorCovers,
      Settled
  <1> QED BY <1>5, <1>6, <1>7, <1>8, PassKnows

\* The stamp is only set on a row that holds all that matched.
LEMMA TrueUpBooked == ASSUME Core, NEW p \in Workers, TrueUp(p) PROVE BookedOK'
  <1>1. PICK a \in Attempts : a = pass[p].attempt /\ hash[a] \in Orders
    BY DEF TrueUp, Core, TypeOK, PassTypes, RowTypes, PassOK, Knows
  <1>2. booked[a] <= matched[hash[a]] /\ booked[a] \in Nat /\ matched[hash[a]] \in Nat
    BY <1>1, SizeAssumption, NoneAssumption DEF Core, TypeOK, BookedOK, RowTypes,
      OrderTypes, Shares, Charged
  <1>3. pass[p].terminal => booked[a] = Charged(a)
    <2>1. Knows(pass[p]) /\ pass[p].at = "fees" BY DEF TrueUp, Core, PassOK
    <2>2. pass[p].terminal => matched[hash[a]] <= booked[a] BY <1>1, <2>1 DEF Knows
    <2> QED BY <1>1, <1>2, <2>2, NoneAssumption DEF Charged
  <1>4. UNCHANGED <<booked, hash, matched, state>>
    BY DEF TrueUp, rowVars, orderVars
  <1>5. \A b \in Attempts : final'[b] => final[b] \/ (b = a /\ pass[p].terminal /\ state[a] \in Booked)
    BY <1>1 DEF TrueUp, Core, TypeOK, RowTypes
  <1> QED BY <1>1, <1>3, <1>4, <1>5 DEF Core, BookedOK, Charged

\* Giving a slot back keeps the counter a natural number within the cap.
LEMMA Releases ==
  ASSUME Core, NEW a \in Attempts, state[a] # "NONE", ReleaseSlotOf(a), UNCHANGED <<today, paper>>
  PROVE  CounterTypes' /\ CapOK'
  <1>1. PICK d \in Days : d = intent[a].day BY DEF Core, TypeOK, RowTypes, Intents
  <1>2. CASE swipes' = swipes BY <1>2 DEF Core, TypeOK, CounterTypes, CapOK
  <1>3. CASE swipes' = Released(d)
    BY <1>3, CapAssumption DEF Core, TypeOK, CounterTypes, CapOK, Released
  <1> QED BY <1>1, <1>2, <1>3 DEF ReleaseSlotOf

-----------------------------------------------------------------------------
(* The inductive step, process by process.                                *)

\* The submit request keeps the invariant.
LEMMA SubmitKeepsCore ==
  ASSUME Core, NEW a \in Attempts, SubmitStep(a)
  PROVE  Core'
<1> USE SizeAssumption, DaysAssumption, NoneAssumption, CapAssumption
<1>1. ASSUME NEW o \in Orders, SubmitClaim(a, o) PROVE Core'
  <2>1. RowTypes'
    BY <1>1 DEF Core, TypeOK, SubmitClaim, Unclaimed, WithinCap, RowTypes, States
  <2>2. CounterTypes'
    BY <1>1 DEF Core, TypeOK, SubmitClaim, Unclaimed, WithinCap, CounterTypes, RowTypes,
      Intents
  <2>3. ClientTypes'
    BY <1>1 DEF Core, TypeOK, SubmitClaim, Unclaimed, WithinCap, ClientTypes
  <2>4. OrderOK'
    BY <1>1 DEF Core, TypeOK, SubmitClaim, Unclaimed, WithinCap, OrderOK, HolderOK,
      orderVars
  <2>5. BindingOK'
    BY <1>1 DEF Core, TypeOK, SubmitClaim, WithinCap, Unclaimed, BindingOK
  <2>6. HolderOK'
    BY <1>1 DEF Core, TypeOK, SubmitClaim, WithinCap, Unclaimed, HolderOK, RowTypes,
      OrderOK, orderVars
  <2>7. MarkerOK'
    BY <1>1 DEF Core, TypeOK, SubmitClaim, Unclaimed, WithinCap, MarkerOK, FloorCovers,
      Settled, orderVars
  <2>8. BookedOK'
    BY <1>1 DEF Core, TypeOK, SubmitClaim, Unclaimed, WithinCap, BookedOK, Charged, Booked,
      Shares, RowTypes, OrderTypes, orderVars
  <2>9. PassOK'
    BY <1>1 DEF Core, TypeOK, SubmitClaim, Unclaimed, WithinCap, PassOK, Knows, FloorCovers,
      Settled, HolderOK, orderVars
  <2>10. NoMoneyLost'
    BY <1>1 DEF Core, TypeOK, SubmitClaim, Unclaimed, WithinCap, NoMoneyLost, Charged,
      orderVars
  <2>11. CapOK'
    BY <1>1 DEF Core, TypeOK, SubmitClaim, Unclaimed, WithinCap, CapOK
  <2>12. OrderTypes' /\ PassTypes'
    BY <1>1 DEF Core, TypeOK, SubmitClaim, rowVars, orderVars, counterVars, OrderTypes,
      PassTypes
  <2> QED BY <2>1, <2>2, <2>3, <2>4, <2>5, <2>6, <2>7, <2>8, <2>9, <2>10, <2>11, <2>12
    DEF Core, TypeOK
<1>2. ASSUME SubmitRollback(a) PROVE Core'
  <2>1. RowTypes'
    BY <1>2 DEF Core, TypeOK, SubmitRollback, RowTypes, States
  <2>2. CounterTypes'
    <3>1. CASE ReleaseSlotOf(a) /\ state[a] # "NONE" /\ UNCHANGED <<today, paper>>
      BY <3>1, Releases
    <3>2. CASE UNCHANGED <<swipes, today, paper>>
      BY <3>2 DEF Core, TypeOK, CounterTypes
    <3> QED BY <1>2, <3>1, <3>2 DEF SubmitRollback
  <2>3. ClientTypes'
    BY <1>2 DEF Core, TypeOK, SubmitRollback, ClientTypes
  <2>4. OrderOK'
    BY <1>2 DEF Core, TypeOK, SubmitRollback, OrderOK, RowTypes, HolderOK, orderVars
  <2>5. BindingOK'
    BY <1>2 DEF Core, TypeOK, SubmitRollback, RowTypes, BindingOK
  <2>6. HolderOK'
    BY <1>2 DEF Core, TypeOK, SubmitRollback, HolderOK, RowTypes, ClientTypes, orderVars
  <2>7. MarkerOK'
    BY <1>2 DEF Core, TypeOK, SubmitRollback, MarkerOK, FloorCovers, Settled, RowTypes,
      orderVars
  <2>8. BookedOK'
    BY <1>2 DEF Core, TypeOK, SubmitRollback, BookedOK, Charged, Booked, Shares, RowTypes,
      orderVars
  <2>9. PassOK'
    BY <1>2 DEF Core, TypeOK, SubmitRollback, PassOK, Knows, FloorCovers, Settled, RowTypes,
      PassTypes, Passes, Stages, BindingOK, orderVars, counterVars
  <2>10. NoMoneyLost'
    BY <1>2 DEF Core, TypeOK, SubmitRollback, NoMoneyLost, Charged, RowTypes, orderVars
  <2>11. CapOK'
    <3>1. CASE ReleaseSlotOf(a) /\ state[a] # "NONE" /\ UNCHANGED <<today, paper>>
      BY <3>1, Releases
    <3>2. CASE UNCHANGED <<swipes, today, paper>>
      BY <3>2 DEF Core, TypeOK, CapOK
    <3> QED BY <1>2, <3>1, <3>2 DEF SubmitRollback
  <2>12. OrderTypes' /\ PassTypes'
    BY <1>2 DEF Core, TypeOK, SubmitRollback, rowVars, orderVars, counterVars, OrderTypes,
      PassTypes
  <2> QED BY <2>1, <2>2, <2>3, <2>4, <2>5, <2>6, <2>7, <2>8, <2>9, <2>10, <2>11, <2>12
    DEF Core, TypeOK
<1>3. ASSUME SubmitApprove(a) PROVE Core'
  <2>1. ClientTypes'
    BY <1>3 DEF Core, TypeOK, SubmitApprove, ClientTypes
  <2>2. HolderOK'
    BY <1>3 DEF Core, TypeOK, SubmitApprove, HolderOK, ClientTypes, rowVars, orderVars
  <2>3. MarkerOK'
    BY <1>3 DEF Core, TypeOK, SubmitApprove, MarkerOK, FloorCovers, Settled, rowVars,
      orderVars
  <2>4. PassOK'
    BY <1>3 DEF Core, TypeOK, SubmitApprove, PassOK, Knows, FloorCovers, Settled, rowVars,
      orderVars
  <2>5. NoMoneyLost'
    BY <1>3 DEF Core, TypeOK, SubmitApprove, NoMoneyLost, Charged, rowVars, orderVars
  <2>6. /\ RowTypes' /\ OrderTypes' /\ PassTypes' /\ CounterTypes'
       /\ OrderOK' /\ BindingOK' /\ BookedOK' /\ CapOK'
    BY <1>3 DEF Core, TypeOK, SubmitApprove, rowVars, orderVars, counterVars, RowTypes,
      OrderTypes, PassTypes, CounterTypes, OrderOK, BindingOK, BookedOK, Charged, CapOK
  <2> QED BY <2>1, <2>2, <2>3, <2>4, <2>5, <2>6 DEF Core, TypeOK
<1>4. ASSUME SubmitPost(a) PROVE Core'
  <2>1. OrderTypes'
    BY <1>4 DEF Core, TypeOK, SubmitPost, OrderTypes
  <2>2. ClientTypes'
    BY <1>4 DEF Core, TypeOK, SubmitPost, ClientTypes
  <2>3. OrderOK'
    BY <1>4 DEF Core, TypeOK, SubmitPost, OrderOK, HolderOK, rowVars
  <2>4. HolderOK'
    BY <1>4 DEF Core, TypeOK, SubmitPost, HolderOK, RowTypes, OrderTypes, BindingOK,
      ClientTypes, rowVars
  <2>5. MarkerOK'
    BY <1>4 DEF Core, TypeOK, SubmitPost, MarkerOK, FloorCovers, Settled, HolderOK,
      BindingOK, rowVars
  <2>6. PassOK'
    BY <1>4 DEF Core, TypeOK, SubmitPost, PassOK, Knows, FloorCovers, Settled, PassTypes,
      HolderOK, BindingOK, rowVars
  <2>7. NoMoneyLost'
    BY <1>4 DEF Core, TypeOK, SubmitPost, NoMoneyLost, Charged, BindingOK, rowVars
  <2>8. RowTypes' /\ PassTypes' /\ CounterTypes' /\ BindingOK' /\ BookedOK' /\ CapOK'
    BY <1>4 DEF Core, TypeOK, SubmitPost, rowVars, orderVars, counterVars, RowTypes,
      PassTypes, CounterTypes, BindingOK, BookedOK, Charged, CapOK
  <2> QED BY <2>1, <2>2, <2>3, <2>4, <2>5, <2>6, <2>7, <2>8 DEF Core, TypeOK
<1>5. ASSUME SubmitRefused(a) PROVE Core'
  <2>1. RowTypes'
    BY <1>5 DEF Core, TypeOK, SubmitRefused, RowTypes, States
  <2>2. OrderTypes'
    BY <1>5 DEF Core, TypeOK, SubmitRefused, OrderTypes
  <2>3. CounterTypes'
    <3>1. CASE ReleaseSlotOf(a) /\ state[a] # "NONE" /\ UNCHANGED <<today, paper>>
      BY <3>1, Releases
    <3>2. CASE UNCHANGED <<swipes, today, paper>>
      BY <3>2 DEF Core, TypeOK, CounterTypes
    <3> QED BY <1>5, <3>1, <3>2 DEF SubmitRefused
  <2>4. ClientTypes'
    BY <1>5 DEF Core, TypeOK, SubmitRefused, ClientTypes
  <2>5. OrderOK'
    BY <1>5 DEF Core, TypeOK, SubmitRefused, OrderOK
  <2>6. BindingOK'
    BY <1>5 DEF Core, TypeOK, SubmitRefused, BindingOK, RowTypes
  <2>7. HolderOK'
    BY <1>5 DEF Core, TypeOK, SubmitRefused, HolderOK, RowTypes, ClientTypes
  <2>8. MarkerOK'
    BY <1>5 DEF Core, TypeOK, SubmitRefused, MarkerOK, FloorCovers, Settled, RowTypes
  <2>9. BookedOK'
    BY <1>5 DEF Core, TypeOK, SubmitRefused, BookedOK, Charged, Booked, RowTypes
  <2>10. PassOK'
    BY <1>5 DEF Core, TypeOK, SubmitRefused, PassOK, Knows, FloorCovers, Settled
  <2>11. NoMoneyLost'
    BY <1>5 DEF Core, TypeOK, SubmitRefused, NoMoneyLost, Charged, RowTypes, Shares,
      OrderTypes, HolderOK, OrderOK
  <2>12. CapOK'
    <3>1. CASE ReleaseSlotOf(a) /\ state[a] # "NONE" /\ UNCHANGED <<today, paper>>
      BY <3>1, Releases
    <3>2. CASE UNCHANGED <<swipes, today, paper>>
      BY <3>2 DEF Core, TypeOK, CapOK
    <3> QED BY <1>5, <3>1, <3>2 DEF SubmitRefused
  <2>13. PassTypes'
    BY <1>5 DEF Core, TypeOK, SubmitRefused, rowVars, orderVars, counterVars, PassTypes
  <2> QED BY <2>1, <2>2, <2>3, <2>4, <2>5, <2>6, <2>7, <2>8, <2>9, <2>10, <2>11, <2>12,
    <2>13 DEF Core, TypeOK
<1>6. ASSUME SubmitAmbiguous(a) PROVE Core'
  <2>1. RowTypes'
    BY <1>6 DEF Core, TypeOK, SubmitAmbiguous, RowTypes
  <2>2. ClientTypes'
    BY <1>6 DEF Core, TypeOK, SubmitAmbiguous, ClientTypes
  <2>3. HolderOK'
    BY <1>6 DEF Core, TypeOK, SubmitAmbiguous, HolderOK, orderVars
  <2>4. MarkerOK'
    BY <1>6 DEF Core, TypeOK, SubmitAmbiguous, MarkerOK, FloorCovers, Settled, orderVars
  <2>5. PassOK'
    BY <1>6 DEF Core, TypeOK, SubmitAmbiguous, PassOK, Knows, FloorCovers, Settled,
      orderVars
  <2>6. NoMoneyLost'
    BY <1>6 DEF Core, TypeOK, SubmitAmbiguous, NoMoneyLost, Charged, orderVars
  <2>7. /\ OrderTypes' /\ PassTypes' /\ CounterTypes' /\ OrderOK'
       /\ BindingOK' /\ BookedOK' /\ CapOK'
    BY <1>6 DEF Core, TypeOK, SubmitAmbiguous, rowVars, orderVars, counterVars, OrderTypes,
      PassTypes, CounterTypes, OrderOK, BindingOK, BookedOK, Charged, CapOK
  <2> QED BY <2>1, <2>2, <2>3, <2>4, <2>5, <2>6, <2>7 DEF Core, TypeOK
<1>7. ASSUME SubmitAccepted(a) PROVE Core'
  <2>1. RowTypes'
    BY <1>7 DEF Core, TypeOK, SubmitAccepted, WritePosted, RowTypes, States
  <2>2. ClientTypes'
    BY <1>7 DEF Core, TypeOK, SubmitAccepted, ClientTypes
  <2>3. BindingOK'
    BY <1>7 DEF Core, TypeOK, SubmitAccepted, WritePosted, BindingOK, RowTypes
  <2>4. HolderOK'
    BY <1>7 DEF Core, TypeOK, SubmitAccepted, WritePosted, HolderOK, RowTypes, ClientTypes,
      orderVars
  <2>5. MarkerOK'
    BY <1>7 DEF Core, TypeOK, SubmitAccepted, WritePosted, MarkerOK, FloorCovers, Settled,
      RowTypes, ClientTypes, orderVars
  <2>6. BookedOK'
    BY <1>7 DEF Core, TypeOK, SubmitAccepted, WritePosted, BookedOK, Charged, Booked,
      RowTypes, orderVars
  <2>7. PassOK'
    BY <1>7 DEF Core, TypeOK, SubmitAccepted, WritePosted, PassOK, Knows, FloorCovers,
      Settled, RowTypes, PassTypes, BindingOK, HolderOK, ClientTypes, orderVars
  <2>8. NoMoneyLost'
    BY <1>7 DEF Core, TypeOK, SubmitAccepted, WritePosted, NoMoneyLost, Charged, RowTypes,
      ClientTypes, orderVars
  <2>9. OrderTypes' /\ PassTypes' /\ CounterTypes' /\ OrderOK' /\ CapOK'
    BY <1>7 DEF Core, TypeOK, SubmitAccepted, rowVars, orderVars, counterVars, OrderTypes,
      PassTypes, CounterTypes, OrderOK, CapOK
  <2> QED BY <2>1, <2>2, <2>3, <2>4, <2>5, <2>6, <2>7, <2>8, <2>9 DEF Core, TypeOK
<1>8. ASSUME SubmitRejected(a) PROVE Core'
  <2>1. RowTypes'
    BY <1>8 DEF Core, TypeOK, SubmitRejected, WritePosted, RowTypes, States
  <2>2. OrderTypes'
    BY <1>8 DEF Core, TypeOK, SubmitRejected, OrderTypes
  <2>3. ClientTypes'
    BY <1>8 DEF Core, TypeOK, SubmitRejected, ClientTypes
  <2>4. OrderOK'
    BY <1>8 DEF Core, TypeOK, SubmitRejected, OrderOK
  <2>5. BindingOK'
    BY <1>8 DEF Core, TypeOK, SubmitRejected, WritePosted, BindingOK, RowTypes
  <2>6. HolderOK'
    BY <1>8 DEF Core, TypeOK, SubmitRejected, WritePosted, HolderOK, RowTypes, OrderTypes,
      ClientTypes
  <2>7. MarkerOK'
    BY <1>8 DEF Core, TypeOK, SubmitRejected, WritePosted, MarkerOK, FloorCovers, Settled,
      RowTypes
  <2>8. BookedOK'
    BY <1>8 DEF Core, TypeOK, SubmitRejected, WritePosted, BookedOK, Charged, Booked,
      RowTypes
  <2>9. PassOK'
    BY <1>8 DEF Core, TypeOK, SubmitRejected, WritePosted, PassOK, Knows, FloorCovers,
      Settled, RowTypes, BindingOK
  <2>10. NoMoneyLost'
    BY <1>8 DEF Core, TypeOK, SubmitRejected, WritePosted, NoMoneyLost, Charged, RowTypes
  <2>11. PassTypes' /\ CounterTypes' /\ CapOK'
    BY <1>8 DEF Core, TypeOK, SubmitRejected, rowVars, orderVars, counterVars, PassTypes,
      CounterTypes, CapOK
  <2> QED BY <2>1, <2>2, <2>3, <2>4, <2>5, <2>6, <2>7, <2>8, <2>9, <2>10, <2>11 DEF Core,
    TypeOK
<1>9. ASSUME SubmitBook(a) PROVE Core'
  <2>1. RowTypes'
    BY <1>9 DEF Core, TypeOK, SubmitBook, BookTotal, Label, RowTypes, States, OrderTypes,
      HolderOK
  <2>2. ClientTypes'
    BY <1>9 DEF Core, TypeOK, SubmitBook, ClientTypes
  <2>3. BindingOK'
    BY <1>9 DEF Core, TypeOK, SubmitBook, BookTotal, Label, BindingOK, RowTypes
  <2>4. HolderOK'
    BY <1>9 DEF Core, TypeOK, SubmitBook, BookTotal, Label, HolderOK, RowTypes, orderVars
  <2>5. MarkerOK'
    BY <1>9 DEF Core, TypeOK, SubmitBook, BookTotal, MarkerOK, FloorCovers, Settled,
      RowTypes, orderVars
  <2>6. BookedOK'
    BY <1>9 DEF Core, TypeOK, SubmitBook, BookTotal, Label, BookedOK, Charged, Booked,
      Shares, RowTypes, OrderTypes, HolderOK, orderVars
  <2>7. PassOK'
    BY <1>9 DEF Core, TypeOK, SubmitBook, BookTotal, PassOK, Knows, FloorCovers, Settled,
      RowTypes, PassTypes, orderVars
  <2>8. NoMoneyLost'
    BY <1>9 DEF Core, TypeOK, SubmitBook, BookTotal, Label, NoMoneyLost, Charged, RowTypes,
      orderVars
  <2>9. OrderTypes' /\ PassTypes' /\ CounterTypes' /\ OrderOK' /\ CapOK'
    BY <1>9 DEF Core, TypeOK, SubmitBook, rowVars, orderVars, counterVars, OrderTypes,
      PassTypes, CounterTypes, OrderOK, CapOK
  <2> QED BY <2>1, <2>2, <2>3, <2>4, <2>5, <2>6, <2>7, <2>8, <2>9 DEF Core, TypeOK
<1>10. ASSUME SubmitKill(a) PROVE Core'
  <2>1. RowTypes'
    BY <1>10 DEF Core, TypeOK, SubmitKill, Kill, RowTypes, States
  <2>2. CounterTypes'
    <3>1. CASE ReleaseSlotOf(a) /\ state[a] # "NONE" /\ UNCHANGED <<today, paper>>
      BY <3>1, Releases
    <3>2. CASE UNCHANGED <<swipes, today, paper>>
      BY <3>2 DEF Core, TypeOK, CounterTypes
    <3> QED BY <1>10, <3>1, <3>2 DEF SubmitKill, Kill
  <2>3. ClientTypes'
    BY <1>10 DEF Core, TypeOK, SubmitKill, ClientTypes
  <2>4. BindingOK'
    BY <1>10 DEF Core, TypeOK, SubmitKill, Kill, BindingOK, RowTypes
  <2>5. HolderOK'
    BY <1>10 DEF Core, TypeOK, SubmitKill, Kill, HolderOK, RowTypes, ClientTypes, orderVars
  <2>6. MarkerOK'
    BY <1>10 DEF Core, TypeOK, SubmitKill, Kill, MarkerOK, FloorCovers, Settled, RowTypes,
      orderVars
  <2>7. BookedOK'
    BY <1>10 DEF Core, TypeOK, SubmitKill, Kill, BookedOK, Charged, Booked, RowTypes,
      orderVars
  <2>8. PassOK'
    BY <1>10 DEF Core, TypeOK, SubmitKill, PassOK, Knows, FloorCovers, Settled, orderVars
  <2>9. NoMoneyLost'
    BY <1>10 DEF Core, TypeOK, SubmitKill, Kill, NoMoneyLost, Charged, RowTypes, Shares,
      OrderTypes, HolderOK, OrderOK, orderVars
  <2>10. CapOK'
    <3>1. CASE ReleaseSlotOf(a) /\ state[a] # "NONE" /\ UNCHANGED <<today, paper>>
      BY <3>1, Releases
    <3>2. CASE UNCHANGED <<swipes, today, paper>>
      BY <3>2 DEF Core, TypeOK, CapOK
    <3> QED BY <1>10, <3>1, <3>2 DEF SubmitKill, Kill
  <2>11. OrderTypes' /\ PassTypes' /\ OrderOK'
    BY <1>10 DEF Core, TypeOK, SubmitKill, rowVars, orderVars, counterVars, OrderTypes,
      PassTypes, OrderOK
  <2> QED BY <2>1, <2>2, <2>3, <2>4, <2>5, <2>6, <2>7, <2>8, <2>9, <2>10, <2>11 DEF Core,
    TypeOK
<1>11. ASSUME SubmitDies(a) PROVE Core'
  <2>1. ClientTypes'
    BY <1>11 DEF Core, TypeOK, SubmitDies, ClientTypes
  <2>2. HolderOK'
    BY <1>11 DEF Core, TypeOK, SubmitDies, HolderOK, rowVars, orderVars
  <2>3. MarkerOK'
    BY <1>11 DEF Core, TypeOK, SubmitDies, MarkerOK, FloorCovers, Settled, rowVars,
      orderVars
  <2>4. PassOK'
    BY <1>11 DEF Core, TypeOK, SubmitDies, PassOK, Knows, FloorCovers, Settled, rowVars,
      orderVars
  <2>5. NoMoneyLost'
    BY <1>11 DEF Core, TypeOK, SubmitDies, NoMoneyLost, Charged, rowVars, orderVars
  <2>6. /\ RowTypes' /\ OrderTypes' /\ PassTypes' /\ CounterTypes'
       /\ OrderOK' /\ BindingOK' /\ BookedOK' /\ CapOK'
    BY <1>11 DEF Core, TypeOK, SubmitDies, rowVars, orderVars, counterVars, RowTypes,
      OrderTypes, PassTypes, CounterTypes, OrderOK, BindingOK, BookedOK, Charged, CapOK
  <2> QED BY <2>1, <2>2, <2>3, <2>4, <2>5, <2>6 DEF Core, TypeOK
<1> QED BY <1>1, <1>2, <1>3, <1>4, <1>5, <1>6, <1>7, <1>8, <1>9, <1>10, <1>11 DEF SubmitStep

\* The phone keeps the invariant.
LEMMA BrowserKeepsCore ==
  ASSUME Core, NEW a \in Attempts, BrowserStep(a)
  PROVE  Core'
<1> USE SizeAssumption, DaysAssumption, NoneAssumption, CapAssumption
<1>1. ASSUME BrowserPost(a) PROVE Core'
  <2>1. OrderTypes'
    BY <1>1 DEF Core, TypeOK, BrowserPost, OrderTypes
  <2>2. ClientTypes'
    BY <1>1 DEF Core, TypeOK, BrowserPost, ClientTypes
  <2>3. OrderOK'
    BY <1>1 DEF Core, TypeOK, BrowserPost, OrderOK, HolderOK, rowVars
  <2>4. HolderOK'
    BY <1>1 DEF Core, TypeOK, BrowserPost, HolderOK, RowTypes, OrderTypes, BindingOK,
      ClientTypes, rowVars
  <2>5. MarkerOK'
    BY <1>1 DEF Core, TypeOK, BrowserPost, MarkerOK, FloorCovers, Settled, HolderOK,
      BindingOK, rowVars
  <2>6. PassOK'
    BY <1>1 DEF Core, TypeOK, BrowserPost, PassOK, Knows, FloorCovers, Settled, PassTypes,
      HolderOK, BindingOK, rowVars
  <2>7. NoMoneyLost'
    BY <1>1 DEF Core, TypeOK, BrowserPost, NoMoneyLost, Charged, BindingOK, rowVars
  <2>8. RowTypes' /\ PassTypes' /\ CounterTypes' /\ BindingOK' /\ BookedOK' /\ CapOK'
    BY <1>1 DEF Core, TypeOK, BrowserPost, rowVars, orderVars, counterVars, RowTypes,
      PassTypes, CounterTypes, BindingOK, BookedOK, Charged, CapOK
  <2> QED BY <2>1, <2>2, <2>3, <2>4, <2>5, <2>6, <2>7, <2>8 DEF Core, TypeOK
<1>2. ASSUME BrowserLearns(a) PROVE Core'
  <2>1. ClientTypes'
    BY <1>2 DEF Core, TypeOK, BrowserLearns, ClientTypes
  <2>2. HolderOK'
    BY <1>2 DEF Core, TypeOK, BrowserLearns, HolderOK, rowVars, orderVars
  <2>3. MarkerOK'
    BY <1>2 DEF Core, TypeOK, BrowserLearns, MarkerOK, FloorCovers, Settled, rowVars,
      orderVars
  <2>4. PassOK'
    BY <1>2 DEF Core, TypeOK, BrowserLearns, PassOK, Knows, FloorCovers, Settled, rowVars,
      orderVars
  <2>5. NoMoneyLost'
    BY <1>2 DEF Core, TypeOK, BrowserLearns, NoMoneyLost, Charged, rowVars, orderVars
  <2>6. /\ RowTypes' /\ OrderTypes' /\ PassTypes' /\ CounterTypes'
       /\ OrderOK' /\ BindingOK' /\ BookedOK' /\ CapOK'
    BY <1>2 DEF Core, TypeOK, BrowserLearns, rowVars, orderVars, counterVars, RowTypes,
      OrderTypes, PassTypes, CounterTypes, OrderOK, BindingOK, BookedOK, Charged, CapOK
  <2> QED BY <2>1, <2>2, <2>3, <2>4, <2>5, <2>6 DEF Core, TypeOK
<1>3. ASSUME BrowserQuits(a) PROVE Core'
  <2>1. ClientTypes'
    BY <1>3 DEF Core, TypeOK, BrowserQuits, ClientTypes
  <2>2. HolderOK'
    BY <1>3 DEF Core, TypeOK, BrowserQuits, HolderOK, rowVars, orderVars
  <2>3. MarkerOK'
    BY <1>3 DEF Core, TypeOK, BrowserQuits, MarkerOK, FloorCovers, Settled, rowVars,
      orderVars
  <2>4. PassOK'
    BY <1>3 DEF Core, TypeOK, BrowserQuits, PassOK, Knows, FloorCovers, Settled, rowVars,
      orderVars
  <2>5. NoMoneyLost'
    BY <1>3 DEF Core, TypeOK, BrowserQuits, NoMoneyLost, Charged, rowVars, orderVars
  <2>6. /\ RowTypes' /\ OrderTypes' /\ PassTypes' /\ CounterTypes'
       /\ OrderOK' /\ BindingOK' /\ BookedOK' /\ CapOK'
    BY <1>3 DEF Core, TypeOK, BrowserQuits, rowVars, orderVars, counterVars, RowTypes,
      OrderTypes, PassTypes, CounterTypes, OrderOK, BindingOK, BookedOK, Charged, CapOK
  <2> QED BY <2>1, <2>2, <2>3, <2>4, <2>5, <2>6 DEF Core, TypeOK
<1> QED BY <1>1, <1>2, <1>3 DEF BrowserStep

\* The exchange keeps the invariant.
LEMMA ExchangeKeepsCore ==
  ASSUME Core, NEW o \in Orders, ExchangeStep(o)
  PROVE  Core'
<1> USE SizeAssumption, DaysAssumption, NoneAssumption, CapAssumption
<1>1. ASSUME Accept(o) PROVE Core'
  <2>1. OrderTypes'
    BY <1>1 DEF Core, TypeOK, Accept, OrderTypes
  <2>2. OrderOK'
    BY <1>1 DEF Core, TypeOK, Accept, OrderOK, OrderTypes, rowVars
  <2>3. HolderOK'
    BY <1>1 DEF Core, TypeOK, Accept, HolderOK, rowVars
  <2>4. MarkerOK'
    BY <1>1 DEF Core, TypeOK, Accept, MarkerOK, FloorCovers, Settled, rowVars
  <2>5. PassOK'
    BY <1>1 DEF Core, TypeOK, Accept, PassOK, Knows, FloorCovers, Settled, rowVars
  <2>6. NoMoneyLost'
    BY <1>1 DEF Core, TypeOK, Accept, NoMoneyLost, Charged, rowVars
  <2>7. /\ RowTypes' /\ PassTypes' /\ CounterTypes' /\ ClientTypes'
       /\ BindingOK' /\ BookedOK' /\ CapOK'
    BY <1>1 DEF Core, TypeOK, Accept, rowVars, orderVars, counterVars, RowTypes, PassTypes,
      CounterTypes, ClientTypes, BindingOK, BookedOK, Charged, CapOK
  <2> QED BY <2>1, <2>2, <2>3, <2>4, <2>5, <2>6, <2>7 DEF Core, TypeOK
<1>2. ASSUME Drop(o) PROVE Core'
  <2>1. OrderTypes'
    BY <1>2 DEF Core, TypeOK, Drop, OrderTypes
  <2>2. OrderOK'
    BY <1>2 DEF Core, TypeOK, Drop, OrderOK, rowVars
  <2>3. HolderOK'
    BY <1>2 DEF Core, TypeOK, Drop, HolderOK, rowVars
  <2>4. MarkerOK'
    BY <1>2 DEF Core, TypeOK, Drop, MarkerOK, FloorCovers, Settled, rowVars
  <2>5. PassOK'
    BY <1>2 DEF Core, TypeOK, Drop, PassOK, Knows, FloorCovers, Settled, rowVars
  <2>6. NoMoneyLost'
    BY <1>2 DEF Core, TypeOK, Drop, NoMoneyLost, Charged, rowVars
  <2>7. /\ RowTypes' /\ PassTypes' /\ CounterTypes' /\ ClientTypes'
       /\ BindingOK' /\ BookedOK' /\ CapOK'
    BY <1>2 DEF Core, TypeOK, Drop, rowVars, orderVars, counterVars, RowTypes, PassTypes,
      CounterTypes, ClientTypes, BindingOK, BookedOK, Charged, CapOK
  <2> QED BY <2>1, <2>2, <2>3, <2>4, <2>5, <2>6, <2>7 DEF Core, TypeOK
<1>3. ASSUME Match(o) PROVE Core'
  <2>1. OrderTypes'
    BY <1>3 DEF Core, TypeOK, Match, OrderTypes
  <2>2. OrderOK'
    BY <1>3 DEF Core, TypeOK, Match, OrderOK, Shares, OrderTypes, rowVars
  <2>3. HolderOK'
    BY <1>3 DEF Core, TypeOK, Match, HolderOK, OrderOK, rowVars
  <2>4. MarkerOK'
    BY <1>3 DEF Core, TypeOK, Match, MarkerOK, FloorCovers, Settled, rowVars
  <2>5. BookedOK'
    BY <1>3 DEF Core, TypeOK, Match, BookedOK, Charged, Shares, RowTypes, OrderTypes,
      OrderOK, rowVars
  <2>6. PassOK'
    BY <1>3 DEF Core, TypeOK, Match, PassOK, Knows, FloorCovers, Settled, Shares,
      OrderTypes, PassTypes, Passes, OrderOK, rowVars
  <2>7. NoMoneyLost'
    BY <1>3 DEF Core, TypeOK, Match, NoMoneyLost, Charged, rowVars
  <2>8. RowTypes' /\ PassTypes' /\ CounterTypes' /\ ClientTypes' /\ BindingOK' /\ CapOK'
    BY <1>3 DEF Core, TypeOK, Match, rowVars, orderVars, counterVars, RowTypes, PassTypes,
      CounterTypes, ClientTypes, BindingOK, CapOK
  <2> QED BY <2>1, <2>2, <2>3, <2>4, <2>5, <2>6, <2>7, <2>8 DEF Core, TypeOK
<1>4. ASSUME Index(o) PROVE Core'
  <2>1. OrderTypes'
    BY <1>4 DEF Core, TypeOK, Index, OrderTypes, Shares
  <2>2. OrderOK'
    BY <1>4 DEF Core, TypeOK, Index, OrderOK, Shares, OrderTypes, rowVars
  <2>3. MarkerOK'
    BY <1>4 DEF Core, TypeOK, Index, MarkerOK, FloorCovers, Settled, Shares, OrderTypes,
      rowVars
  <2>4. PassOK'
    BY <1>4 DEF Core, TypeOK, Index, PassOK, Knows, FloorCovers, Settled, Shares,
      OrderTypes, rowVars
  <2>5. /\ RowTypes' /\ PassTypes' /\ CounterTypes' /\ ClientTypes' /\ BindingOK'
       /\ HolderOK' /\ BookedOK' /\ NoMoneyLost' /\ CapOK'
    BY <1>4 DEF Core, TypeOK, Index, rowVars, orderVars, counterVars, RowTypes, PassTypes,
      CounterTypes, ClientTypes, BindingOK, HolderOK, BookedOK, Charged, NoMoneyLost, CapOK
  <2> QED BY <2>1, <2>2, <2>3, <2>4, <2>5 DEF Core, TypeOK
<1> QED BY <1>1, <1>2, <1>3, <1>4 DEF ExchangeStep

\* A pass keeps the invariant: what it read is still true when it acts.
LEMMA PassKeepsCore ==
  ASSUME Core, NEW p \in Workers, PassStep(p)
  PROVE  Core'
<1> USE SizeAssumption, DaysAssumption, NoneAssumption, CapAssumption
<1>1. ASSUME NEW a \in Attempts, Report(p, a) PROVE Core'
  <2>1. RowTypes'
    BY <1>1 DEF Core, TypeOK, Report, RowTypes
  <2>2. PassTypes'
    BY <1>1 DEF Core, TypeOK, Report, StartPass, At, Doing, PassTypes, Passes, Stages,
      Shares
  <2>3. MarkerOK'
    BY <1>1 DEF Core, TypeOK, Report, MarkerOK, FloorCovers, Settled, RowTypes, HolderOK,
      orderVars
  <2>4. PassOK'
    BY <1>1 DEF Core, TypeOK, Report, StartPass, At, Doing, PassOK, Knows, FloorCovers,
      Settled, HolderOK, orderVars
  <2>5. /\ OrderTypes' /\ CounterTypes' /\ ClientTypes' /\ OrderOK' /\ BindingOK'
       /\ HolderOK' /\ BookedOK' /\ NoMoneyLost' /\ CapOK'
    BY <1>1 DEF Core, TypeOK, Report, StartPass, rowVars, orderVars, counterVars,
      OrderTypes, CounterTypes, ClientTypes, OrderOK, BindingOK, HolderOK, BookedOK,
      Charged, NoMoneyLost, CapOK
  <2> QED BY <2>1, <2>2, <2>3, <2>4, <2>5 DEF Core, TypeOK
<1>2. ASSUME NEW a \in Attempts, FastPass(p, a) PROVE Core'
  <2>1. PassTypes'
    BY <1>2 DEF Core, TypeOK, FastPass, StartPass, At, Doing, PassTypes, Passes, Stages,
      Shares
  <2>2. PassOK'
    BY <1>2 DEF Core, TypeOK, FastPass, StartPass, At, Doing, PassOK, Knows, FloorCovers,
      Settled, HolderOK, MarkerOK, rowVars, orderVars
  <2>3. /\ RowTypes' /\ OrderTypes' /\ CounterTypes' /\ ClientTypes' /\ OrderOK' /\ BindingOK'
       /\ HolderOK' /\ MarkerOK' /\ BookedOK' /\ NoMoneyLost' /\ CapOK'
    BY <1>2 DEF Core, TypeOK, FastPass, StartPass, rowVars, orderVars, counterVars,
      RowTypes, OrderTypes, CounterTypes, ClientTypes, OrderOK, BindingOK, HolderOK,
      MarkerOK, FloorCovers, Settled, BookedOK, Charged, NoMoneyLost, CapOK
  <2> QED BY <2>1, <2>2, <2>3 DEF Core, TypeOK
<1>3. ASSUME NEW a \in Attempts, OrphanLook(p, a) PROVE Core'
  <2>1. PassTypes'
    <3>1. PICK s \in {"orphan", "absent"} : pass' = [pass EXCEPT ![p] = At(s, a)]
      BY <1>3 DEF OrphanLook, StartPass
    <3>2. At(s, a) \in Passes /\ At(s, a).attempt \in Attempts
      BY AtTyped DEF Stages
    <3> QED BY <3>1, <3>2, PassTyped DEF Core, TypeOK
  <2>2. PassOK'
    BY <1>3 DEF Core, TypeOK, OrphanLook, StartPass, At, PassOK, Knows, PassTypes,
      FloorCovers, Settled, MarkerOK, OrderOK, OrderTypes, Shares, HolderOK, RowTypes,
      rowVars, orderVars, Doing
  <2>3. /\ RowTypes' /\ OrderTypes' /\ CounterTypes' /\ ClientTypes' /\ OrderOK' /\ BindingOK'
       /\ HolderOK' /\ MarkerOK' /\ BookedOK' /\ NoMoneyLost' /\ CapOK'
    BY <1>3 DEF Core, TypeOK, OrphanLook, StartPass, rowVars, orderVars, counterVars,
      RowTypes, OrderTypes, CounterTypes, ClientTypes, OrderOK, BindingOK, HolderOK,
      MarkerOK, FloorCovers, Settled, BookedOK, Charged, NoMoneyLost, CapOK
  <2> QED BY <2>1, <2>2, <2>3 DEF Core, TypeOK
<1>4. ASSUME NEW a \in Attempts, ReconcilePick(p, a) PROVE Core'
  <2>1. PassTypes'
    BY <1>4 DEF Core, TypeOK, ReconcilePick, Stuck, StartPass, At, Doing, PassTypes, Passes,
      Stages, Shares
  <2>2. PassOK'
    BY <1>4 DEF Core, TypeOK, ReconcilePick, Stuck, StartPass, At, Doing, PassOK, Knows,
      FloorCovers, Settled, BindingOK, rowVars, orderVars
  <2>3. /\ RowTypes' /\ OrderTypes' /\ CounterTypes' /\ ClientTypes' /\ OrderOK' /\ BindingOK'
       /\ HolderOK' /\ MarkerOK' /\ BookedOK' /\ NoMoneyLost' /\ CapOK'
    BY <1>4 DEF Core, TypeOK, ReconcilePick, StartPass, rowVars, orderVars, counterVars,
      RowTypes, OrderTypes, CounterTypes, ClientTypes, OrderOK, BindingOK, HolderOK,
      MarkerOK, FloorCovers, Settled, BookedOK, Charged, NoMoneyLost, CapOK
  <2> QED BY <2>1, <2>2, <2>3 DEF Core, TypeOK
<1>5. ASSUME OrphanKill(p) PROVE Core'
  <2>1. RowTypes'
    BY <1>5 DEF Core, TypeOK, OrphanKill, OrphanKillWhere, Kill, RowTypes, States
  <2>2. PassTypes'
    BY <1>5 DEF Core, TypeOK, OrphanKill, OrphanKillWhere, EndPass, Idle, At, Doing,
      PassTypes, Passes, Stages, Shares
  <2>3. CounterTypes'
    <3>1. PICK a \in Attempts : a = pass[p].attempt
      BY <1>5 DEF OrphanKill, OrphanKillWhere, Core, TypeOK, PassTypes
    <3>2. CASE ReleaseSlotOf(a) /\ state[a] # "NONE" /\ UNCHANGED <<today, paper>>
      BY <3>2, Releases
    <3>3. CASE UNCHANGED <<swipes, today, paper>>
      BY <3>3 DEF Core, TypeOK, CounterTypes
    <3> QED BY <1>5, <3>1, <3>2, <3>3 DEF OrphanKill, OrphanKillWhere, Kill
  <2>4. BindingOK'
    BY <1>5 DEF Core, TypeOK, OrphanKill, OrphanKillWhere, Kill, BindingOK, RowTypes
  <2>5. HolderOK'
    BY <1>5 DEF Core, TypeOK, OrphanKill, OrphanKillWhere, Kill, HolderOK, RowTypes, PassOK,
      Knows, FloorCovers, orderVars
  <2>6. MarkerOK'
    BY <1>5 DEF Core, TypeOK, OrphanKill, OrphanKillWhere, Kill, MarkerOK, FloorCovers,
      Settled, RowTypes, orderVars
  <2>7. BookedOK'
    BY <1>5 DEF Core, TypeOK, OrphanKill, OrphanKillWhere, Kill, BookedOK, Charged, Booked,
      RowTypes, orderVars
  <2>8. PassOK'
    BY <1>5 DEF Core, TypeOK, OrphanKill, OrphanKillWhere, EndPass, Idle, At, Doing, PassOK,
      Knows, FloorCovers, Settled, orderVars
  <2>9. NoMoneyLost'
    BY <1>5 DEF Core, TypeOK, OrphanKill, OrphanKillWhere, Kill, NoMoneyLost, Charged,
      RowTypes, PassOK, Knows, FloorCovers, Settled, orderVars
  <2>10. CapOK'
    <3>1. PICK a \in Attempts : a = pass[p].attempt
      BY <1>5 DEF OrphanKill, OrphanKillWhere, Core, TypeOK, PassTypes
    <3>2. CASE ReleaseSlotOf(a) /\ state[a] # "NONE" /\ UNCHANGED <<today, paper>>
      BY <3>2, Releases
    <3>3. CASE UNCHANGED <<swipes, today, paper>>
      BY <3>3 DEF Core, TypeOK, CapOK
    <3> QED BY <1>5, <3>1, <3>2, <3>3 DEF OrphanKill, OrphanKillWhere, Kill
  <2>11. OrderTypes' /\ ClientTypes' /\ OrderOK'
    BY <1>5 DEF Core, TypeOK, OrphanKill, EndPass, rowVars, orderVars, counterVars,
      OrderTypes, ClientTypes, OrderOK
  <2> QED BY <2>1, <2>2, <2>3, <2>4, <2>5, <2>6, <2>7, <2>8, <2>9, <2>10, <2>11 DEF Core,
    TypeOK
<1>6. ASSUME Adopt(p) PROVE Core'
  <2>1. RowTypes'
    BY <1>6 DEF Core, TypeOK, Adopt, CanBind, RowTypes, States
  <2>2. PassTypes'
    BY <1>6, AdoptKnows
  <2>3. BindingOK'
    BY <1>6 DEF Core, TypeOK, Adopt, BindingOK, RowTypes
  <2>4. HolderOK'
    BY <1>6 DEF Core, TypeOK, Adopt, HolderOK, RowTypes, PassOK, Knows, FloorCovers,
      orderVars
  <2>5. MarkerOK'
    BY <1>6 DEF Core, TypeOK, Adopt, MarkerOK, FloorCovers, Settled, RowTypes, orderVars
  <2>6. BookedOK'
    BY <1>6 DEF Core, TypeOK, Adopt, CanBind, BookedOK, Charged, Booked, RowTypes, orderVars
  <2>7. PassOK'
    BY <1>6, AdoptKnows
  <2>8. NoMoneyLost'
    BY <1>6 DEF Core, TypeOK, Adopt, NoMoneyLost, Charged, RowTypes, orderVars
  <2>9. OrderTypes' /\ CounterTypes' /\ ClientTypes' /\ OrderOK' /\ CapOK'
    BY <1>6 DEF Core, TypeOK, Adopt, rowVars, orderVars, counterVars, OrderTypes,
      CounterTypes, ClientTypes, OrderOK, CapOK
  <2> QED BY <2>1, <2>2, <2>3, <2>4, <2>5, <2>6, <2>7, <2>8, <2>9 DEF Core, TypeOK
<1>7. ASSUME Probe(p) PROVE Core'
  <2>1. PassTypes'
    BY <1>7, ProbeKnows
  <2>2. PassOK'
    BY <1>7, ProbeKnows
  <2>3. /\ RowTypes' /\ OrderTypes' /\ CounterTypes' /\ ClientTypes' /\ OrderOK' /\ BindingOK'
       /\ HolderOK' /\ MarkerOK' /\ BookedOK' /\ NoMoneyLost' /\ CapOK'
    <3>1. UNCHANGED <<rowVars, request, browser, orderVars, counterVars>> BY <1>7 DEF Probe
    <3> QED BY <3>1 DEF Core, TypeOK, rowVars, orderVars, counterVars, RowTypes, OrderTypes,
      CounterTypes, ClientTypes, OrderOK, BindingOK, HolderOK, MarkerOK, FloorCovers,
      Settled, BookedOK, Charged, NoMoneyLost, CapOK
  <2> QED BY <2>1, <2>2, <2>3 DEF Core, TypeOK
<1>8. ASSUME Book(p) PROVE Core'
  <2>1. RowTypes'
    <3>1. CASE pass[p].total = 0
      BY <1>8, <3>1 DEF Core, TypeOK, Book, Kill, RowTypes, States, PassTypes, PassOK,
        Knows, HolderOK
    <3>2. CASE pass[p].total # 0
      <4>1. PICK a \in Attempts, n \in Shares : a = pass[p].attempt /\ n = pass[p].total
        BY <1>8 DEF Book, Core, TypeOK, PassTypes, Passes
      <4>2. state[a] # "NONE"
        BY <1>8, <4>1 DEF Book, Core, PassOK, Knows, HolderOK
      <4>3. BookTotal(a, n) /\ UNCHANGED <<intent, hash, ext, final, aged>>
        BY <1>8, <3>2, <4>1 DEF Book
      <4> QED BY <4>2, <4>3 DEF Core, TypeOK, BookTotal, Label, RowTypes, States, Shares
    <3> QED BY <3>1, <3>2
  <2>2. PassTypes'
    BY <1>8, BookKnows
  <2>3. CounterTypes'
    <3>1. PICK a \in Attempts : a = pass[p].attempt
      BY <1>8 DEF Book, Core, TypeOK, PassTypes
    <3>2. CASE ReleaseSlotOf(a) /\ state[a] # "NONE" /\ UNCHANGED <<today, paper>>
      BY <3>2, Releases
    <3>3. CASE UNCHANGED <<swipes, today, paper>>
      BY <3>3 DEF Core, TypeOK, CounterTypes
    <3> QED BY <1>8, <3>1, <3>2, <3>3 DEF Book, Kill
  <2>4. BindingOK'
    BY <1>8 DEF Core, TypeOK, Book, Kill, BookTotal, Label, BindingOK, RowTypes
  <2>5. HolderOK'
    BY <1>8 DEF Core, TypeOK, Book, Kill, BookTotal, Label, HolderOK, RowTypes, PassOK,
      Knows, BindingOK, orderVars
  <2>6. MarkerOK'
    BY <1>8 DEF Core, TypeOK, Book, Kill, BookTotal, MarkerOK, FloorCovers, Settled,
      RowTypes, PassOK, Knows, BindingOK, orderVars
  <2>7. BookedOK'
    BY <1>8 DEF Core, TypeOK, Book, Kill, BookTotal, Label, BookedOK, Charged, Booked,
      Shares, RowTypes, PassTypes, Passes, PassOK, Knows, orderVars
  <2>8. PassOK'
    BY <1>8, BookKnows
  <2>9. NoMoneyLost'
    BY <1>8 DEF Core, TypeOK, Book, Kill, BookTotal, Label, NoMoneyLost, Charged, RowTypes,
      PassOK, Knows, HolderOK, orderVars
  <2>10. CapOK'
    <3>1. PICK a \in Attempts : a = pass[p].attempt
      BY <1>8 DEF Book, Core, TypeOK, PassTypes
    <3>2. CASE ReleaseSlotOf(a) /\ state[a] # "NONE" /\ UNCHANGED <<today, paper>>
      BY <3>2, Releases
    <3>3. CASE UNCHANGED <<swipes, today, paper>>
      BY <3>3 DEF Core, TypeOK, CapOK
    <3> QED BY <1>8, <3>1, <3>2, <3>3 DEF Book, Kill
  <2>11. OrderTypes' /\ ClientTypes' /\ OrderOK'
    BY <1>8 DEF Core, TypeOK, Book, EndPass, rowVars, orderVars, counterVars, OrderTypes,
      ClientTypes, OrderOK
  <2> QED BY <2>1, <2>2, <2>3, <2>4, <2>5, <2>6, <2>7, <2>8, <2>9, <2>10, <2>11 DEF Core,
    TypeOK
<1>9. ASSUME TrueUp(p) PROVE Core'
  <2>1. RowTypes'
    BY <1>9 DEF Core, TypeOK, TrueUp, RowTypes
  <2>2. PassTypes'
    BY <1>9 DEF Core, TypeOK, TrueUp, EndPass, Idle, At, Doing, PassTypes, Passes, Stages,
      Shares
  <2>3. BookedOK'
    BY <1>9, TrueUpBooked
  <2>4. PassOK'
    BY <1>9 DEF Core, TypeOK, TrueUp, EndPass, Idle, At, Doing, PassOK, Knows, FloorCovers,
      Settled, orderVars
  <2>5. /\ OrderTypes' /\ CounterTypes' /\ ClientTypes' /\ OrderOK' /\ BindingOK'
       /\ HolderOK' /\ MarkerOK' /\ NoMoneyLost' /\ CapOK'
    BY <1>9 DEF Core, TypeOK, TrueUp, EndPass, rowVars, orderVars, counterVars, OrderTypes,
      CounterTypes, ClientTypes, OrderOK, BindingOK, HolderOK, MarkerOK, FloorCovers,
      Settled, NoMoneyLost, Charged, CapOK
  <2> QED BY <2>1, <2>2, <2>3, <2>4, <2>5 DEF Core, TypeOK
<1>10. ASSUME PassDies(p) PROVE Core'
  <2>1. PassTypes'
    BY <1>10 DEF Core, TypeOK, PassDies, EndPass, Idle, At, Doing, PassTypes, Passes,
      Stages, Shares
  <2>2. PassOK'
    BY <1>10 DEF Core, TypeOK, PassDies, EndPass, Idle, At, Doing, PassOK, Knows,
      FloorCovers, Settled, rowVars, orderVars
  <2>3. /\ RowTypes' /\ OrderTypes' /\ CounterTypes' /\ ClientTypes' /\ OrderOK' /\ BindingOK'
       /\ HolderOK' /\ MarkerOK' /\ BookedOK' /\ NoMoneyLost' /\ CapOK'
    BY <1>10 DEF Core, TypeOK, PassDies, EndPass, rowVars, orderVars, counterVars, RowTypes,
      OrderTypes, CounterTypes, ClientTypes, OrderOK, BindingOK, HolderOK, MarkerOK,
      FloorCovers, Settled, BookedOK, Charged, NoMoneyLost, CapOK
  <2> QED BY <2>1, <2>2, <2>3 DEF Core, TypeOK
<1> QED BY <1>1, <1>2, <1>3, <1>4, <1>5, <1>6, <1>7, <1>8, <1>9, <1>10 DEF PassStep

\* Intents, foreign reports, paper swipes, time and stuttering keep it.
LEMMA OthersKeepCore ==
  ASSUME Core, [Next]_vars,
         ~(\E a \in Attempts : SubmitStep(a) \/ BrowserStep(a)),
         ~(\E o \in Orders : ExchangeStep(o)), ~(\E p \in Workers : PassStep(p))
  PROVE  Core'
<1> USE SizeAssumption, DaysAssumption, NoneAssumption, CapAssumption
<1>1. ASSUME NEW a \in Attempts, NEW m \in Markets, NEW dir \in {"ENTRY", "EXIT"}, Intent(a, m, dir)
      PROVE Core'
  <2>1. RowTypes'
    BY <1>1 DEF Core, TypeOK, Intent, RowTypes, States, Intents, CounterTypes
  <2>2. BindingOK'
    BY <1>1 DEF Core, TypeOK, Intent, BindingOK
  <2>3. HolderOK'
    BY <1>1 DEF Core, TypeOK, Intent, HolderOK, orderVars
  <2>4. MarkerOK'
    BY <1>1 DEF Core, TypeOK, Intent, MarkerOK, FloorCovers, Settled, orderVars
  <2>5. BookedOK'
    BY <1>1 DEF Core, TypeOK, Intent, BookedOK, Charged, Booked, orderVars
  <2>6. NoMoneyLost'
    BY <1>1 DEF Core, TypeOK, Intent, NoMoneyLost, Charged, orderVars
  <2>7. /\ OrderTypes' /\ PassTypes' /\ CounterTypes' /\ ClientTypes'
       /\ OrderOK' /\ PassOK' /\ CapOK'
    BY <1>1 DEF Core, TypeOK, Intent, rowVars, orderVars, counterVars, OrderTypes,
      PassTypes, CounterTypes, ClientTypes, OrderOK, PassOK, Knows, FloorCovers, Settled,
      CapOK
  <2> QED BY <2>1, <2>2, <2>3, <2>4, <2>5, <2>6, <2>7 DEF Core, TypeOK
<1>2. ASSUME NEW a \in Attempts, ExpireIntent(a) PROVE Core'
  <2>1. RowTypes'
    BY <1>2 DEF Core, TypeOK, ExpireIntent, RowTypes, States
  <2>2. BindingOK'
    BY <1>2 DEF Core, TypeOK, ExpireIntent, BindingOK
  <2>3. HolderOK'
    BY <1>2 DEF Core, TypeOK, ExpireIntent, HolderOK, orderVars
  <2>4. MarkerOK'
    BY <1>2 DEF Core, TypeOK, ExpireIntent, MarkerOK, FloorCovers, Settled, orderVars
  <2>5. BookedOK'
    BY <1>2 DEF Core, TypeOK, ExpireIntent, BookedOK, Charged, Booked, orderVars
  <2>6. NoMoneyLost'
    BY <1>2 DEF Core, TypeOK, ExpireIntent, NoMoneyLost, Charged, HolderOK, orderVars
  <2>7. /\ OrderTypes' /\ PassTypes' /\ CounterTypes' /\ ClientTypes'
       /\ OrderOK' /\ PassOK' /\ CapOK'
    BY <1>2 DEF Core, TypeOK, ExpireIntent, rowVars, orderVars, counterVars, OrderTypes,
      PassTypes, CounterTypes, ClientTypes, OrderOK, PassOK, Knows, FloorCovers, Settled,
      CapOK
  <2> QED BY <2>1, <2>2, <2>3, <2>4, <2>5, <2>6, <2>7 DEF Core, TypeOK
<1>3. ASSUME NEW a \in Attempts, Age(a) PROVE Core'
  <2>1. RowTypes'
    BY <1>3 DEF Core, TypeOK, Age, RowTypes
  <2>2. MarkerOK'
    BY <1>3 DEF Core, TypeOK, Age, MarkerOK, FloorCovers, Settled, orderVars
  <2>3. /\ OrderTypes' /\ PassTypes' /\ CounterTypes' /\ ClientTypes' /\ OrderOK' /\ BindingOK'
       /\ HolderOK' /\ BookedOK' /\ PassOK' /\ NoMoneyLost' /\ CapOK'
    BY <1>3 DEF Core, TypeOK, Age, rowVars, orderVars, counterVars, OrderTypes, PassTypes,
      CounterTypes, ClientTypes, OrderOK, BindingOK, HolderOK, BookedOK, Charged, PassOK,
      Knows, FloorCovers, Settled, NoMoneyLost, CapOK
  <2> QED BY <2>1, <2>2, <2>3 DEF Core, TypeOK
<1>4. ASSUME NEW a \in Attempts, NEW o \in Orders, ReportForeign(a, o) PROVE Core'
  <2>1. RowTypes'
    BY <1>4 DEF Core, TypeOK, ReportForeign, RowTypes
  <2>2. MarkerOK'
    BY <1>4 DEF Core, TypeOK, ReportForeign, MarkerOK, FloorCovers, Settled, orderVars
  <2>3. /\ OrderTypes' /\ PassTypes' /\ CounterTypes' /\ ClientTypes' /\ OrderOK' /\ BindingOK'
       /\ HolderOK' /\ BookedOK' /\ PassOK' /\ NoMoneyLost' /\ CapOK'
    BY <1>4 DEF Core, TypeOK, ReportForeign, rowVars, orderVars, counterVars, OrderTypes,
      PassTypes, CounterTypes, ClientTypes, OrderOK, BindingOK, HolderOK, BookedOK, Charged,
      PassOK, Knows, FloorCovers, Settled, NoMoneyLost, CapOK
  <2> QED BY <2>1, <2>2, <2>3 DEF Core, TypeOK
<1>5. ASSUME PaperSwipe PROVE Core'
  <2>1. CounterTypes'
    BY <1>5 DEF Core, TypeOK, PaperSwipe, WithinCap, CounterTypes
  <2>2. CapOK'
    BY <1>5 DEF Core, TypeOK, PaperSwipe, WithinCap, CapOK
  <2>3. /\ RowTypes' /\ OrderTypes' /\ PassTypes' /\ ClientTypes' /\ OrderOK' /\ BindingOK'
       /\ HolderOK' /\ MarkerOK' /\ BookedOK' /\ PassOK' /\ NoMoneyLost'
    BY <1>5 DEF Core, TypeOK, PaperSwipe, rowVars, orderVars, counterVars, RowTypes,
      OrderTypes, PassTypes, ClientTypes, OrderOK, BindingOK, HolderOK, MarkerOK,
      FloorCovers, Settled, BookedOK, Charged, PassOK, Knows, NoMoneyLost
  <2> QED BY <2>1, <2>2, <2>3 DEF Core, TypeOK
<1>6. ASSUME Midnight PROVE Core'
  <2>1. CounterTypes'
    BY <1>6 DEF Core, TypeOK, Midnight, CounterTypes, Days
  <2>2. /\ RowTypes' /\ OrderTypes' /\ PassTypes' /\ ClientTypes' /\ OrderOK' /\ BindingOK'
       /\ HolderOK' /\ MarkerOK' /\ BookedOK' /\ PassOK' /\ NoMoneyLost' /\ CapOK'
    BY <1>6 DEF Core, TypeOK, Midnight, rowVars, orderVars, counterVars, RowTypes,
      OrderTypes, PassTypes, ClientTypes, OrderOK, BindingOK, HolderOK, MarkerOK,
      FloorCovers, Settled, BookedOK, Charged, PassOK, Knows, NoMoneyLost, CapOK
  <2> QED BY <2>1, <2>2 DEF Core, TypeOK
<1>7. ASSUME UNCHANGED vars PROVE Core'
  <2>1. /\ RowTypes' /\ OrderTypes' /\ PassTypes' /\ CounterTypes' /\ ClientTypes' /\ OrderOK' /\ BindingOK'
       /\ HolderOK' /\ MarkerOK' /\ BookedOK' /\ PassOK' /\ NoMoneyLost' /\ CapOK'
    BY <1>7 DEF Core, TypeOK, vars, rowVars, orderVars, counterVars, RowTypes, OrderTypes,
      PassTypes, CounterTypes, ClientTypes, OrderOK, BindingOK, HolderOK, MarkerOK,
      FloorCovers, Settled, BookedOK, Charged, PassOK, Knows, NoMoneyLost, CapOK
  <2> QED BY <2>1 DEF Core, TypeOK
<1> QED BY <1>1, <1>2, <1>3, <1>4, <1>5, <1>6, <1>7 DEF Next

-----------------------------------------------------------------------------
(* The daily counter.                                                     *)

\* A day's slots are held by finitely many attempts.
LEMMA HeldFinite ==
  ASSUME NEW d \in Days
  PROVE  IsFiniteSet(Held(d)) /\ Cardinality(Held(d)) \in Nat
<1>1. Held(d) \subseteq Attempts BY DEF Held
<1> QED BY <1>1, RowsAssumption, FS_Subset, FS_CardinalityType

\* Nothing moves: the same attempts hold slots, the counters stand still.
LEMMA SlotsSame ==
  ASSUME SlotAccounting, \A d \in Days : Held(d)' = Held(d), UNCHANGED <<swipes, paper>>
  PROVE  SlotAccounting'
BY DEF SlotAccounting

\* An ENTRY takes a slot and the counter of its day goes up by one.
LEMMA SlotTaken ==
  ASSUME SlotAccounting, CounterTypes, NEW a \in Attempts, NEW e \in Days,
         a \notin Held(e), Held(e)' = Held(e) \cup {a},
         \A d \in Days \ {e} : Held(d)' = Held(d),
         swipes' = [swipes EXCEPT ![e] = @ + 1], paper' = paper
  PROVE  SlotAccounting'
<1>1. Cardinality(Held(e))' = Cardinality(Held(e)) + 1
  BY HeldFinite, FS_AddElement
<1>2. swipes'[e] = swipes[e] + 1 /\ \A d \in Days \ {e} : swipes'[d] = swipes[d]
  BY DEF CounterTypes
<1>3. swipes[e] = paper[e] + Cardinality(Held(e)) /\ paper[e] \in Nat
  BY DEF SlotAccounting, CounterTypes
<1>4. ASSUME NEW d \in Days PROVE swipes'[d] = paper'[d] + Cardinality(Held(d))'
  <2>1. CASE d = e BY <1>1, <1>2, <1>3, <2>1, HeldFinite
  <2>2. CASE d # e
    <3>1. Held(d)' = Held(d) /\ swipes'[d] = swipes[d] BY <1>2, <2>2
    <3> QED BY <3>1 DEF SlotAccounting
  <2> QED BY <2>1, <2>2
<1> QED BY <1>4 DEF SlotAccounting

\* An ENTRY gives its slot back: the day's counter was positive, because the
\* attempt itself was counted, so the floor at zero never swallows a release.
LEMMA SlotGiven ==
  ASSUME SlotAccounting, CounterTypes, NEW a \in Attempts, NEW e \in Days,
         a \in Held(e), Held(e)' = Held(e) \ {a},
         \A d \in Days \ {e} : Held(d)' = Held(d),
         swipes' = Released(e), paper' = paper
  PROVE  SlotAccounting'
<1>1. Cardinality(Held(e)) > 0 /\ Cardinality(Held(e))' = Cardinality(Held(e)) - 1
  BY HeldFinite, FS_RemoveElement, FS_EmptySet
<1>2. swipes[e] = paper[e] + Cardinality(Held(e)) /\ paper[e] \in Nat
  BY DEF SlotAccounting, CounterTypes
<1>3. swipes'[e] = swipes[e] - 1 /\ \A d \in Days \ {e} : swipes'[d] = swipes[d]
  BY <1>1, <1>2, HeldFinite DEF CounterTypes, Released
<1>4. ASSUME NEW d \in Days PROVE swipes'[d] = paper'[d] + Cardinality(Held(d))'
  <2>1. CASE d = e
    <3>1. PICK n \in Nat : n = Cardinality(Held(e)) BY HeldFinite
    <3>2. Cardinality(Held(d))' = n - 1 BY <1>1, <2>1, <3>1
    <3>3. swipes'[d] = (paper[e] + n) - 1 /\ paper'[d] = paper[e] /\ paper[e] \in Nat
      BY <1>2, <1>3, <2>1, <3>1
    <3> QED BY <3>2, <3>3
  <2>2. CASE d # e
    <3>1. Held(d)' = Held(d) /\ swipes'[d] = swipes[d] BY <1>3, <2>2
    <3> QED BY <3>1 DEF SlotAccounting
  <2> QED BY <2>1, <2>2
<1> QED BY <1>4 DEF SlotAccounting

\* A step that moves no attempt into or out of the slot-holding states.
LEMMA SlotsUnmoved ==
  ASSUME SlotAccounting, UNCHANGED <<swipes, paper, intent>>,
         \A b \in Attempts : state'[b] \in Holding <=> state[b] \in Holding
  PROVE  SlotAccounting'
<1>1. ASSUME NEW d \in Days PROVE Held(d)' = Held(d) BY DEF Held
<1> QED BY <1>1, SlotsSame

\* A step that takes one attempt out of them through releaseSwipeSlot.
LEMMA SlotReleased ==
  ASSUME SlotAccounting, RowTypes, CounterTypes, NEW a \in Attempts,
         state[a] \in Holding, state'[a] \notin Holding,
         \A b \in Attempts \ {a} : state'[b] = state[b],
         ReleaseSlotOf(a), UNCHANGED <<intent, paper>>
  PROVE  SlotAccounting'
<1>1. PICK e \in Days : e = intent[a].day
  BY DEF RowTypes, Intents, Holding
<1>2. CASE intent[a].dir = "ENTRY"
  <2>1. a \in Held(e) /\ Held(e)' = Held(e) \ {a} BY <1>1, <1>2 DEF Held
  <2>2. \A d \in Days \ {e} : Held(d)' = Held(d) BY <1>1, <1>2 DEF Held
  <2>3. swipes' = Released(e) BY <1>1, <1>2 DEF ReleaseSlotOf
  <2> QED BY <2>1, <2>2, <2>3, SlotGiven
<1>3. CASE intent[a].dir # "ENTRY"
  <2>1. ASSUME NEW d \in Days PROVE Held(d)' = Held(d) BY <1>3 DEF Held
  <2>2. swipes' = swipes BY <1>3 DEF ReleaseSlotOf
  <2> QED BY <2>1, <2>2, SlotsSame
<1> QED BY <1>2, <1>3

\* The initial state satisfies the invariant.
LEMMA InitHolds == Init => IInv
<1> USE SizeAssumption, DaysAssumption, CapAssumption, NoneAssumption
<1> SUFFICES ASSUME Init PROVE IInv
  OBVIOUS
<1>1. TypeOK
  <2>1. RowTypes /\ OrderTypes /\ ClientTypes
    BY DEF Init, RowTypes, OrderTypes, ClientTypes, States, Shares
  <2>2. PassTypes
    BY IdleTyped DEF Init, PassTypes
  <2>3. CounterTypes
    BY DEF Init, CounterTypes, Days
  <2> QED BY <2>1, <2>2, <2>3 DEF TypeOK
<1>2. OrderOK /\ BindingOK /\ HolderOK /\ MarkerOK /\ NoMoneyLost /\ CapOK
  BY DEF Init, OrderOK, BindingOK, HolderOK, MarkerOK, NoMoneyLost, CapOK
<1>3. BookedOK
  BY DEF Init, BookedOK, Booked, Charged
<1>4. PassOK
  BY IdleTyped DEF Init, PassOK, Knows
<1>5. SlotAccounting
  <2>1. ASSUME NEW d \in Days PROVE Cardinality(Held(d)) = 0
    <3>1. Held(d) = {} BY DEF Init, Held, Holding
    <3> QED BY <3>1, FS_EmptySet
  <2> QED BY <2>1 DEF Init, SlotAccounting
<1> QED BY <1>1, <1>2, <1>3, <1>4, <1>5 DEF IInv, Core

\* Booking changes the state of a POSTED or booked row only, and keeps it one.
LEMMA BookingStays ==
  ASSUME Core, NEW a \in Attempts, NEW n \in Nat, BookTotal(a, n),
         state[a] \in {"POSTED"} \cup Booked \/ n <= booked[a]
  PROVE  /\ \A b \in Attempts \ {a} : state'[b] = state[b]
         /\ state'[a] = state[a] \/ {state[a], state'[a]} \subseteq {"POSTED"} \cup Booked
BY SizeAssumption DEF Core, TypeOK, RowTypes, BookTotal, Label, Booked, Shares

\* A pass that books a positive total works on a POSTED or booked row: a bound
\* row that was killed never matched, so its total cannot be positive.
LEMMA BookedRow ==
  ASSUME Core, NEW p \in Workers, Book(p), pass[p].total > 0
  PROVE  /\ pass[p].attempt \in Attempts /\ pass[p].total \in Nat
         /\ \/ state[pass[p].attempt] \in {"POSTED"} \cup Booked
            \/ pass[p].total <= booked[pass[p].attempt]
         /\ BookTotal(pass[p].attempt, pass[p].total)
<1>1. PICK a \in Attempts, n \in Nat : a = pass[p].attempt /\ n = pass[p].total
  BY SizeAssumption DEF Book, Core, TypeOK, PassTypes, Passes, Shares
<1>2. ext[a] # None /\ hash[a] # None /\ n <= matched[hash[a]]
  BY <1>1 DEF Book, Core, PassOK, Knows
<1>3. state[a] \in {"POSTED", "FILLED", "PARTIAL", "KILLED"}
  BY <1>2 DEF Core, BindingOK
<1>4. state[a] = "KILLED" => n <= booked[a]
  BY <1>1, <1>2, SizeAssumption DEF Core, NoMoneyLost, Charged, TypeOK, RowTypes, Shares
<1>5. BookTotal(a, n)
  BY <1>1 DEF Book
<1> QED BY <1>1, <1>3, <1>4, <1>5 DEF Booked

\* Every step keeps the slot accounting.
LEMMA SlotStep == ASSUME IInv, [Next]_vars PROVE SlotAccounting'
<1>0. Core /\ SlotAccounting /\ RowTypes /\ CounterTypes
  BY DEF IInv, Core, TypeOK
<1>1. ASSUME NEW a \in Attempts, NEW m \in Markets, NEW dir \in {"ENTRY", "EXIT"}, Intent(a, m, dir)
      PROVE  SlotAccounting'
  <2>1. ASSUME NEW d \in Days PROVE Held(d)' = Held(d)
    BY <1>0, <1>1 DEF Intent, Held, Holding, RowTypes
  <2> QED BY <1>0, <1>1, <2>1, SlotsSame DEF Intent, counterVars
<1>2. ASSUME NEW a \in Attempts, ExpireIntent(a) PROVE SlotAccounting'
  BY <1>0, <1>2, SlotsUnmoved DEF ExpireIntent, counterVars, Holding, RowTypes
<1>3. ASSUME NEW a \in Attempts, NEW o \in Orders, SubmitClaim(a, o) PROVE SlotAccounting'
  <2>1. PICK e \in Days : e = intent[a].day
    BY <1>0, <1>3 DEF SubmitClaim, RowTypes, Intents
  <2>2. CASE intent[a].dir = "ENTRY"
    <3>1. a \notin Held(e) /\ Held(e)' = Held(e) \cup {a}
      BY <1>0, <1>3, <2>1, <2>2 DEF SubmitClaim, Held, Holding, RowTypes
    <3>2. \A d \in Days \ {e} : Held(d)' = Held(d)
      BY <1>0, <1>3, <2>1, <2>2 DEF SubmitClaim, Held, Holding, RowTypes
    <3>3. swipes' = [swipes EXCEPT ![e] = @ + 1] /\ paper' = paper
      BY <1>3, <2>1, <2>2 DEF SubmitClaim
    <3> QED BY <1>0, <3>1, <3>2, <3>3, SlotTaken
  <2>3. CASE intent[a].dir # "ENTRY"
    <3>1. ASSUME NEW d \in Days PROVE Held(d)' = Held(d)
      BY <1>0, <1>3, <2>3 DEF SubmitClaim, Held, Holding, RowTypes
    <3> QED BY <1>0, <1>3, <2>3, <3>1, SlotsSame DEF SubmitClaim
  <2> QED BY <2>2, <2>3
<1>4. ASSUME NEW a \in Attempts, SubmitRollback(a) PROVE SlotAccounting'
  <2>1. CASE state[a] = "SUBMITTING"
    BY <1>0, <1>4, <2>1, SlotReleased DEF SubmitRollback, Holding, RowTypes
  <2>2. CASE state[a] # "SUBMITTING"
    BY <1>0, <1>4, <2>2, SlotsUnmoved DEF SubmitRollback
  <2> QED BY <2>1, <2>2
<1>5. ASSUME NEW a \in Attempts, SubmitRefused(a) PROVE SlotAccounting'
  <2>1. CASE state[a] = "SUBMITTING"
    BY <1>0, <1>5, <2>1, SlotReleased DEF SubmitRefused, Holding, RowTypes
  <2>2. CASE state[a] # "SUBMITTING"
    BY <1>0, <1>5, <2>2, SlotsUnmoved DEF SubmitRefused
  <2> QED BY <2>1, <2>2
<1>6. ASSUME NEW a \in Attempts, SubmitAccepted(a) \/ SubmitRejected(a)
      PROVE SlotAccounting'
  BY <1>0, <1>6, SlotsUnmoved
     DEF SubmitAccepted, SubmitRejected, WritePosted, counterVars, Holding, RowTypes
<1>7. ASSUME NEW a \in Attempts, SubmitBook(a) PROVE SlotAccounting'
  <2>1. BookTotal(a, matched[hash[a]]) /\ matched[hash[a]] \in Nat
        /\ state[a] \in {"POSTED"} \cup Booked
    BY <1>0, <1>7, SizeAssumption
       DEF SubmitBook, Core, TypeOK, RowTypes, OrderTypes, HolderOK, Booked, Shares
  <2>2. \A b \in Attempts : state'[b] \in Holding <=> state[b] \in Holding
    BY <1>0, <2>1, BookingStays DEF Holding, Booked
  <2> QED BY <1>0, <1>7, <2>2, SlotsUnmoved DEF SubmitBook, counterVars
<1>8. ASSUME NEW a \in Attempts, SubmitKill(a) PROVE SlotAccounting'
  <2>1. CASE state[a] \in {"SUBMITTING", "POSTED"}
    BY <1>0, <1>8, <2>1, SlotReleased DEF SubmitKill, Kill, Holding, RowTypes
  <2>2. CASE state[a] \notin {"SUBMITTING", "POSTED"}
    BY <1>0, <1>8, <2>2, SlotsUnmoved DEF SubmitKill
  <2> QED BY <2>1, <2>2
<1>9. ASSUME NEW p \in Workers, OrphanKill(p) PROVE SlotAccounting'
  <2>1. PICK a \in Attempts : a = pass[p].attempt
    BY <1>0, <1>9 DEF OrphanKill, Core, TypeOK, PassTypes
  <2>2. CASE OrphanKillWhere(a)
    BY <1>0, <1>9, <2>1, <2>2, SlotReleased
       DEF OrphanKill, OrphanKillWhere, Kill, Holding, RowTypes
  <2>3. CASE ~OrphanKillWhere(a)
    BY <1>0, <1>9, <2>1, <2>3, SlotsUnmoved DEF OrphanKill
  <2> QED BY <2>2, <2>3
<1>10. ASSUME NEW p \in Workers, Adopt(p) PROVE SlotAccounting'
  BY <1>0, <1>10, SlotsUnmoved DEF Adopt, CanBind, counterVars, Holding, RowTypes
<1>11. ASSUME NEW p \in Workers, Book(p) PROVE SlotAccounting'
  <2>1. PICK a \in Attempts, n \in Nat : a = pass[p].attempt /\ n = pass[p].total
    BY <1>0, <1>11, SizeAssumption DEF Book, Core, TypeOK, PassTypes, Passes, Shares
  <2>2. CASE n > 0
    <3>1. \A b \in Attempts : state'[b] \in Holding <=> state[b] \in Holding
      BY <1>0, <1>11, <2>1, <2>2, BookedRow, BookingStays DEF Holding, Booked
    <3> QED BY <1>0, <1>11, <2>1, <2>2, <3>1, SlotsUnmoved DEF Book
  <2>3. CASE n = 0 /\ state[a] \in {"SUBMITTING", "POSTED"}
    BY <1>0, <1>11, <2>1, <2>3, SlotReleased DEF Book, Kill, Holding, RowTypes
  <2>4. CASE n = 0 /\ state[a] \notin {"SUBMITTING", "POSTED"}
    BY <1>0, <1>11, <2>1, <2>4, SlotsUnmoved DEF Book
  <2> QED BY <2>2, <2>3, <2>4
<1>12. CASE PaperSwipe
  <2>1. ASSUME NEW d \in Days PROVE Held(d)' = Held(d)
    BY <1>12 DEF PaperSwipe, rowVars, Held
  <2>2. ASSUME NEW d \in Days PROVE swipes'[d] - paper'[d] = swipes[d] - paper[d]
    BY <1>0, <1>12 DEF PaperSwipe, CounterTypes
  <2>3. \A d \in Days : Cardinality(Held(d)) \in Nat
    BY HeldFinite
  <2> QED BY <1>0, <1>12, <2>1, <2>2, <2>3 DEF PaperSwipe, SlotAccounting, CounterTypes
<1>13. ASSUME UNCHANGED <<state, intent, swipes, paper>> PROVE SlotAccounting'
  BY <1>0, <1>13, SlotsUnmoved
<1>14. ASSUME NEW a \in Attempts,
              \/ SubmitApprove(a) \/ SubmitPost(a) \/ SubmitAmbiguous(a) \/ SubmitDies(a)
              \/ BrowserStep(a) \/ Age(a) \/ (\E o \in Orders : ReportForeign(a, o))
       PROVE  UNCHANGED <<state, intent, swipes, paper>>
  BY <1>14 DEF SubmitApprove, SubmitPost, SubmitAmbiguous, SubmitDies, BrowserStep,
     BrowserPost, BrowserLearns, BrowserQuits, Age, ReportForeign, rowVars, counterVars
<1>15. ASSUME NEW o \in Orders, ExchangeStep(o)
       PROVE  UNCHANGED <<state, intent, swipes, paper>>
  BY <1>15 DEF ExchangeStep, Accept, Drop, Match, Index, rowVars, counterVars
<1>16. ASSUME NEW p \in Workers,
              \/ (\E a \in Attempts : \/ Report(p, a) \/ FastPass(p, a)
                                      \/ OrphanLook(p, a) \/ ReconcilePick(p, a))
              \/ Probe(p) \/ TrueUp(p) \/ PassDies(p)
       PROVE  UNCHANGED <<state, intent, swipes, paper>>
  BY <1>16 DEF Report, FastPass, OrphanLook, ReconcilePick, Probe, TrueUp, PassDies,
     rowVars, counterVars
<1>17. CASE Midnight
  BY <1>13, <1>17 DEF Midnight, rowVars
<1>18. CASE UNCHANGED vars
  BY <1>13, <1>18 DEF vars, rowVars, counterVars
<1> QED BY <1>1, <1>2, <1>3, <1>4, <1>5, <1>6, <1>7, <1>8, <1>9, <1>10, <1>11, <1>12,
           <1>13, <1>14, <1>15, <1>16, <1>17, <1>18
        DEF Next, SubmitStep, PassStep

-----------------------------------------------------------------------------
(* Decisions.                                                             *)

\* What a step may never do to a decided attempt, the body of DecisionsStand.
Decided == \A a \in Attempts :
    /\ state[a] \in {"KILLED", "FAILED", "FILLED"} => state'[a] = state[a]
    /\ state[a] = "PARTIAL" => state'[a] \in Booked

\* Booking undoes no decision: a killed or failed row is left alone, and the
\* running total of a FILLED row only grows.
LEMMA BookingDecides ==
  ASSUME Core, NEW a \in Attempts, NEW n \in Nat, BookTotal(a, n),
         state[a] \in {"POSTED"} \cup Booked \/ n <= booked[a]
  PROVE  Decided
<1>1. booked[a] \in Nat /\ state[a] \in States
  BY SizeAssumption DEF Core, TypeOK, RowTypes, Shares
<1>2. state[a] = "FILLED" => booked[a] >= SignedSize
  BY <1>1, SizeAssumption DEF Core, BookedOK, Booked, Label
<1>3. \A b \in Attempts \ {a} : state'[b] = state[b]
  BY BookingStays
<1>4. state'[a] = state[a] \/ (n > booked[a] /\ state'[a] = Label(n))
                         \/ (booked[a] > 0 /\ state'[a] = Label(booked[a]))
  BY DEF BookTotal, Core, TypeOK, RowTypes
<1>5. state[a] \in {"KILLED", "FAILED"} => state'[a] = state[a]
  BY BookingStays DEF Booked
<1>6. state[a] = "FILLED" => state'[a] = "FILLED"
  BY <1>1, <1>2, <1>4, SizeAssumption DEF Label
<1>7. state[a] = "PARTIAL" => state'[a] \in Booked
  BY <1>4 DEF Label, Booked
<1> QED BY <1>3, <1>5, <1>6, <1>7 DEF Decided, Booked

\* No step undoes a decision.
LEMMA DecisionStep == ASSUME IInv, [Next]_vars PROVE Decided
<1>0. Core /\ RowTypes BY DEF IInv, Core, TypeOK
<1>1. ASSUME UNCHANGED state PROVE Decided
  BY <1>1 DEF Decided, Booked
<1>2. ASSUME NEW a \in Attempts,
             state[a] \in {"NONE", "ISSUED", "SUBMITTING", "POSTED"},
             \A b \in Attempts \ {a} : state'[b] = state[b]
      PROVE  Decided
  BY <1>2 DEF Decided, Booked
<1>3. ASSUME NEW a \in Attempts,
             \/ \E m \in Markets, dir \in {"ENTRY", "EXIT"} : Intent(a, m, dir)
             \/ ExpireIntent(a) \/ (\E o \in Orders : SubmitClaim(a, o))
             \/ SubmitRollback(a) \/ SubmitRefused(a) \/ SubmitKill(a)
             \/ SubmitAccepted(a) \/ SubmitRejected(a)
      PROVE  Decided
  BY <1>0, <1>1, <1>2, <1>3 DEF Intent, ExpireIntent, SubmitClaim, SubmitRollback,
     SubmitRefused, SubmitKill, Kill, SubmitAccepted, SubmitRejected, WritePosted, RowTypes
<1>4. ASSUME NEW a \in Attempts, SubmitBook(a) PROVE Decided
  BY <1>0, <1>4, BookingDecides, SizeAssumption
     DEF SubmitBook, Core, TypeOK, RowTypes, OrderTypes, HolderOK, Booked, Shares
<1>5. ASSUME NEW p \in Workers, OrphanKill(p) \/ Adopt(p) PROVE Decided
  <2>1. PICK a \in Attempts : a = pass[p].attempt
    BY <1>0, <1>5 DEF OrphanKill, Adopt, Core, TypeOK, PassTypes
  <2> QED BY <1>0, <1>1, <1>2, <1>5, <2>1
          DEF OrphanKill, OrphanKillWhere, Kill, Adopt, CanBind, RowTypes
<1>6. ASSUME NEW p \in Workers, Book(p) PROVE Decided
  <2>1. PICK a \in Attempts, n \in Nat : a = pass[p].attempt /\ n = pass[p].total
    BY <1>0, <1>6, SizeAssumption DEF Book, Core, TypeOK, PassTypes, Passes, Shares
  <2>2. CASE n > 0
    BY <1>0, <1>6, <2>1, <2>2, BookedRow, BookingDecides
  <2>3. CASE n = 0
    BY <1>0, <1>1, <1>2, <1>6, <2>1, <2>3 DEF Book, Kill, RowTypes
  <2> QED BY <2>2, <2>3
<1>7. ASSUME NEW a \in Attempts,
             \/ SubmitApprove(a) \/ SubmitPost(a) \/ SubmitAmbiguous(a) \/ SubmitDies(a)
             \/ BrowserStep(a) \/ Age(a) \/ (\E o \in Orders : ReportForeign(a, o))
      PROVE  UNCHANGED state
  BY <1>7 DEF SubmitApprove, SubmitPost, SubmitAmbiguous, SubmitDies, BrowserStep,
     BrowserPost, BrowserLearns, BrowserQuits, Age, ReportForeign, rowVars
<1>8. ASSUME NEW o \in Orders, ExchangeStep(o) PROVE UNCHANGED state
  BY <1>8 DEF ExchangeStep, Accept, Drop, Match, Index, rowVars
<1>9. ASSUME NEW p \in Workers,
             \/ (\E a \in Attempts : \/ Report(p, a) \/ FastPass(p, a)
                                     \/ OrphanLook(p, a) \/ ReconcilePick(p, a))
             \/ Probe(p) \/ TrueUp(p) \/ PassDies(p)
      PROVE  UNCHANGED state
  BY <1>9 DEF Report, FastPass, OrphanLook, ReconcilePick, Probe, TrueUp, PassDies, rowVars
<1>10. CASE PaperSwipe \/ Midnight \/ UNCHANGED vars
  BY <1>1, <1>10 DEF PaperSwipe, Midnight, vars, rowVars
<1> QED BY <1>1, <1>3, <1>4, <1>5, <1>6, <1>7, <1>8, <1>9, <1>10
        DEF Next, SubmitStep, PassStep

-----------------------------------------------------------------------------
(* The ledger contract.                                                   *)

\* The initial state is an initial state of the contract.
LEMMA ContractInit == Init => Contract!Init
BY DEF Init, Contract!Init, Status, Charged, Booked

\* A step that changes nothing the ledger contract speaks of.
LEMMA Stutters ==
  ASSUME \A a \in Attempts : Status(a)' = Status(a) /\ Charged(a)' = Charged(a),
         UNCHANGED booked
  PROVE  UNCHANGED Contract!contractVars
BY DEF Contract!contractVars

\* The exchange matches the order of an open attempt.
LEMMA Charges ==
  ASSUME NEW a \in Attempts, Status(a) = "open", Charged(a) = 0,
         Charged(a)' \in 1 .. MaxMatched, UNCHANGED booked,
         \A b \in Attempts : Status(b)' = Status(b),
         \A b \in Attempts \ {a} : Charged(b)' = Charged(b)
  PROVE  Contract!Next
<1>1. Contract!Charge(a)
  BY DEF Contract!Charge
<1> QED BY <1>1 DEF Contract!Next

\* The ledger books more of what an attempt was charged.
LEMMA Credits ==
  ASSUME RowTypes, NEW a \in Attempts, Status(a) \in {"open", "credited"}, Status(a)' = "credited",
         NEW n \in (booked[a] + 1) .. Charged(a), booked' = [booked EXCEPT ![a] = n],
         \A b \in Attempts \ {a} : Status(b)' = Status(b),
         \A b \in Attempts : Charged(b)' = Charged(b)
  PROVE  Contract!Next
<1>1. Contract!Credit(a)
  BY DEF Contract!Credit
<1> QED BY <1>1 DEF Contract!Next

\* An open attempt that was never charged is closed.
LEMMA Voids ==
  ASSUME NEW a \in Attempts, Status(a) = "open", Charged(a) = 0, Status(a)' = "void",
         UNCHANGED booked,
         \A b \in Attempts \ {a} : Status(b)' = Status(b),
         \A b \in Attempts : Charged(b)' = Charged(b)
  PROVE  Contract!Next
<1>1. Contract!Void(a)
  BY DEF Contract!Void
<1> QED BY <1>1 DEF Contract!Next

\* Booking a total of at most what was charged credits it, or is a stutter.
LEMMA ContractBooks ==
  ASSUME Core, NEW a \in Attempts, NEW n \in Nat, BookTotal(a, n), n <= Charged(a),
         state[a] \in {"POSTED"} \cup Booked \/ n <= booked[a], UNCHANGED <<hash, matched>>
  PROVE  [Contract!Next]_Contract!contractVars
<1>1. booked[a] \in Nat /\ state[a] \in States /\ RowTypes
  BY SizeAssumption DEF Core, TypeOK, RowTypes, Shares
<1>2. \A b \in Attempts : Charged(b)' = Charged(b)
  BY DEF Charged
<1>3. \A b \in Attempts \ {a} : Status(b)' = Status(b)
  BY BookingStays DEF Status
<1>4. CASE n > booked[a]
  <2>1. booked' = [booked EXCEPT ![a] = n] /\ state'[a] \in Booked
    BY <1>1, <1>4 DEF BookTotal, Label, Booked, RowTypes
  <2>2. Status(a) \in {"open", "credited"} /\ Status(a)' = "credited"
    BY <1>4, <2>1, <1>1 DEF Status, Booked
  <2>3. n \in (booked[a] + 1) .. Charged(a)
    BY <1>1, <1>4, SizeAssumption DEF Charged, Core, TypeOK, OrderTypes, RowTypes, Shares
  <2> QED BY <1>1, <1>2, <1>3, <2>1, <2>2, <2>3, Credits
<1>5. CASE ~(n > booked[a])
  <2>1. state'[a] = state[a] \/ (state[a] \in Booked /\ state'[a] \in Booked)
    BY <1>1, <1>5 DEF BookTotal, Core, BookedOK, Label, Booked, RowTypes
  <2>2. Status(a)' = Status(a)
    BY <2>1 DEF Status, Booked
  <2>3. UNCHANGED booked
    BY <1>5 DEF BookTotal
  <2> QED BY <1>2, <1>3, <2>2, <2>3, Stutters
<1> QED BY <1>4, <1>5

\* Every step of the protocol is a step of the contract or a stutter.
LEMMA ContractStep == ASSUME IInv, [Next]_vars PROVE [Contract!Next]_Contract!contractVars
<1> DEFINE Maps == [Contract!Next]_Contract!contractVars
<1>0. Core /\ RowTypes BY DEF IInv, Core, TypeOK
<1>1. ASSUME UNCHANGED <<state, hash, matched, booked>> PROVE Maps
  BY <1>1, Stutters DEF Status, Charged
<1>2. ASSUME NEW a \in Attempts, {state[a], state'[a]} \subseteq {"NONE", "ISSUED", "SUBMITTING", "POSTED"},
             \A b \in Attempts \ {a} : state'[b] = state[b],
             UNCHANGED <<hash, matched, booked>>
      PROVE  Maps
  BY <1>2, Stutters DEF Status, Charged, Booked
<1>3. ASSUME NEW a \in Attempts, state[a] \in {"ISSUED", "SUBMITTING", "POSTED"},
             state'[a] \in {"KILLED", "FAILED"}, Charged(a) = 0,
             \A b \in Attempts \ {a} : state'[b] = state[b],
             UNCHANGED <<hash, matched, booked>>
      PROVE  Maps
  <2>1. Status(a) = "open" /\ Status(a)' = "void" BY <1>3 DEF Status, Booked
  <2>2. \A b \in Attempts \ {a} : Status(b)' = Status(b) BY <1>3 DEF Status
  <2>3. \A b \in Attempts : Charged(b)' = Charged(b) BY <1>3 DEF Charged
  <2> QED BY <1>3, <2>1, <2>2, <2>3, Voids
<1>4. ASSUME NEW a \in Attempts,
             NEW m \in Markets, NEW dir \in {"ENTRY", "EXIT"}, Intent(a, m, dir)
      PROVE  Maps
  BY <1>0, <1>2, <1>4 DEF Intent, RowTypes, orderVars
<1>5. ASSUME NEW a \in Attempts, ExpireIntent(a) PROVE Maps
  <2>1. Charged(a) = 0 BY <1>0, <1>5 DEF ExpireIntent, Core, HolderOK, Charged
  <2> QED BY <1>0, <1>3, <1>5, <2>1 DEF ExpireIntent, RowTypes, orderVars
<1>6. ASSUME NEW a \in Attempts, NEW o \in Orders, SubmitClaim(a, o) PROVE Maps
  <2>1. hash[a] = None /\ matched[o] = 0 /\ hash'[a] = o /\ matched' = matched
    BY <1>0, <1>6, SizeAssumption DEF SubmitClaim, Unclaimed, Core, HolderOK, OrderOK,
      TypeOK, OrderTypes,
       RowTypes, Shares, orderVars
  <2>2. \A b \in Attempts : Charged(b)' = Charged(b)
    BY <1>0, <1>6, <2>1 DEF SubmitClaim, Charged, RowTypes
  <2>3. \A b \in Attempts : Status(b)' = Status(b)
    BY <1>0, <1>6 DEF SubmitClaim, Status, Booked, RowTypes
  <2> QED BY <1>6, <2>2, <2>3, Stutters DEF SubmitClaim
<1>7. ASSUME NEW a \in Attempts, SubmitRollback(a) PROVE Maps
  <2>1. hash[a] \in Orders /\ matched[hash[a]] = 0 /\ matched' = matched
    BY <1>0, <1>7, SizeAssumption DEF SubmitRollback, Core, HolderOK, OrderOK, TypeOK,
      OrderTypes,
       RowTypes, Shares, orderVars
  <2>2. \A b \in Attempts : Charged(b)' = Charged(b)
    BY <1>0, <1>7, <2>1 DEF SubmitRollback, Charged, RowTypes
  <2>3. \A b \in Attempts : Status(b)' = Status(b)
    BY <1>0, <1>7 DEF SubmitRollback, Status, Booked, RowTypes
  <2> QED BY <1>7, <2>2, <2>3, Stutters DEF SubmitRollback
<1>8. ASSUME NEW a \in Attempts, SubmitRefused(a) PROVE Maps
  <2>1. Charged(a) = 0
    BY <1>0, <1>8, SizeAssumption DEF SubmitRefused, Core, HolderOK, OrderOK, Charged,
      TypeOK, OrderTypes, RowTypes, Shares
  <2> QED BY <1>0, <1>1, <1>3, <1>8, <2>1 DEF SubmitRefused, RowTypes
<1>9. ASSUME NEW a \in Attempts, SubmitAccepted(a) \/ SubmitRejected(a) PROVE Maps
  BY <1>0, <1>1, <1>2, <1>9 DEF SubmitAccepted, SubmitRejected, WritePosted, RowTypes,
    orderVars
<1>10. ASSUME NEW a \in Attempts, SubmitBook(a) PROVE Maps
  <2>1. BookTotal(a, matched[hash[a]]) /\ matched[hash[a]] \in Nat /\ matched[hash[a]] = Charged(a)
        /\ state[a] \in {"POSTED"} \cup Booked
    BY <1>0, <1>10, SizeAssumption
       DEF SubmitBook, Core, TypeOK, RowTypes, OrderTypes, HolderOK, Booked, Shares, Charged
  <2> QED BY <1>0, <1>10, <2>1, ContractBooks DEF SubmitBook, orderVars
<1>11. ASSUME NEW a \in Attempts, SubmitKill(a) PROVE Maps
  <2>1. Charged(a) = 0
    BY <1>0, <1>11, SizeAssumption DEF SubmitKill, Core, HolderOK, OrderOK, Charged,
      TypeOK, OrderTypes, RowTypes, Shares
  <2> QED BY <1>0, <1>1, <1>3, <1>11, <2>1 DEF SubmitKill, Kill, RowTypes, orderVars
<1>12. ASSUME NEW o \in Orders, Match(o) PROVE Maps
  <2>1. PICK n \in Shares : matched' = [matched EXCEPT ![o] = n] /\ UNCHANGED <<state, hash, booked>>
    BY <1>12 DEF Match, rowVars
  <2>2. matched[o] = 0 /\ phase[o] = "live"
    BY <1>0, <1>12, SizeAssumption DEF Match, Core, OrderOK, TypeOK, OrderTypes, Shares
  <2>3. \A b \in Attempts : Status(b)' = Status(b)
    BY <2>1 DEF Status
  <2>4. CASE \A b \in Attempts : hash[b] # o \/ n = 0
    <3>1. \A b \in Attempts : Charged(b)' = Charged(b)
      BY <1>0, <2>1, <2>2, <2>4 DEF Charged, Core, TypeOK, OrderTypes, RowTypes
    <3> QED BY <2>1, <2>3, <3>1, Stutters
  <2>5. ASSUME NEW a \in Attempts, hash[a] = o, n # 0 PROVE Maps
    <3>1. Charged(a) = 0 /\ Charged(a)' \in 1 .. MaxMatched
      BY <1>0, <2>1, <2>2, <2>5, NoneAssumption, SizeAssumption DEF Charged, Core, TypeOK,
        OrderTypes, Shares
    <3>2. \A b \in Attempts \ {a} : Charged(b)' = Charged(b)
      BY <1>0, <2>1, <2>5, NoneAssumption DEF Charged, Core, BindingOK, TypeOK,
        OrderTypes, RowTypes
    <3>3. Status(a) = "open"
      <4>1. state[a] \notin {"KILLED", "FAILED"}
        BY <2>2, <2>5, <1>0, NoneAssumption DEF Core, NoMoneyLost
      <4>2. state[a] \notin Booked
        BY <1>0, <2>5, <3>1, SizeAssumption DEF Core, BookedOK, TypeOK, RowTypes, Shares
      <4> QED BY <4>1, <4>2 DEF Status
    <3> QED BY <2>1, <2>3, <3>1, <3>2, <3>3, Charges
  <2> QED BY <2>4, <2>5
<1>13. ASSUME NEW p \in Workers, OrphanKill(p) PROVE Maps
  <2>1. PICK a \in Attempts : a = pass[p].attempt
    BY <1>0, <1>13 DEF OrphanKill, Core, TypeOK, PassTypes
  <2>2. Charged(a) = 0
    BY <1>0, <1>13, <2>1 DEF OrphanKill, Core, PassOK, Knows, Charged
  <2> QED BY <1>0, <1>1, <1>3, <1>13, <2>1, <2>2 DEF OrphanKill, OrphanKillWhere, Kill,
    RowTypes, orderVars
<1>14. ASSUME NEW p \in Workers, Adopt(p) PROVE Maps
  BY <1>0, <1>1, <1>2, <1>14 DEF Adopt, CanBind, RowTypes, orderVars
<1>15. ASSUME NEW p \in Workers, Book(p) PROVE Maps
  <2>1. PICK a \in Attempts, n \in Nat : a = pass[p].attempt /\ n = pass[p].total
    BY <1>0, <1>15, SizeAssumption DEF Book, Core, TypeOK, PassTypes, Passes, Shares
  <2>2. hash[a] # None /\ n <= matched[hash[a]] /\ (n = 0 => n = matched[hash[a]])
    BY <1>0, <1>15, <2>1 DEF Book, Core, PassOK, Knows
  <2>3. CASE n > 0
    BY <1>0, <1>15, <2>1, <2>2, <2>3, BookedRow, ContractBooks DEF Book, Charged, orderVars
  <2>4. CASE n = 0
    BY <1>0, <1>1, <1>3, <1>15, <2>1, <2>2, <2>4 DEF Book, Kill, Charged, RowTypes,
      orderVars
  <2> QED BY <2>3, <2>4
<1>16. ASSUME NEW a \in Attempts,
             \/ SubmitApprove(a) \/ SubmitPost(a) \/ SubmitAmbiguous(a) \/ SubmitDies(a)
             \/ BrowserStep(a) \/ Age(a) \/ (\E o \in Orders : ReportForeign(a, o))
      PROVE  Maps
  BY <1>1, <1>16 DEF SubmitApprove, SubmitPost, SubmitAmbiguous, SubmitDies, BrowserStep,
     BrowserPost, BrowserLearns, BrowserQuits, Age, ReportForeign, rowVars, orderVars
<1>17. ASSUME NEW o \in Orders, Accept(o) \/ Drop(o) \/ Index(o)
       PROVE  Maps
  BY <1>1, <1>17 DEF Accept, Drop, Index, rowVars
<1>18. ASSUME NEW p \in Workers,
             \/ (\E a \in Attempts : \/ Report(p, a) \/ FastPass(p, a)
                                     \/ OrphanLook(p, a) \/ ReconcilePick(p, a))
             \/ Probe(p) \/ TrueUp(p) \/ PassDies(p)
      PROVE  Maps
  BY <1>1, <1>18 DEF Report, FastPass, OrphanLook, ReconcilePick, Probe, TrueUp, PassDies,
     rowVars, orderVars
<1>19. CASE PaperSwipe \/ Midnight \/ UNCHANGED vars
  BY <1>1, <1>19 DEF PaperSwipe, Midnight, vars, rowVars, orderVars
<1>20. ASSUME NEW a \in Attempts, SubmitStep(a) PROVE Maps
  BY <1>6, <1>7, <1>8, <1>9, <1>10, <1>11, <1>16, <1>20 DEF SubmitStep
<1>21. ASSUME NEW o \in Orders, ExchangeStep(o) PROVE Maps
  BY <1>12, <1>17, <1>21 DEF ExchangeStep
<1>22. ASSUME NEW p \in Workers, PassStep(p) PROVE Maps
  BY <1>13, <1>14, <1>15, <1>18, <1>22 DEF PassStep
<1> QED BY <1>4, <1>5, <1>16, <1>19, <1>20, <1>21, <1>22 DEF Next

-----------------------------------------------------------------------------
(* The theorems.                                                           *)

\* Every step keeps the inductive invariant.
LEMMA Step == ASSUME IInv, [Next]_vars PROVE IInv'
<1>1. Core BY DEF IInv
<1>2. Core'
  <2>1. CASE \E a \in Attempts : SubmitStep(a) BY <1>1, <2>1, SubmitKeepsCore
  <2>2. CASE \E a \in Attempts : BrowserStep(a) BY <1>1, <2>2, BrowserKeepsCore
  <2>3. CASE \E o \in Orders : ExchangeStep(o) BY <1>1, <2>3, ExchangeKeepsCore
  <2>4. CASE \E p \in Workers : PassStep(p) BY <1>1, <2>4, PassKeepsCore
  <2> QED BY <1>1, <2>1, <2>2, <2>3, <2>4, OthersKeepCore
<1> QED BY <1>2, SlotStep DEF IInv

\* The rows, the exchange orders, the passes and the counters agree in every
\* reachable state, as OrderInvariant says.
THEOREM Invariance == Spec => []IInv
<1>1. Init => IInv BY InitHolds
<1>2. IInv /\ [Next]_vars => IInv' BY Step
<1> QED BY <1>1, <1>2, PTL DEF Spec

\* Every column and counter of the order path stays within its type.
THEOREM TypeCorrect == Spec => []TypeOK
<1>1. IInv => TypeOK BY DEF IInv, Core
<1> QED BY <1>1, Invariance, PTL

\* swipeCount counts the day's paper bets and the ENTRY attempts that claimed a
\* slot and still hold it: submit, rollback, refusal and every kill balance.
THEOREM SlotsBalance == Spec => []SlotAccounting
<1>1. IInv => SlotAccounting BY DEF IInv
<1> QED BY <1>1, Invariance, PTL

\* The claim's post-increment check holds the daily cap under any race.
THEOREM CapHolds == Spec => []DailyCap
<1>1. IInv => DailyCap
  <2>1. ASSUME IInv, NEW d \in Days PROVE paper[d] + Cardinality(Held(d)) <= SwipeCap
    <3>1. swipes[d] = paper[d] + Cardinality(Held(d)) BY <2>1 DEF IInv, SlotAccounting
    <3>2. swipes[d] <= SwipeCap BY <2>1 DEF IInv, Core, CapOK
    <3> QED BY <3>1, <3>2
  <2> QED BY <2>1 DEF DailyCap
<1> QED BY <1>1, Invariance, PTL

\* No exchange order is ever bound to two attempts, nor to one that did not
\* sign it.
THEOREM BoundOnce == Spec => []OneBinding
<1>1. IInv => OneBinding BY DEF IInv, Core, BindingOK, OneBinding
<1> QED BY <1>1, Invariance, PTL

\* An attempt closed as KILLED or FAILED was not charged and cannot be any more.
THEOREM ClosedIsUncharged == Spec => []NoMoneyLost
<1>1. IInv => NoMoneyLost BY DEF IInv, Core
<1> QED BY <1>1, Invariance, PTL

\* Concurrent receipts and stale verdicts never book a share twice.
THEOREM BookedOnce == Spec => []NeverOverbooked
<1>1. IInv => NeverOverbooked BY DEF IInv, Core, BookedOK, NeverOverbooked
<1> QED BY <1>1, Invariance, PTL

\* The stamp that ends the sweeps is set on complete bookings only.
THEOREM StampIsComplete == Spec => []FinalIsComplete
<1>1. IInv => FinalIsComplete BY DEF IInv, Core, BookedOK, FinalIsComplete
<1> QED BY <1>1, Invariance, PTL

\* A sweep never kills an attempt whose order the phone has reported.
THEOREM ReportIsSafe == Spec => []ReportedNeverKilled
<1>1. IInv => ReportedNeverKilled BY DEF IInv, Core, MarkerOK, ReportedNeverKilled
<1> QED BY <1>1, Invariance, PTL

\* FILLED and PARTIAL say what the Fill rows add up to.
THEOREM LabelIsTrue == Spec => []LabelMatchesLedger
<1>1. ASSUME IInv, NEW a \in Attempts
      PROVE  /\ state[a] = "FILLED" => booked[a] >= SignedSize
             /\ state[a] = "PARTIAL" => booked[a] \in 1 .. (SignedSize - 1)
  <2>1. booked[a] \in Nat /\ (state[a] \in Booked => booked[a] > 0 /\ state[a] = Label(booked[a]))
    BY <1>1, SizeAssumption DEF IInv, Core, TypeOK, RowTypes, Shares, BookedOK
  <2> QED BY <2>1, SizeAssumption DEF Label, Booked
<1>2. IInv => LabelMatchesLedger BY <1>1 DEF LabelMatchesLedger
<1> QED BY <1>2, Invariance, PTL

\* KILLED, FAILED and FILLED are left by no step, a booked row never goes back
\* in flight.
THEOREM DecisionsAreFinal == Spec => DecisionsStand
<1>1. IInv /\ [Next]_vars => [Decided]_vars BY DecisionStep
<1> QED BY <1>1, Invariance, PTL DEF Spec, DecisionsStand, Decided

\* The order path implements the ledger contract.
THEOREM ImplementsContract == Spec => KeepsContract
<1>1. Init => Contract!Init BY ContractInit
<1>2. IInv /\ [Next]_vars => [Contract!Next]_Contract!contractVars BY ContractStep
<1> QED BY <1>1, <1>2, Invariance, PTL DEF Spec, KeepsContract, Contract!Spec
=============================================================================
