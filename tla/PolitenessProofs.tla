--------------------------- MODULE PolitenessProofs ---------------------------
(***************************************************************************)
(* Proofs about Politeness, for any number of workers and domains, any     *)
(* cap, any delays and any number of deaths: when no key expires and no    *)
(* reset falls inside an acquire, the workers together keep to the cap and *)
(* to the crawl delay, and while none has died remaining_today is exact.   *)
(***************************************************************************)
EXTENDS Politeness, SequenceTheorems, FiniteSetTheorems, TLAPS

(***************************************************************************)
(* How many workers are at a step                                          *)
(***************************************************************************)
Size(d, steps) == Cardinality(Inside(d, steps))

Counted(h, d, steps) == IF h # None /\ h.domain = d /\ h.step \in steps THEN 1 ELSE 0

LEMMA SizeIsNat ==
  ASSUME NEW d, NEW steps
  PROVE  IsFiniteSet(Inside(d, steps)) /\ Size(d, steps) \in Nat
<1>1. Inside(d, steps) \subseteq Workers
  BY DEF Inside
<1> QED BY <1>1, FS_Subset, FS_CardinalityType, PolitenessAssumption DEF Size

\* The workers that set an expiry are among those with an increment to answer for.
LEMMA SizeOfPart ==
  ASSUME NEW d
  PROVE  Size(d, {"expire"}) <= Size(d, {"expire", "rollback"})
<1>1. Inside(d, {"expire"}) \subseteq Inside(d, {"expire", "rollback"})
  BY DEF Inside
<1> QED BY <1>1, FS_Subset, SizeIsNat DEF Size

LEMMA NobodyInside ==
  ASSUME \A w \in Workers : acq[w] = None, NEW d, NEW steps
  PROVE  Size(d, steps) = 0
<1>1. Inside(d, steps) = {}
  BY DEF Inside
<1> QED BY <1>1, FS_EmptySet DEF Size

\* A worker that goes from one step to another changes the counts of the two.
LEMMA SizeMoves ==
  ASSUME KeysOK, NEW w \in Workers, NEW h, acq' = [acq EXCEPT ![w] = h],
         NEW d, NEW steps
  PROVE  Size(d, steps)' = Size(d, steps) + Counted(h, d, steps) - Counted(acq[w], d, steps)
<1>1. /\ Counted(h, d, steps) = 1 => Inside(d, steps)' = Inside(d, steps) \cup {w}
      /\ Counted(h, d, steps) = 0 => Inside(d, steps)' = Inside(d, steps) \ {w}
      /\ w \in Inside(d, steps) <=> Counted(acq[w], d, steps) = 1
      /\ Counted(h, d, steps) \in {0, 1} /\ Counted(acq[w], d, steps) \in {0, 1}
  BY DEF Inside, Counted, KeysOK
<1>2. IsFiniteSet(Inside(d, steps)) /\ Size(d, steps) \in Nat
  BY SizeIsNat
<1>3. Cardinality(Inside(d, steps) \cup {w}) =
        IF w \in Inside(d, steps) THEN Size(d, steps) ELSE Size(d, steps) + 1
  BY <1>2, FS_AddElement DEF Size
<1>4. Cardinality(Inside(d, steps) \ {w}) =
        IF w \in Inside(d, steps) THEN Size(d, steps) - 1 ELSE Size(d, steps)
  BY <1>2, FS_RemoveElement DEF Size
<1>5. Size(d, steps)' = Cardinality(Inside(d, steps)')
  BY DEF Size
<1>6. CASE Counted(h, d, steps) = 1
  <2>1. Size(d, steps)' = Cardinality(Inside(d, steps) \cup {w})
    BY <1>1, <1>5, <1>6
  <2>2. w \in Inside(d, steps) => Counted(acq[w], d, steps) = 1
    BY <1>1
  <2>3. w \notin Inside(d, steps) => Counted(acq[w], d, steps) = 0
    BY <1>1
  <2> QED BY <1>2, <1>3, <1>6, <2>1, <2>2, <2>3
<1>7. CASE Counted(h, d, steps) = 0
  BY <1>1, <1>2, <1>4, <1>5, <1>7
<1> QED BY <1>1, <1>6, <1>7

(***************************************************************************)
(* A step of one worker                                                    *)
(***************************************************************************)
\* What a worker's step must come to: in every domain the grants and the
\* increments in hand grow by what the count grows, or stay below it if the
\* worker dies; the grants promised fit under the cap.
Balanced(w, h) ==
  /\ acq' = [acq EXCEPT ![w] = h]
  /\ h # None /\ h.step = "expire" => (h.over <=> Cap = 0)
  /\ \A d \in Domains :
       LET moved == window'[d] - window[d] + Counted(h, d, {"expire", "rollback"})
                      - Counted(acq[w], d, {"expire", "rollback"})
           promised == window'[d] - window[d] + Counted(h, d, {"expire"})
                         - Counted(acq[w], d, {"expire"})
       IN  /\ moved = Value(d)' - Value(d) \/ (deaths' > 0 /\ moved <= Value(d)' - Value(d))
           /\ Cap > 0 => promised <= 0 \/ window[d] + Size(d, {"expire"}) + promised <= Cap
           /\ Cap = 0 => window'[d] = window[d]

LEMMA BalancedPreserves ==
  ASSUME KeysOK, CountInv, KeysOK', deaths' >= deaths, NEW w \in Workers, NEW h,
         Balanced(w, h)
  PROVE  CountInv'
<1>1. ASSUME NEW v \in Workers, At(v, "expire")' PROVE (acq[v].over <=> Cap = 0)'
  BY <1>1 DEF Balanced, CountInv, At, KeysOK
<1>2. acq' = [acq EXCEPT ![w] = h]
  BY DEF Balanced
<1>3. ASSUME NEW d \in Domains
      PROVE  LET incremented == window'[d] + Size(d, {"expire", "rollback"})'
             IN  /\ incremented <= Value(d)'
                 /\ deaths' = 0 => incremented = Value(d)'
                 /\ Cap > 0 => window'[d] + Size(d, {"expire"})' <= Cap
                 /\ Cap = 0 => window'[d] = 0
  <2>1. /\ Size(d, {"expire", "rollback"})' = Size(d, {"expire", "rollback"})
             + Counted(h, d, {"expire", "rollback"}) - Counted(acq[w], d, {"expire", "rollback"})
        /\ Size(d, {"expire"})' = Size(d, {"expire"})
             + Counted(h, d, {"expire"}) - Counted(acq[w], d, {"expire"})
    <3>1. \A steps : Size(d, steps)' = Size(d, steps) + Counted(h, d, steps)
                                         - Counted(acq[w], d, steps)
      BY <1>2, SizeMoves
    <3> QED BY <3>1
  <2>2. /\ window[d] + Size(d, {"expire", "rollback"}) <= Value(d)
        /\ deaths = 0 => window[d] + Size(d, {"expire", "rollback"}) = Value(d)
        /\ Cap > 0 => window[d] + Size(d, {"expire"}) <= Cap
        /\ Cap = 0 => window[d] = 0
    BY DEF CountInv, Size
  <2>3. /\ window[d] \in Nat /\ window'[d] \in Nat /\ Value(d) \in Int /\ Value(d)' \in Int
        /\ Size(d, {"expire", "rollback"}) \in Nat /\ Size(d, {"expire"}) \in Nat
        /\ deaths \in Nat /\ deaths' \in Nat /\ Cap \in Nat
    BY SizeIsNat, PolitenessAssumption DEF KeysOK, Value
  <2>4. /\ Counted(h, d, {"expire", "rollback"}) \in {0, 1}
        /\ Counted(acq[w], d, {"expire", "rollback"}) \in {0, 1}
        /\ Counted(h, d, {"expire"}) \in {0, 1} /\ Counted(acq[w], d, {"expire"}) \in {0, 1}
    BY DEF Counted
  <2> DEFINE moved == window'[d] - window[d] + Counted(h, d, {"expire", "rollback"})
                        - Counted(acq[w], d, {"expire", "rollback"})
             promised == window'[d] - window[d] + Counted(h, d, {"expire"})
                           - Counted(acq[w], d, {"expire"})
  <2>5. /\ moved = Value(d)' - Value(d) \/ (deaths' > 0 /\ moved <= Value(d)' - Value(d))
        /\ Cap > 0 => promised <= 0 \/ window[d] + Size(d, {"expire"}) + promised <= Cap
        /\ Cap = 0 => window'[d] = window[d]
    BY DEF Balanced
  <2>6. /\ window'[d] + Size(d, {"expire", "rollback"})' =
             window[d] + Size(d, {"expire", "rollback"}) + moved
        /\ window'[d] + Size(d, {"expire"})' = window[d] + Size(d, {"expire"}) + promised
        /\ moved \in Int /\ promised \in Int
    BY <2>1, <2>3, <2>4
  <2> HIDE DEF moved, promised
  <2> QED BY <2>2, <2>3, <2>5, <2>6
<1> QED BY <1>1, <1>3 DEF CountInv, Size

LEMMA EnterPreserves ==
  ASSUME KeysOK, CountInv, NEW w \in Workers, NEW d \in Domains, NEW call \in Calls,
         Enter(w, d, call)
  PROVE  KeysOK' /\ CountInv'
<1> DEFINE h == [domain |-> d, delay |-> call.delay, capped |-> call.capped,
                 step |-> IF call.delay > 0 THEN "delay" ELSE "count", over |-> FALSE]
<1>1. h \in Acquiring /\ h.step \in {"delay", "count"}
  BY PolitenessAssumption DEF Acquiring
<1>2. acq[w] = None /\ acq' = [acq EXCEPT ![w] = h]
      /\ UNCHANGED <<gate, count, ttl, grants, window, deaths>>
  BY DEF Enter
<1> HIDE DEF h
<1>3. KeysOK'
  BY <1>1, <1>2 DEF KeysOK
<1>4. Balanced(w, h) /\ deaths' >= deaths
  BY <1>1, <1>2 DEF Balanced, Counted, Value, KeysOK
<1> QED BY <1>3, <1>4, BalancedPreserves

LEMMA TakeDelayPreserves ==
  ASSUME KeysOK, CountInv, NEW w \in Workers, TakeDelay(w)
  PROVE  KeysOK' /\ CountInv'
<1> DEFINE h == [acq[w] EXCEPT !.step = "count"]
<1>1. acq[w] \in Acquiring /\ acq[w] # None /\ acq[w].step = "delay"
  BY DEF TakeDelay, At, KeysOK
<1>2. /\ acq' = [acq EXCEPT ![w] = h] /\ gate' = [gate EXCEPT ![acq[w].domain] = acq[w].delay]
      /\ UNCHANGED <<count, ttl, grants, window, deaths>>
  BY <1>1 DEF TakeDelay, KeysOK
<1>3. h \in Acquiring /\ h.step = "count"
  BY <1>1 DEF Acquiring
<1> HIDE DEF h
<1>4. KeysOK'
  BY <1>1, <1>2, <1>3 DEF KeysOK, Acquiring
<1>5. Balanced(w, h) /\ deaths' >= deaths
  BY <1>1, <1>2, <1>3 DEF Balanced, Counted, Value, KeysOK
<1> QED BY <1>4, <1>5, BalancedPreserves

LEMMA TooSoonPreserves ==
  ASSUME KeysOK, CountInv, NEW w \in Workers, TooSoon(w)
  PROVE  KeysOK' /\ CountInv'
<1>1. acq[w] # None /\ acq[w].step = "delay" /\ acq' = [acq EXCEPT ![w] = None]
      /\ UNCHANGED <<gate, count, ttl, grants, window, deaths>>
  BY DEF TooSoon, At, Refuse
<1>2. KeysOK'
  BY <1>1 DEF KeysOK
<1>3. Balanced(w, None) /\ deaths' >= deaths
  BY <1>1 DEF Balanced, Counted, Value, KeysOK
<1> QED BY <1>2, <1>3, BalancedPreserves

\* INCR: the first increment is answered for by setting the expiry, one over
\* the cap by giving it back, and any other by a grant.
LEMMA CountPreserves ==
  ASSUME KeysOK, CountInv, NEW w \in Workers, Count(w)
  PROVE  KeysOK' /\ CountInv'
<1>1. acq[w] \in Acquiring /\ acq[w] # None /\ acq[w].step = "count" /\ Cap \in Nat
  BY PolitenessAssumption DEF Count, At, KeysOK
<1> PICK d \in Domains : d = acq[w].domain
  BY <1>1 DEF Acquiring
<1> DEFINE n == Value(d) + 1
<1>2. /\ Value(d) \in Int /\ window[d] \in Nat
      /\ Size(d, {"expire"}) \in Nat /\ Size(d, {"expire", "rollback"}) \in Nat
      /\ Size(d, {"expire"}) <= Size(d, {"expire", "rollback"})
      /\ window[d] + Size(d, {"expire", "rollback"}) <= Value(d)
  BY SizeIsNat, SizeOfPart DEF KeysOK, Value, CountInv, Size
<1>3. count' = [count EXCEPT ![d] = n] /\ UNCHANGED <<gate, ttl>>
  BY DEF Count
<1>4. /\ Value(d)' = n
      /\ \A e \in Domains : e # d => Value(e)' = Value(e)
      /\ count' \in [Domains -> Int \cup {None}]
  BY <1>2, <1>3, NoAcquiring DEF Value, KeysOK
<1> HIDE DEF n
<1>5. CASE n = 1
  <2> PICK b \in BOOLEAN : b = (n > Cap) /\ (b <=> Cap = 0)
    <3>1. CASE Cap = 0
      <4>1. (n > Cap) = TRUE
        BY <1>5, <3>1
      <4> QED BY <3>1, <4>1
    <3>2. CASE Cap # 0
      <4>1. (n > Cap) = FALSE
        BY <1>1, <1>5, <3>2
      <4> QED BY <3>2, <4>1
    <3> QED BY <3>1, <3>2
  <2> DEFINE h == [acq[w] EXCEPT !.step = "expire", !.over = b]
  <2>1. acq' = [acq EXCEPT ![w] = h] /\ UNCHANGED <<window, deaths>>
    BY <1>1, <1>5 DEF Count, n, KeysOK
  <2>2. h \in Acquiring /\ h # None /\ h.step = "expire" /\ h.domain = d /\ h.over = b
    <3>1. h \in Acquiring /\ h.step = "expire" /\ h.domain = d /\ h.over = b
      BY <1>1 DEF Acquiring
    <3> QED BY <3>1, NoAcquiring
  <2> HIDE DEF h
  <2>3. KeysOK'
    BY <1>3, <1>4, <2>1, <2>2 DEF KeysOK
  <2>4. window[d] = 0 /\ Size(d, {"expire"}) = 0
    BY <1>2, <1>5 DEF n
  <2>5. Counted(h, d, {"expire", "rollback"}) = 1 /\ Counted(h, d, {"expire"}) = 1
        /\ \A e : /\ Counted(acq[w], e, {"expire", "rollback"}) = 0
                  /\ Counted(acq[w], e, {"expire"}) = 0
                  /\ e # d => /\ Counted(h, e, {"expire", "rollback"}) = 0
                             /\ Counted(h, e, {"expire"}) = 0
    BY <1>1, <2>2 DEF Counted
  <2>6. h.over <=> Cap = 0
    BY <2>2
  <2>7. ASSUME NEW e \in Domains, e # d
        PROVE  window[e] \in Nat /\ Value(e)' = Value(e) /\ Value(e) \in Int
    BY <1>4, <2>7 DEF KeysOK, Value
  <2>8. Value(d)' - Value(d) = 1
    BY <1>2, <1>4 DEF n
  <2>9. Balanced(w, h) /\ deaths' >= deaths
    BY <1>1, <1>2, <2>1, <2>2, <2>4, <2>5, <2>6, <2>7, <2>8 DEF Balanced, KeysOK
  <2> QED BY <2>3, <2>9, BalancedPreserves
<1>6. CASE n # 1 /\ n > Cap
  <2> DEFINE h == [acq[w] EXCEPT !.step = "rollback", !.over = TRUE]
  <2>1. acq' = [acq EXCEPT ![w] = h] /\ UNCHANGED <<window, deaths>>
    BY <1>1, <1>6 DEF Count, n, KeysOK
  <2>2. h \in Acquiring /\ h # None /\ h.step = "rollback" /\ h.domain = d
    <3>1. h \in Acquiring /\ h.step = "rollback" /\ h.domain = d
      BY <1>1 DEF Acquiring
    <3> QED BY <3>1, NoAcquiring
  <2> HIDE DEF h
  <2>3. KeysOK'
    BY <1>3, <1>4, <2>1, <2>2 DEF KeysOK
  <2>4. Counted(h, d, {"expire", "rollback"}) = 1
        /\ \A e : /\ Counted(acq[w], e, {"expire", "rollback"}) = 0
                  /\ Counted(acq[w], e, {"expire"}) = 0 /\ Counted(h, e, {"expire"}) = 0
                  /\ e # d => Counted(h, e, {"expire", "rollback"}) = 0
    BY <1>1, <2>2 DEF Counted
  <2>5. ASSUME NEW e \in Domains
        PROVE  window[e] \in Nat /\ Value(e) \in Int /\ (e # d => Value(e)' = Value(e))
    BY <1>4, <2>5 DEF KeysOK, Value
  <2>6. Value(d)' - Value(d) = 1
    BY <1>2, <1>4 DEF n
  <2>7. Balanced(w, h) /\ deaths' >= deaths
    BY <2>1, <2>2, <2>4, <2>5, <2>6 DEF Balanced, KeysOK
  <2> QED BY <2>3, <2>7, BalancedPreserves
<1>7. CASE n # 1 /\ ~(n > Cap)
  <2>1. acq' = [acq EXCEPT ![w] = None] /\ window' = [window EXCEPT ![d] = @ + 1]
        /\ deaths' = deaths
    BY <1>7 DEF Count, n, GrantCounted, Grant
  <2>2. KeysOK'
    BY <1>3, <1>4, <2>1 DEF KeysOK
  <2>3. \A e : /\ Counted(acq[w], e, {"expire", "rollback"}) = 0
               /\ Counted(acq[w], e, {"expire"}) = 0
               /\ Counted(None, e, {"expire", "rollback"}) = 0
               /\ Counted(None, e, {"expire"}) = 0
    BY <1>1 DEF Counted
  <2>4. ASSUME NEW e \in Domains
        PROVE  /\ window[e] \in Nat /\ Value(e) \in Int
               /\ e # d => Value(e)' = Value(e) /\ window'[e] = window[e]
    BY <1>4, <2>1, <2>4 DEF KeysOK, Value
  <2>5. Value(d)' - Value(d) = 1 /\ window'[d] = window[d] + 1
    BY <1>2, <1>4, <2>1 DEF n, KeysOK
  <2>6. window[d] + Size(d, {"expire"}) + 1 <= Cap /\ Cap > 0
    BY <1>1, <1>2, <1>7 DEF n
  <2>7. Balanced(w, None) /\ deaths' >= deaths
    BY <1>1, <1>2, <2>1, <2>3, <2>4, <2>5, <2>6 DEF Balanced, KeysOK
  <2> QED BY <2>2, <2>7, BalancedPreserves
<1> QED BY <1>5, <1>6, <1>7

\* A grant that is not counted leaves the counts alone.
LEMMA GrantUncappedPreserves ==
  ASSUME KeysOK, CountInv, NEW w \in Workers, GrantUncapped(w)
  PROVE  KeysOK' /\ CountInv'
<1>1. acq[w] # None /\ acq[w].step = "count" /\ acq' = [acq EXCEPT ![w] = None]
      /\ UNCHANGED <<gate, count, ttl, window, deaths>>
  BY DEF GrantUncapped, At, Grant
<1>2. KeysOK'
  BY <1>1 DEF KeysOK
<1>3. Balanced(w, None) /\ deaths' >= deaths
  BY <1>1 DEF Balanced, Counted, Value, KeysOK
<1> QED BY <1>2, <1>3, BalancedPreserves

\* EXPIRE: the worker keeps its grant if the cap allows any, and otherwise
\* goes on to give its increment back.
LEMMA SetExpiryPreserves ==
  ASSUME KeysOK, CountInv, NEW w \in Workers, SetExpiry(w)
  PROVE  KeysOK' /\ CountInv'
<1>1. acq[w] \in Acquiring /\ acq[w] # None /\ acq[w].step = "expire" /\ Cap \in Nat
      /\ (acq[w].over <=> Cap = 0)
  BY PolitenessAssumption DEF SetExpiry, At, KeysOK, CountInv
<1> PICK d \in Domains : d = acq[w].domain
  BY <1>1 DEF Acquiring
<1>2. UNCHANGED <<gate, count>> /\ ttl' \in [Domains -> (Nat \ {0}) \cup {None}]
  BY PolitenessAssumption DEF SetExpiry, KeysOK
<1>3. \A e \in Domains : Value(e)' = Value(e) /\ Value(e) \in Int /\ window[e] \in Nat
  BY <1>2 DEF Value, KeysOK
<1>4. /\ Counted(acq[w], d, {"expire", "rollback"}) = 1 /\ Counted(acq[w], d, {"expire"}) = 1
      /\ \A e : e # d => Counted(acq[w], e, {"expire", "rollback"}) = 0
                           /\ Counted(acq[w], e, {"expire"}) = 0
  BY <1>1 DEF Counted
<1>5. CASE acq[w].over
  <2> DEFINE h == [acq[w] EXCEPT !.step = "rollback"]
  <2>1. acq' = [acq EXCEPT ![w] = h] /\ UNCHANGED <<window, deaths>>
    BY <1>1, <1>5 DEF SetExpiry, KeysOK
  <2>2. h \in Acquiring /\ h # None /\ h.step = "rollback" /\ h.domain = d
    <3>1. h \in Acquiring /\ h.step = "rollback" /\ h.domain = d
      BY <1>1 DEF Acquiring
    <3> QED BY <3>1, NoAcquiring
  <2> HIDE DEF h
  <2>3. KeysOK'
    BY <1>2, <2>1, <2>2 DEF KeysOK
  <2>4. /\ Counted(h, d, {"expire", "rollback"}) = 1
        /\ \A e : e # d => Counted(h, e, {"expire", "rollback"}) = 0
        /\ \A e : Counted(h, e, {"expire"}) = 0
    BY <2>2 DEF Counted
  <2>5. Balanced(w, h) /\ deaths' >= deaths
    BY <1>1, <1>3, <1>4, <2>1, <2>2, <2>4 DEF Balanced, KeysOK
  <2> QED BY <2>3, <2>5, BalancedPreserves
<1>6. CASE ~acq[w].over
  <2>1. acq' = [acq EXCEPT ![w] = None] /\ window' = [window EXCEPT ![d] = @ + 1]
        /\ deaths' = deaths
    BY <1>1, <1>6 DEF SetExpiry, GrantCounted, Grant
  <2>2. KeysOK'
    BY <1>2, <2>1 DEF KeysOK
  <2>3. \A e, steps : Counted(None, e, steps) = 0
    BY DEF Counted
  <2>4. Cap > 0 /\ window'[d] = window[d] + 1
        /\ \A e \in Domains : e # d => window'[e] = window[e]
    BY <1>1, <1>6, <2>1 DEF KeysOK
  <2>5. Balanced(w, None) /\ deaths' >= deaths
    BY <1>1, <1>3, <1>4, <2>1, <2>3, <2>4 DEF Balanced, KeysOK
  <2> QED BY <2>2, <2>5, BalancedPreserves
<1> QED BY <1>5, <1>6

\* DECR gives back what the worker's INCR took.
LEMMA RollBackPreserves ==
  ASSUME KeysOK, CountInv, NEW w \in Workers, RollBack(w)
  PROVE  KeysOK' /\ CountInv'
<1>1. acq[w] \in Acquiring /\ acq[w] # None /\ acq[w].step = "rollback"
  BY DEF RollBack, At, KeysOK
<1> PICK d \in Domains : d = acq[w].domain
  BY <1>1 DEF Acquiring
<1>2. count' = [count EXCEPT ![d] = Value(d) - 1] /\ acq' = [acq EXCEPT ![w] = None]
      /\ UNCHANGED <<gate, ttl, window, deaths>>
  BY DEF RollBack, Refuse
<1>3. Value(d) \in Int
  BY DEF Value, KeysOK
<1>4. /\ Value(d)' = Value(d) - 1
      /\ \A e \in Domains : e # d => Value(e)' = Value(e)
      /\ count' \in [Domains -> Int \cup {None}]
  BY <1>2, <1>3, NoAcquiring DEF Value, KeysOK
<1>5. KeysOK'
  BY <1>2, <1>4 DEF KeysOK
<1>6. /\ Counted(acq[w], d, {"expire", "rollback"}) = 1
      /\ \A e : e # d => Counted(acq[w], e, {"expire", "rollback"}) = 0
      /\ \A e : Counted(acq[w], e, {"expire"}) = 0
      /\ \A e, steps : Counted(None, e, steps) = 0
  BY <1>1 DEF Counted
<1>7. \A e \in Domains : Value(e) \in Int /\ window[e] \in Nat
  BY DEF Value, KeysOK
<1>8. Balanced(w, None) /\ deaths' >= deaths
  BY <1>2, <1>4, <1>6, <1>7 DEF Balanced, KeysOK
<1> QED BY <1>5, <1>8, BalancedPreserves

\* A worker that dies keeps its increment: from then on the count may be
\* larger than the grants.
LEMMA DiesPreserves ==
  ASSUME KeysOK, CountInv, NEW w \in Workers, Dies(w)
  PROVE  KeysOK' /\ CountInv'
<1>1. acq' = [acq EXCEPT ![w] = None] /\ deaths' = deaths + 1 /\ deaths < MaxDeaths
      /\ UNCHANGED <<gate, count, ttl, window>>
  BY DEF Dies
<1>2. KeysOK'
  BY <1>1, PolitenessAssumption DEF KeysOK
<1>3. /\ \A e, steps : Counted(None, e, steps) = 0
      /\ \A e, steps : Counted(acq[w], e, steps) \in {0, 1}
  BY DEF Counted
<1>4. deaths' > 0 /\ deaths' >= deaths
  BY <1>1 DEF KeysOK
<1>5. \A e \in Domains : Value(e)' = Value(e) /\ Value(e) \in Int /\ window[e] \in Nat
  BY <1>1 DEF Value, KeysOK
<1>6. ASSUME NEW e \in Domains
      PROVE  /\ 0 - Counted(acq[w], e, {"expire", "rollback"}) <= 0
             /\ 0 - Counted(acq[w], e, {"expire"}) <= 0
  BY <1>3
<1>7. Balanced(w, None)
  BY <1>1, <1>3, <1>4, <1>5, <1>6 DEF Balanced
<1> QED BY <1>2, <1>4, <1>7, BalancedPreserves

(***************************************************************************)
(* Between the acquires                                                    *)
(***************************************************************************)
\* With nobody inside, what remains is grants and counts: those of a domain
\* stay together or are both forgotten.
LEMMA QuietPreserves ==
  ASSUME KeysOK, CountInv, KeysOK', \A w \in Workers : acq[w] = None,
         UNCHANGED <<acq, deaths>>,
         \A d \in Domains : \/ window'[d] = window[d] /\ count'[d] = count[d]
                            \/ window'[d] = 0 /\ count'[d] = None
  PROVE  CountInv'
<1>1. \A d, steps : Size(d, steps) = 0
  BY NobodyInside
<1>2. \A d, steps : Size(d, steps)' = 0
  <2>1. \A d, steps : Inside(d, steps)' = Inside(d, steps)
    BY DEF Inside
  <2> QED BY <1>1, <2>1 DEF Size
<1>3. ASSUME NEW d \in Domains
      PROVE  /\ window'[d] <= Value(d)'
             /\ deaths' = 0 => window'[d] = Value(d)'
             /\ Cap > 0 => window'[d] <= Cap
             /\ Cap = 0 => window'[d] = 0
  <2>1. /\ window[d] <= Value(d)
        /\ deaths = 0 => window[d] = Value(d)
        /\ Cap > 0 => window[d] <= Cap
        /\ Cap = 0 => window[d] = 0
    <3>1. window[d] \in Nat
      BY DEF KeysOK
    <3> QED BY <1>1, <3>1 DEF CountInv, Size
  <2> QED BY <2>1, PolitenessAssumption DEF Value
<1>4. ASSUME NEW d \in Domains
      PROVE  LET incremented == window'[d] + Size(d, {"expire", "rollback"})'
             IN  /\ incremented <= Value(d)'
                 /\ deaths' = 0 => incremented = Value(d)'
                 /\ Cap > 0 => window'[d] + Size(d, {"expire"})' <= Cap
                 /\ Cap = 0 => window'[d] = 0
  <2>1. window'[d] \in Nat
    BY DEF KeysOK
  <2> QED BY <1>2, <1>3, <2>1
<1>5. \A w \in Workers : ~At(w, "expire")'
  BY DEF At
<1> QED BY <1>4, <1>5 DEF CountInv, Size

LEMMA ResetPreserves ==
  ASSUME KeysOK, CountInv, Prompt, NEW d \in Domains, Reset(d)
  PROVE  KeysOK' /\ CountInv'
<1>1. (\A w \in Workers : acq[w] = None) /\ UNCHANGED <<acq, deaths>>
  BY DEF Reset, Undisturbed
<1>2. KeysOK'
  BY DEF Reset, KeysOK
<1>3. \A e \in Domains : \/ window'[e] = window[e] /\ count'[e] = count[e]
                         \/ window'[e] = 0 /\ count'[e] = None
  BY DEF Reset, KeysOK
<1> QED BY <1>1, <1>2, <1>3, QuietPreserves

LEMMA TickPreserves ==
  ASSUME KeysOK, CountInv, Prompt, Tick
  PROVE  KeysOK' /\ CountInv'
<1>1. (\A w \in Workers : acq[w] = None) /\ UNCHANGED <<acq, deaths>>
  BY DEF Tick, Undisturbed
<1>2. /\ gate' = [d \in Domains |-> IF gate[d] = 0 THEN 0 ELSE gate[d] - 1]
      /\ count' = [d \in Domains |-> IF ttl[d] = 1 THEN None ELSE count[d]]
      /\ ttl' = [d \in Domains |-> IF ttl[d] = None \/ ttl[d] = 1 THEN None ELSE ttl[d] - 1]
      /\ window' = [d \in Domains |-> IF ttl[d] = 1 THEN 0 ELSE window[d]]
  BY DEF Tick
<1>3. \A d \in Domains : ttl[d] # None => ttl[d] \in Nat \ {0}
  BY DEF KeysOK
<1>4. KeysOK'
  BY <1>1, <1>2, <1>3 DEF KeysOK
<1>5. \A e \in Domains : \/ window'[e] = window[e] /\ count'[e] = count[e]
                         \/ window'[e] = 0 /\ count'[e] = None
  BY <1>2
<1> QED BY <1>1, <1>4, <1>5, QuietPreserves

LEMMA NextPreserves ==
  ASSUME KeysOK, CountInv, Prompt, [Next]_politeness
  PROVE  KeysOK' /\ CountInv'
<1>1. CASE UNCHANGED politeness
  BY <1>1 DEF politeness, KeysOK, CountInv, At, Inside, Value
<1>2. CASE Next
  BY <1>2, EnterPreserves, TakeDelayPreserves, TooSoonPreserves, CountPreserves,
     GrantUncappedPreserves, SetExpiryPreserves, RollBackPreserves, DiesPreserves, ResetPreserves, TickPreserves
  DEF Next, AcquireStep
<1> QED BY <1>1, <1>2

GrantsOK == grants \in [Domains -> Seq(Granted)]

(***************************************************************************)
(* The spacing of grants                                                   *)
(***************************************************************************)
LEMMA GrantFacts ==
  ASSUME GrantsOK, NEW d \in Domains
  PROVE  /\ grants[d] \in Seq(Granted) /\ Len(grants[d]) \in Nat
         /\ \A i \in 1..Len(grants[d]) : grants[d][i].age \in Nat /\ grants[d][i].delay \in Nat
<1>1. grants[d] \in Seq(Granted)
  BY DEF GrantsOK
<1>2. Len(grants[d]) \in Nat /\ \A i \in 1..Len(grants[d]) : grants[d][i] \in Granted
  BY <1>1, LenProperties, ElementOfSeq
<1> QED BY <1>1, <1>2 DEF Granted

\* A command that neither sets the delay key nor grants.
LEMMA MovesOn ==
  ASSUME KeysOK, GrantsOK, SpacingInv, NEW w \in Workers, NEW h,
         acq' = [acq EXCEPT ![w] = h], UNCHANGED <<gate, grants>>,
         h # None /\ h.delay > 0 /\ h.step # "delay" =>
           Admitted(w) /\ h.domain = acq[w].domain /\ h.delay = acq[w].delay
  PROVE  GrantsOK' /\ SpacingInv'
<1>1. ASSUME NEW v \in Workers, Admitted(v)'
      PROVE  Admitted(v) /\ acq'[v].domain = acq[v].domain /\ acq'[v].delay = acq[v].delay
  BY <1>1 DEF Admitted, KeysOK
<1> QED BY <1>1 DEF SpacingInv, GrantsSpaced, GrantsOK

\* SET NX: no grant of the domain has any of its delay left, and nobody else
\* is behind the key.
LEMMA TakesDelay ==
  ASSUME KeysOK, GrantsOK, SpacingInv, NEW w \in Workers, TakeDelay(w)
  PROVE  GrantsOK' /\ SpacingInv'
<1> DEFINE d == acq[w].domain
<1>1. /\ acq[w] \in Acquiring /\ acq[w] # None /\ d \in Domains /\ gate[d] = 0
      /\ acq[w].step = "delay" /\ acq[w].delay \in Nat
  BY DEF TakeDelay, At, KeysOK, Acquiring
<1>2. gate' = [gate EXCEPT ![d] = acq[w].delay] /\ grants' = grants
      /\ acq' = [acq EXCEPT ![w] = [acq[w] EXCEPT !.step = "count"]]
  BY DEF TakeDelay
<1>3. acq'[w].domain = d /\ acq'[w].delay = acq[w].delay /\ acq'[w] # None
  BY <1>1, <1>2, NoAcquiring DEF KeysOK, Acquiring
<1>4. \A v \in Workers : Admitted(v) => acq[v].domain # d
  BY <1>1 DEF SpacingInv, Admitted, KeysOK, Acquiring
<1>5. \A v \in Workers \ {w} : acq'[v] = acq[v]
  BY <1>2 DEF KeysOK
<1>6. \A v \in Workers \ {w} : Admitted(v)' <=> Admitted(v)
  BY <1>5 DEF Admitted
<1>7. \A i \in 1..Len(grants[d]) : grants[d][i].age >= grants[d][i].delay
  BY <1>1, GrantFacts DEF SpacingInv
<1>8. \A e \in Domains : gate'[e] = IF e = d THEN acq[w].delay ELSE gate[e]
  BY <1>2 DEF KeysOK
<1>9. gate'[d] >= acq'[w].delay
  BY <1>1, <1>3, <1>8
<1> HIDE DEF d
<1>10. ASSUME NEW v \in Workers, Admitted(v)'
       PROVE  LET e == acq'[v].domain
              IN  /\ gate'[e] >= acq'[v].delay
                  /\ \A i \in 1..Len(grants'[e]) : grants'[e][i].age >= grants'[e][i].delay
                  /\ \A u \in Workers : Admitted(u)' /\ acq'[u].domain = e => u = v
  <2>1. CASE v = w
    BY <1>2, <1>3, <1>4, <1>5, <1>6, <1>7, <1>9, <2>1
  <2>2. CASE v # w
    <3>1. Admitted(v) /\ acq'[v] = acq[v] /\ acq[v].domain # d
      BY <1>4, <1>5, <1>6, <1>10, <2>2
    <3>2. acq[v].domain \in Domains
      BY <3>1 DEF Admitted, KeysOK, Acquiring
    <3>3. \A u \in Workers : Admitted(u)' /\ acq'[u].domain = acq[v].domain => u = v
      BY <1>3, <1>5, <1>6, <3>1 DEF SpacingInv
    <3> QED BY <1>2, <1>8, <3>1, <3>2, <3>3 DEF SpacingInv
  <2> QED BY <2>1, <2>2
<1>11. ASSUME NEW e \in Domains, NEW i \in 1..Len(grants'[e])
       PROVE  /\ grants'[e][i].age + gate'[e] >= grants'[e][i].delay
              /\ \A j \in i..Len(grants'[e]) : grants'[e][i].age >= grants'[e][j].age
  <2>1. grants[e][i].age \in Nat /\ grants[e][i].delay \in Nat
    BY <1>2, <1>11, GrantFacts
  <2>2. grants[e][i].age + gate'[e] >= grants[e][i].delay
    <3>1. CASE e = d
      BY <1>1, <1>2, <1>7, <1>8, <1>11, <2>1, <3>1
    <3>2. CASE e # d
      BY <1>2, <1>8, <1>11, <3>2 DEF SpacingInv
    <3> QED BY <3>1, <3>2
  <2> QED BY <1>2, <1>11, <2>2 DEF SpacingInv
<1> QED BY <1>2, <1>10, <1>11 DEF SpacingInv, GrantsSpaced, GrantsOK

\* A grant: those before it are its own delay's wait away, and the key keeps
\* the next one away.
LEMMA GetsGrant ==
  ASSUME KeysOK, GrantsOK, SpacingInv, NEW w \in Workers, acq[w] # None,
         acq[w].step # "delay", Grant(w), UNCHANGED gate
  PROVE  GrantsOK' /\ SpacingInv'
<1> DEFINE d == acq[w].domain
           g == [age |-> 0, delay |-> acq[w].delay]
           n == Len(grants[d])
<1>1. acq[w] \in Acquiring /\ d \in Domains /\ acq[w].delay \in Nat /\ g \in Granted
  BY DEF KeysOK, Acquiring, Granted
<1>2. acq' = [acq EXCEPT ![w] = None] /\ grants' = [grants EXCEPT ![d] = Append(grants[d], g)]
  BY DEF Grant
<1>3. \A e \in Domains : e # d => grants'[e] = grants[e]
  BY <1>2 DEF GrantsOK
<1>4. n \in Nat /\ \A i \in 1..n : grants[d][i].age \in Nat /\ grants[d][i].delay \in Nat
  BY <1>1, GrantFacts
<1>5. /\ grants'[d] \in Seq(Granted) /\ Len(grants'[d]) = n + 1
      /\ \A i \in 1..n : grants'[d][i] = grants[d][i]
      /\ grants'[d][n + 1] = g
  <2>1. grants'[d] = Append(grants[d], g)
    BY <1>1, <1>2 DEF GrantsOK
  <2>2. grants[d] \in Seq(Granted)
    BY <1>1 DEF GrantsOK
  <2> QED BY <1>1, <2>1, <2>2, AppendProperties
<1>6. g.age = 0 /\ g.delay = acq[w].delay
  OBVIOUS
<1>7. \A i \in 1..(n + 1) : i \in 1..n \/ i = n + 1
  BY <1>4
<1>8. ASSUME NEW v \in Workers, Admitted(v)' PROVE v # w /\ Admitted(v) /\ acq'[v] = acq[v]
  BY <1>2, <1>8 DEF Admitted, KeysOK
<1>9. acq[w].delay > 0 => Admitted(w)
  BY DEF Admitted
<1>10. gate[d] \in Nat /\ acq[w].delay <= gate[d]
  BY <1>1, <1>9 DEF SpacingInv, KeysOK
<1>11. acq[w].delay > 0 => \A i \in 1..n : grants[d][i].age >= grants[d][i].delay
  BY <1>9 DEF SpacingInv
<1>12. GrantsOK'
  BY <1>1, <1>2, <1>5 DEF GrantsOK
<1> HIDE DEF d, g, n
<1>13. ASSUME NEW v \in Workers, Admitted(v)'
       PROVE  LET e == acq'[v].domain
              IN  /\ gate'[e] >= acq'[v].delay
                  /\ \A i \in 1..Len(grants'[e]) : grants'[e][i].age >= grants'[e][i].delay
                  /\ \A u \in Workers : Admitted(u)' /\ acq'[u].domain = e => u = v
  <2>1. v # w /\ Admitted(v) /\ acq'[v] = acq[v] /\ acq[v].domain \in Domains
    BY <1>8, <1>13 DEF Admitted, KeysOK, Acquiring
  <2>2. \A u \in Workers : Admitted(u)' /\ acq'[u].domain = acq[v].domain => u = v
    BY <1>8, <2>1 DEF SpacingInv
  <2>3. ASSUME acq[v].domain = d
        PROVE  \A i \in 1..Len(grants'[d]) : grants'[d][i].age >= grants'[d][i].delay
    <3>1. ~Admitted(w)
      BY <2>1, <2>3 DEF SpacingInv, d
    <3>2. acq[w].delay = 0
      BY <1>1, <1>9, <3>1
    <3>3. \A i \in 1..n : grants[d][i].age >= grants[d][i].delay
      BY <2>1, <2>3 DEF SpacingInv, n
    <3> QED BY <1>5, <1>6, <1>7, <3>2, <3>3
  <2> QED BY <1>3, <2>1, <2>2, <2>3 DEF SpacingInv
<1>14. ASSUME NEW e \in Domains, NEW i \in 1..Len(grants'[e])
       PROVE  /\ grants'[e][i].age + gate'[e] >= grants'[e][i].delay
              /\ \A j \in i..Len(grants'[e]) : grants'[e][i].age >= grants'[e][j].age
  <2>1. CASE e # d
    BY <1>3, <1>14, <2>1 DEF SpacingInv
  <2>2. CASE e = d /\ i = n + 1
    BY <1>4, <1>5, <1>6, <1>10, <2>2
  <2>3. CASE e = d /\ i \in 1..n
    <3>1. grants[d][i].age + gate[d] >= grants[d][i].delay
      BY <1>1, <2>3 DEF SpacingInv, n
    <3>2. \A j \in i..n : grants[d][i].age >= grants[d][j].age
      BY <1>1, <2>3 DEF SpacingInv, n
    <3>3. \A j \in i..(n + 1) : j \in i..n \/ j = n + 1
      BY <1>4, <2>3
    <3>4. \A j \in i..n : j \in 1..n
      BY <1>4, <2>3
    <3>5. \A j \in i..n : grants'[d][j] = grants[d][j]
      BY <1>5, <3>4
    <3>6. grants'[d][i] = grants[d][i] /\ grants[d][i].age >= 0
      BY <1>4, <1>5, <2>3
    <3>7. \A j \in i..(n + 1) : grants'[d][i].age >= grants'[d][j].age
      BY <1>5, <1>6, <3>2, <3>3, <3>5, <3>6
    <3> QED BY <1>5, <2>3, <3>1, <3>6, <3>7 DEF Grant
  <2> QED BY <1>5, <1>7, <1>14, <2>1, <2>2, <2>3
<1>15. GrantsSpaced'
  <2> SUFFICES ASSUME NEW e \in Domains, NEW i \in 1..Len(grants'[e]),
                      NEW j \in 1..Len(grants'[e]), i < j, grants'[e][j].delay > 0
               PROVE  grants'[e][i].age - grants'[e][j].age >= grants'[e][i].delay
    BY DEF GrantsSpaced
  <2>1. CASE e # d
    BY <1>3, <2>1 DEF SpacingInv, GrantsSpaced
  <2>2. CASE e = d /\ j \in 1..n
    <3>1. i \in 1..n
      BY <1>4, <2>2
    <3> QED BY <1>1, <1>5, <2>2, <3>1 DEF SpacingInv, GrantsSpaced, n
  <2>3. CASE e = d /\ j = n + 1
    <3>1. i \in 1..n
      BY <1>4, <1>5, <2>3
    <3> QED BY <1>4, <1>5, <1>6, <1>11, <2>3, <3>1
  <2> QED BY <1>5, <1>7, <2>1, <2>2, <2>3
<1> QED BY <1>12, <1>13, <1>14, <1>15 DEF SpacingInv

\* What is forgotten is the oldest.
LEMMA RecentIsEnd ==
  ASSUME NEW list \in Seq(Granted)
  PROVE  /\ Recent(list) \in Seq(Granted)
         /\ \E k \in 0..Len(list) :
              /\ Len(Recent(list)) = Len(list) - k
              /\ \A i \in 1..Len(Recent(list)) : Recent(list)[i] = list[i + k]
<1> DEFINE old == {i \in 1..Len(list) : list[i].age >= Day}
           k == Cardinality(old)
<1>1. Len(list) \in Nat /\ IsFiniteSet(1..Len(list)) /\ Cardinality(1..Len(list)) = Len(list)
  <2>1. Len(list) \in Nat
    BY LenProperties
  <2>2. 0 <= Len(list) + 1 /\ 1 \in Int /\ Len(list) \in Int
    BY <2>1
  <2>3. /\ IsFiniteSet(1..Len(list))
        /\ Cardinality(1..Len(list)) = IF 1 > Len(list) THEN 0 ELSE Len(list) - 1 + 1
    BY <2>2, FS_Interval
  <2> QED BY <2>1, <2>3
<1>2. k \in 0..Len(list)
  <2>1. old \subseteq 1..Len(list)
    OBVIOUS
  <2> HIDE DEF old
  <2>2. k \in Nat /\ k <= Len(list)
    BY <1>1, <2>1, FS_Subset, FS_CardinalityType
  <2> QED BY <1>1, <2>2
<1>3. Recent(list) = SubSeq(list, k + 1, Len(list))
  BY DEF Recent
<1> HIDE DEF k
<1>4. Recent(list) \in Seq(Granted)
  BY <1>1, <1>2, <1>3, SubSeqProperties
<1>5. Len(Recent(list)) = Len(list) - k
  BY <1>1, <1>2, <1>3, SubSeqProperties
<1>6. \A i \in 1..Len(Recent(list)) : Recent(list)[i] = list[i + k]
  BY <1>1, <1>2, <1>3, <1>5, SubSeqProperties
<1> QED BY <1>2, <1>4, <1>5, <1>6

\* A tick ages every grant by one, forgets some, and shortens the key's time
\* to live by one.  Nobody is inside acquire.
LEMMA Ages ==
  ASSUME KeysOK, GrantsOK, SpacingInv, Prompt, Tick
  PROVE  GrantsOK' /\ SpacingInv'
<1>1. /\ \A w \in Workers : acq[w] = None
      /\ acq' = acq
      /\ gate' = [d \in Domains |-> IF gate[d] = 0 THEN 0 ELSE gate[d] - 1]
  BY DEF Tick, Undisturbed
<1> DEFINE Aged(d) == [i \in 1..Len(grants[d]) |-> [grants[d][i] EXCEPT !.age = @ + 1]]
<1>2. grants' = [d \in Domains |-> Recent(Aged(d))]
  BY DEF Tick
<1>3. ASSUME NEW d \in Domains
      PROVE  /\ Aged(d) \in Seq(Granted) /\ Len(Aged(d)) = Len(grants[d])
             /\ \A i \in 1..Len(grants[d]) : /\ Aged(d)[i].age = grants[d][i].age + 1
                                              /\ Aged(d)[i].delay = grants[d][i].delay
  <2>1. Len(grants[d]) \in Nat /\ \A i \in 1..Len(grants[d]) : grants[d][i] \in Granted
    BY GrantFacts, ElementOfSeq
  <2>2. \A i \in 1..Len(grants[d]) :
          LET a == [grants[d][i] EXCEPT !.age = @ + 1]
          IN  a \in Granted /\ a.age = grants[d][i].age + 1 /\ a.delay = grants[d][i].delay
    BY <2>1 DEF Granted
  <2>3. Aged(d) \in [1..Len(grants[d]) -> Granted]
    BY <2>2
  <2> QED BY <2>1, <2>2, <2>3, IsASeq
<1> HIDE DEF Aged
<1>4. ASSUME NEW d \in Domains
      PROVE  /\ grants'[d] \in Seq(Granted)
             /\ \E k \in Nat : \A i \in 1..Len(grants'[d]) :
                  /\ i + k \in 1..Len(grants[d])
                  /\ grants'[d][i].age = grants[d][i + k].age + 1
                  /\ grants'[d][i].delay = grants[d][i + k].delay
  <2>1. grants'[d] = Recent(Aged(d)) /\ grants'[d] \in Seq(Granted)
    BY <1>2, <1>3, RecentIsEnd
  <2>2. PICK k \in 0..Len(grants[d]) :
          /\ Len(grants'[d]) = Len(grants[d]) - k
          /\ \A i \in 1..Len(grants'[d]) : grants'[d][i] = Aged(d)[i + k]
    BY <1>3, <2>1, RecentIsEnd
  <2>3. Len(grants[d]) \in Nat
    BY GrantFacts
  <2>4. \A i \in 1..Len(grants'[d]) : i + k \in 1..Len(grants[d])
    BY <2>2, <2>3
  <2>5. \A i \in 1..Len(grants'[d]) :
          /\ grants'[d][i].age = grants[d][i + k].age + 1
          /\ grants'[d][i].delay = grants[d][i + k].delay
    BY <1>3, <2>2, <2>4
  <2>6. k \in Nat
    BY <2>2, <2>3
  <2> QED BY <2>1, <2>4, <2>5, <2>6
<1>5. \A w \in Workers : ~Admitted(w)'
  BY <1>1 DEF Admitted
<1>6. ASSUME NEW d \in Domains, NEW i \in 1..Len(grants'[d])
      PROVE  /\ grants'[d][i].age + gate'[d] >= grants'[d][i].delay
             /\ \A j \in i..Len(grants'[d]) : grants'[d][i].age >= grants'[d][j].age
             /\ \A j \in 1..Len(grants'[d]) : i < j /\ grants'[d][j].delay > 0
                  => grants'[d][i].age - grants'[d][j].age >= grants'[d][i].delay
  <2>1. PICK k \in Nat : \A l \in 1..Len(grants'[d]) :
                  /\ l + k \in 1..Len(grants[d])
                  /\ grants'[d][l].age = grants[d][l + k].age + 1
                  /\ grants'[d][l].delay = grants[d][l + k].delay
    BY <1>4
  <2>2. Len(grants'[d]) \in Nat /\ Len(grants[d]) \in Nat
    BY <1>4, GrantFacts, LenProperties
  <2>3. \A l \in 1..Len(grants'[d]) :
          grants[d][l + k].age \in Nat /\ grants[d][l + k].delay \in Nat
    BY <2>1, GrantFacts
  <2>4. grants'[d][i].age + gate'[d] >= grants'[d][i].delay
    <3>1. grants[d][i + k].age + gate[d] >= grants[d][i + k].delay
      BY <2>1 DEF SpacingInv
    <3>2. gate[d] \in Nat /\ gate'[d] = IF gate[d] = 0 THEN 0 ELSE gate[d] - 1
      BY <1>1 DEF KeysOK
    <3>3. /\ grants'[d][i].age = grants[d][i + k].age + 1
          /\ grants'[d][i].delay = grants[d][i + k].delay
          /\ grants[d][i + k].age \in Nat /\ grants[d][i + k].delay \in Nat
      BY <2>1, <2>3
    <3>4. PICK a \in Nat, e \in Nat, g \in Nat :
            a = grants[d][i + k].age /\ e = grants[d][i + k].delay /\ g = gate[d]
      BY <3>2, <3>3, Zenon
    <3>5. /\ grants'[d][i].age = a + 1 /\ grants'[d][i].delay = e
          /\ gate'[d] = IF g = 0 THEN 0 ELSE g - 1
          /\ a + g >= e
      BY <3>1, <3>2, <3>3, <3>4, Zenon
    <3>6. a + g >= e => a + 1 + (IF g = 0 THEN 0 ELSE g - 1) >= e
      OBVIOUS
    <3> QED BY <3>5, <3>6, Zenon
  <2>5. ASSUME NEW j \in i..Len(grants'[d]) PROVE grants'[d][i].age >= grants'[d][j].age
    <3>1. j \in 1..Len(grants'[d])
      BY <2>2
    <3>2. j + k \in (i + k)..Len(grants[d])
      BY <2>1, <2>2, <3>1
    <3>3. grants[d][i + k].age >= grants[d][j + k].age
      BY <2>1, <3>2 DEF SpacingInv
    <3>4. /\ grants'[d][i].age = grants[d][i + k].age + 1
          /\ grants'[d][j].age = grants[d][j + k].age + 1
          /\ grants[d][i + k].age \in Nat /\ grants[d][j + k].age \in Nat
      BY <2>1, <2>3, <3>1
    <3>5. PICK a \in Int, b \in Int :
            a = grants[d][i + k].age /\ b = grants[d][j + k].age
      BY <3>4
    <3>6. grants'[d][i].age = a + 1 /\ grants'[d][j].age = b + 1 /\ a >= b
      BY <3>3, <3>4, <3>5, Zenon
    <3>7. a >= b => a + 1 >= b + 1
      OBVIOUS
    <3> QED BY <3>6, <3>7, Zenon
  <2>6. ASSUME NEW j \in 1..Len(grants'[d]), i < j, grants'[d][j].delay > 0
        PROVE  grants'[d][i].age - grants'[d][j].age >= grants'[d][i].delay
    <3>1. i + k < j + k /\ grants[d][j + k].delay > 0
      BY <2>1, <2>2, <2>6
    <3>2. grants[d][i + k].age - grants[d][j + k].age >= grants[d][i + k].delay
      BY <2>1, <2>6, <3>1 DEF SpacingInv, GrantsSpaced
    <3>3. /\ grants'[d][i].age = grants[d][i + k].age + 1
          /\ grants'[d][j].age = grants[d][j + k].age + 1
          /\ grants'[d][i].delay = grants[d][i + k].delay
          /\ grants[d][i + k].age \in Nat /\ grants[d][j + k].age \in Nat
          /\ grants[d][i + k].delay \in Nat
      BY <2>1, <2>3, <2>6
    <3>4. PICK a \in Nat, b \in Nat :
            a = grants[d][i + k].age /\ b = grants[d][j + k].age
      BY <3>3, Zenon
    <3>5. grants'[d][i].age = a + 1 /\ grants'[d][j].age = b + 1
      BY <3>3, <3>4, Zenon
    <3>6. (a + 1) - (b + 1) = a - b
      OBVIOUS
    <3> QED BY <3>2, <3>3, <3>4, <3>5, <3>6, Zenon
  <2> QED BY <2>4, <2>5, <2>6
<1>7. GrantsOK'
  BY <1>2, <1>4 DEF GrantsOK
<1> QED BY <1>5, <1>6, <1>7 DEF SpacingInv, GrantsSpaced

\* A reset forgets a domain's grants with its keys.
LEMMA StartsAfresh ==
  ASSUME KeysOK, GrantsOK, SpacingInv, Prompt, NEW d \in Domains, Reset(d)
  PROVE  GrantsOK' /\ SpacingInv'
<1>1. /\ \A w \in Workers : acq[w] = None
      /\ acq' = acq
      /\ gate' = [gate EXCEPT ![d] = 0]
      /\ grants' = [grants EXCEPT ![d] = <<>>]
  BY DEF Reset, Undisturbed
<1>2. \A w \in Workers : ~Admitted(w)'
  BY <1>1 DEF Admitted
<1>3. grants'[d] = <<>> /\ Len(<<>>) = 0 /\ <<>> \in Seq(Granted)
  BY <1>1, EmptySeq DEF GrantsOK
<1>4. GrantsOK'
  BY <1>1, <1>3 DEF GrantsOK
<1>5. \A e \in Domains : e # d => grants'[e] = grants[e] /\ gate'[e] = gate[e]
  BY <1>1 DEF GrantsOK, KeysOK
<1>6. \A e \in Domains : e = d => 1..Len(grants'[e]) = {}
  BY <1>3
<1> QED BY <1>2, <1>4, <1>5, <1>6 DEF SpacingInv, GrantsSpaced

LEMMA NextKeepsSpacing ==
  ASSUME KeysOK, GrantsOK, SpacingInv, Prompt, [Next]_politeness
  PROVE  GrantsOK' /\ SpacingInv'
<1>1. CASE UNCHANGED politeness
  BY <1>1 DEF politeness, GrantsOK, SpacingInv, GrantsSpaced, Admitted
<1>2. ASSUME NEW w \in Workers, NEW d \in Domains, NEW call \in Calls, Enter(w, d, call)
      PROVE  GrantsOK' /\ SpacingInv'
  <2> DEFINE h == [domain |-> d, delay |-> call.delay, capped |-> call.capped,
                   step |-> IF call.delay > 0 THEN "delay" ELSE "count", over |-> FALSE]
  <2>1. acq' = [acq EXCEPT ![w] = h] /\ UNCHANGED <<gate, grants>>
        /\ (h.delay > 0 => h.step = "delay")
    BY <1>2 DEF Enter
  <2> HIDE DEF h
  <2> QED BY <2>1, MovesOn
<1>3. ASSUME NEW w \in Workers, AcquireStep(w) PROVE GrantsOK' /\ SpacingInv'
  <2>1. acq[w] # None /\ acq[w] \in Acquiring
    BY <1>3 DEF AcquireStep, TakeDelay, TooSoon, Count, GrantUncapped, SetExpiry, RollBack, At, KeysOK
  <2>2. CASE TakeDelay(w)
    BY <2>2, TakesDelay
  <2>3. CASE TooSoon(w) \/ RollBack(w)
    <3>1. acq' = [acq EXCEPT ![w] = None] /\ UNCHANGED <<gate, grants>>
      BY <2>3 DEF TooSoon, RollBack, Refuse
    <3> QED BY <3>1, MovesOn
  <2>4. CASE GrantUncapped(w)
    <3>1. acq[w].step # "delay" /\ UNCHANGED gate /\ Grant(w)
      BY <2>4 DEF GrantUncapped, At
    <3> QED BY <2>1, <3>1, GetsGrant
  <2>5. CASE Count(w) \/ SetExpiry(w)
    <3>1. acq[w].step # "delay" /\ UNCHANGED gate
      BY <2>5 DEF Count, SetExpiry, At
    <3>2. CASE Grant(w)
      BY <2>1, <3>1, <3>2, GetsGrant
    <3>3. CASE ~Grant(w)
      <4>1. PICK s \in {"expire", "rollback"}, o \in BOOLEAN :
              acq' = [acq EXCEPT ![w] = [acq[w] EXCEPT !.step = s, !.over = o]]
              /\ UNCHANGED <<gate, grants>>
        <5>1. CASE Count(w)
          <6> PICK b \in BOOLEAN : b = (Value(acq[w].domain) + 1 > Cap)
            <7>1. CASE Value(acq[w].domain) + 1 > Cap
              <8>1. (Value(acq[w].domain) + 1 > Cap) = TRUE
                BY <7>1
              <8> QED BY <8>1
            <7>2. CASE ~(Value(acq[w].domain) + 1 > Cap)
              <8>1. (Value(acq[w].domain) + 1 > Cap) = FALSE
                BY <7>2
              <8> QED BY <8>1
            <7> QED BY <7>1, <7>2
          <6>1. \/ acq' = [acq EXCEPT ![w].step = "expire", ![w].over = b] /\ UNCHANGED grants
                \/ acq' = [acq EXCEPT ![w].step = "rollback", ![w].over = TRUE] /\ UNCHANGED grants
            BY <3>3, <5>1 DEF Count, GrantCounted
          <6>2. w \in DOMAIN acq
            BY DEF KeysOK
          <6> QED BY <3>1, <6>1 DEF KeysOK
        <5>2. CASE SetExpiry(w)
          <6>1. acq' = [acq EXCEPT ![w].step = "rollback"] /\ UNCHANGED grants
            BY <3>3, <5>2 DEF SetExpiry, GrantCounted
          <6>2. [acq[w] EXCEPT !.step = "rollback"]
                  = [acq[w] EXCEPT !.step = "rollback", !.over = acq[w].over]
                /\ acq[w].over \in BOOLEAN
            BY <2>1 DEF Acquiring
          <6> QED BY <3>1, <6>1, <6>2 DEF KeysOK
        <5> QED BY <2>5, <5>1, <5>2
      <4> DEFINE h == [acq[w] EXCEPT !.step = s, !.over = o]
      <4>2. h.delay = acq[w].delay /\ h.domain = acq[w].domain
        BY <2>1 DEF Acquiring
      <4>3. acq[w].delay > 0 => Admitted(w)
        BY <2>1, <3>1 DEF Admitted
      <4> HIDE DEF h
      <4> QED BY <4>1, <4>2, <4>3, MovesOn DEF h
    <3> QED BY <3>2, <3>3
  <2> QED BY <1>3, <2>2, <2>3, <2>4, <2>5 DEF AcquireStep
<1>4. ASSUME NEW w \in Workers, Dies(w) PROVE GrantsOK' /\ SpacingInv'
  <2>1. acq' = [acq EXCEPT ![w] = None] /\ UNCHANGED <<gate, grants>>
    BY <1>4 DEF Dies
  <2> QED BY <2>1, MovesOn
<1>5. CASE Next
  BY <1>2, <1>3, <1>4, <1>5, Ages, StartsAfresh DEF Next
<1> QED BY <1>1, <1>5

(***************************************************************************)
(* The theorems                                                            *)
(***************************************************************************)
\* If no key expires and no reset falls inside an acquire, the counts cover the
\* counted grants and the increments in hand, and those grants fit under the cap.
THEOREM CountsCoverGrants ==
  ASSUME Prompt
  PROVE  Spec => [](KeysOK /\ CountInv)
<1>1. PolitenessInit => KeysOK /\ CountInv
  <2> SUFFICES ASSUME PolitenessInit PROVE KeysOK /\ CountInv
    OBVIOUS
  <2>1. KeysOK /\ \A w \in Workers : acq[w] = None
    BY PolitenessAssumption DEF PolitenessInit, KeysOK
  <2>2. \A d, steps : Size(d, steps) = 0
    BY <2>1, NobodyInside
  <2> QED BY <2>1, <2>2, PolitenessAssumption DEF PolitenessInit, CountInv, At, Value, Size
<1>2. (KeysOK /\ CountInv) /\ [Next]_politeness => (KeysOK /\ CountInv)'
  BY NextPreserves
<1> QED BY <1>1, <1>2, PTL DEF Spec

\* If no key expires and no reset falls inside an acquire, all workers together
\* get at most max_pages_per_day counted grants of a domain while its count key
\* lives, however their commands interleave and whoever dies inside acquire.
THEOREM CapIsKept ==
  ASSUME Prompt
  PROVE  Spec => []CapPerWindow
<1>1. KeysOK /\ CountInv => CapPerWindow
  <2> SUFFICES ASSUME KeysOK, CountInv, NEW d \in Domains PROVE window[d] <= Cap
    BY DEF CapPerWindow
  <2>1. window[d] \in Nat /\ Cap \in Nat /\ Size(d, {"expire"}) \in Nat
    BY SizeIsNat, PolitenessAssumption DEF KeysOK
  <2>2. /\ Cap > 0 => window[d] + Size(d, {"expire"}) <= Cap
        /\ Cap = 0 => window[d] = 0
    BY DEF CountInv, Size
  <2> QED BY <2>1, <2>2
<1> QED BY CountsCoverGrants, <1>1, PTL

\* If no key expires and no reset falls inside an acquire, remaining_today is
\* the cap less the counted grants made, when no worker is inside acquire and
\* none has died there.
THEOREM RemainingIsTold ==
  ASSUME Prompt
  PROVE  Spec => []RemainingIsExact
<1>1. KeysOK /\ CountInv => RemainingIsExact
  <2> SUFFICES ASSUME KeysOK, CountInv, deaths = 0, \A w \in Workers : acq[w] = None,
                      NEW d \in Domains
               PROVE  Remaining(d) = Cap - window[d]
    BY DEF RemainingIsExact
  <2>1. Size(d, {"expire", "rollback"}) = 0 /\ Size(d, {"expire"}) = 0
    BY NobodyInside
  <2>2. window[d] \in Nat /\ Cap \in Nat
    BY PolitenessAssumption DEF KeysOK
  <2>3. Value(d) = window[d] /\ window[d] <= Cap
    BY <2>1, <2>2 DEF CountInv, Size
  <2> QED BY <2>2, <2>3 DEF Remaining
<1> QED BY CountsCoverGrants, <1>1, PTL

\* The whole inductive invariant, if no key expires and no reset falls inside
\* an acquire: the counts, and behind each delay key one worker at most, with
\* the delays of all grants before it over.
THEOREM KeysKeepDelays ==
  ASSUME Prompt
  PROVE  Spec => []PolitenessInv
<1>1. PolitenessInit => GrantsOK /\ SpacingInv
  <2> SUFFICES ASSUME PolitenessInit PROVE GrantsOK /\ SpacingInv
    OBVIOUS
  <2>1. <<>> \in Seq(Granted) /\ Len(<<>>) = 0
    BY EmptySeq
  <2>2. \A d \in Domains : 1..Len(grants[d]) = {}
    BY <2>1 DEF PolitenessInit
  <2>3. \A w \in Workers : ~Admitted(w)
    BY DEF PolitenessInit, Admitted
  <2>4. GrantsOK
    BY <2>1 DEF PolitenessInit, GrantsOK
  <2> QED BY <2>2, <2>3, <2>4 DEF SpacingInv, GrantsSpaced
<1>2. KeysOK /\ GrantsOK /\ SpacingInv /\ [Next]_politeness => (GrantsOK /\ SpacingInv)'
  BY NextKeepsSpacing
<1>3. KeysOK /\ CountInv /\ GrantsOK /\ SpacingInv => PolitenessInv
  BY DEF PolitenessInv, TypeOK, GrantsOK
<1> QED BY CountsCoverGrants, <1>1, <1>2, <1>3, PTL DEF Spec

\* If no key expires and no reset falls inside an acquire, grants of one domain
\* keep the crawl delay over all workers: SET NX lets one of them in, and its
\* key lasts until the delay is over.
THEOREM DelayIsKept ==
  ASSUME Prompt
  PROVE  Spec => []GrantsSpaced
<1>1. PolitenessInv => GrantsSpaced
  BY DEF PolitenessInv, SpacingInv
<1> QED BY KeysKeepDelays, <1>1, PTL
===============================================================================
