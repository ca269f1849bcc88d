-------------------------- MODULE Construction_proofs --------------------------
(***************************************************************************)
(* How a show is built, for any number of scenes, processors and filters:  *)
(* the workers of the pool are counted and bounded, each task is run once, *)
(* join leaves nothing behind, every scene that is stored is found under   *)
(* its id, a show that is loaded lacks only scenes whose task threw, and   *)
(* the filters of a scene are ordered whenever they can be.                *)
(***************************************************************************)
EXTENDS SceneLoading, FilterScheduling, FiniteSetTheorems, SequenceTheorems, TLAPS

-----------------------------------------------------------------------------
(* The order of the filters of a scene (FilterScheduling).                  *)
Elements(s) == { s[n] : n \in DOMAIN s }

LEMMA AppendElements ==
  ASSUME NEW S, NEW s \in Seq(S), NEW e \in S
  PROVE  /\ Append(s, e) \in Seq(S)
         /\ Len(Append(s, e)) = Len(s) + 1
         /\ Append(s, e)[Len(s) + 1] = e
         /\ \A n \in 1 .. Len(s) : Append(s, e)[n] = s[n]
         /\ Elements(Append(s, e)) = Elements(s) \cup {e}
<1>1. /\ Append(s, e) \in Seq(S)
      /\ Len(Append(s, e)) = Len(s) + 1
      /\ Append(s, e)[Len(s) + 1] = e
      /\ \A n \in 1 .. Len(s) : Append(s, e)[n] = s[n]
  OBVIOUS
<1>2. /\ DOMAIN s = 1 .. Len(s)
      /\ DOMAIN Append(s, e) = 1 .. Len(s) + 1
      /\ Len(s) \in Nat
  OBVIOUS
<1>3. \A n \in 1 .. Len(s) + 1 : n \in 1 .. Len(s) \/ n = Len(s) + 1
  BY <1>2
<1>4. ASSUME NEW x \in Elements(Append(s, e)) PROVE x \in Elements(s) \cup {e}
  BY <1>1, <1>2, <1>3 DEF Elements
<1>5. ASSUME NEW x \in Elements(s) PROVE x \in Elements(Append(s, e))
  <2>1. PICK n \in 1 .. Len(s) : x = s[n]
    BY <1>2 DEF Elements
  <2>2. n \in 1 .. Len(s) + 1 /\ Append(s, e)[n] = x
    BY <1>1, <1>2, <2>1
  <2> QED BY <1>2, <2>2 DEF Elements
<1>6. e \in Elements(Append(s, e))
  <2>1. Len(s) + 1 \in DOMAIN Append(s, e)
    BY <1>2
  <2> QED BY <1>1, <2>1 DEF Elements
<1> QED BY <1>1, <1>4, <1>5, <1>6

LEMMA TailElements ==
  ASSUME NEW S, NEW s \in Seq(S), s # <<>>
  PROVE  /\ Head(s) \in S /\ Tail(s) \in Seq(S)
         /\ Len(s) \in Nat \ {0} /\ Len(Tail(s)) = Len(s) - 1
         /\ \A n \in 1 .. Len(s) - 1 : Tail(s)[n] = s[n + 1]
         /\ Elements(s) = Elements(Tail(s)) \cup {Head(s)}
<1>1. /\ Head(s) \in S /\ Tail(s) \in Seq(S)
      /\ Len(s) \in Nat \ {0} /\ Len(Tail(s)) = Len(s) - 1
      /\ \A n \in 1 .. Len(s) - 1 : Tail(s)[n] = s[n + 1]
      /\ Head(s) = s[1]
  OBVIOUS
<1>2. DOMAIN s = 1 .. Len(s) /\ DOMAIN Tail(s) = 1 .. Len(s) - 1
  BY <1>1
<1>3. ASSUME NEW x \in Elements(s) PROVE x \in Elements(Tail(s)) \cup {Head(s)}
  <2>1. PICK n \in 1 .. Len(s) : x = s[n]
    BY <1>2 DEF Elements
  <2>2. CASE n = 1
    BY <1>1, <2>1, <2>2
  <2>3. CASE n # 1
    <3>1. n - 1 \in 1 .. Len(s) - 1 /\ (n - 1) + 1 = n
      BY <1>1, <2>3
    <3>2. Tail(s)[n - 1] = x
      BY <1>1, <2>1, <3>1
    <3> QED BY <1>2, <3>1, <3>2 DEF Elements
  <2> QED BY <2>2, <2>3
<1>4. ASSUME NEW x \in Elements(Tail(s)) PROVE x \in Elements(s)
  <2>1. PICK n \in 1 .. Len(s) - 1 : x = Tail(s)[n]
    BY <1>2 DEF Elements
  <2>2. n + 1 \in 1 .. Len(s) /\ s[n + 1] = x
    BY <1>1, <2>1
  <2> QED BY <1>2, <2>2 DEF Elements
<1>5. Head(s) \in Elements(s)
  <2>1. 1 \in DOMAIN s
    BY <1>1, <1>2
  <2> QED BY <1>1, <2>1 DEF Elements
<1> QED BY <1>1, <1>3, <1>4, <1>5
-----------------------------------------------------------------------------
(* The inductive invariant, in named parts.                                *)

(* Queue and order share the filters between them.                         *)
Shared ==
  /\ Len(missing_filter_stack) + Len(fv) = NFilters
  /\ Elements(missing_filter_stack) \cup resolved_filters = Filter

(* As long as a round has placed nothing, what it has visited is the end   *)
(* of the queue and still waits for an input.                              *)
Visited ==
  place = "round" /\ ~placed_filter =>
    /\ i <= Len(missing_filter_stack)
    /\ \A n \in Len(missing_filter_stack) - i + 1 .. Len(missing_filter_stack) :
         ~AllDepsClear(missing_filter_stack[n])

(* The loop over rounds goes on only while filters are missing.            *)
Working == place = "round" /\ ~placed_filter => missing_filter_stack # <<>>

Stuck ==
  place = "cyclic" =>
    /\ missing_filter_stack # <<>>
    /\ \A n \in DOMAIN missing_filter_stack : ~AllDepsClear(missing_filter_stack[n])

Emptied ==
  place \in {"connect", "done", "unknown_channel"} => missing_filter_stack = <<>>

(* A set of filters without an order.                                      *)
Knot(U) == \A f \in U : Deps(f) \cap (U \cup {Unknown}) # {}

(* No filter of such a set is ever placed.                                 *)
KnotsUntouched ==
  \A U \in SUBSET Filter : Knot(U) => U \cap resolved_filters = {}

IInv ==
  /\ SchedulingTypeOK /\ Shared /\ Visited /\ Working /\ Stuck /\ Emptied /\ KnotsUntouched
  /\ InputsFirst

LEMMA WiringDeps ==
  ASSUME SchedulingTypeOK, NEW f \in Filter
  PROVE  Deps(f) \subseteq Filter \cup {Unknown}
BY FilterSchedulingAssumption DEF SchedulingTypeOK, Deps

LEMMA InitIInv == SchedulingInit => IInv
<1> SUFFICES ASSUME SchedulingInit PROVE IInv
  OBVIOUS
<1> USE FilterSchedulingAssumption DEF SchedulingInit
<1>1. missing_filter_stack \in Seq(Filter) /\ Len(missing_filter_stack) = NFilters
      /\ DOMAIN missing_filter_stack = Filter
  BY DEF Filter
<1>2. Elements(missing_filter_stack) = Filter
  BY <1>1 DEF Elements
<1>3. SchedulingTypeOK
  <2>1. fv = <<>> /\ fv \in Seq(Filter) /\ b \in Seq(Nat) /\ Len(fv) = 0
    OBVIOUS
  <2>2. resolved_filters = { fv[n] : n \in DOMAIN fv }
    BY <2>1
  <2>3. connected \in 0 .. Len(fv) /\ i \in 0 .. NFilters
    BY <2>1
  <2> QED BY <1>1, <2>1, <2>2, <2>3 DEF SchedulingTypeOK, Ended
<1>4. Shared
  BY <1>1, <1>2 DEF Shared
<1>5. Visited /\ Working /\ Stuck /\ Emptied
  BY <1>1, SMTT(30) DEF Visited, Working, Stuck, Emptied
<1>6. KnotsUntouched /\ InputsFirst
  BY DEF KnotsUntouched, InputsFirst
<1> QED BY <1>3, <1>4, <1>5, <1>6 DEF IInv

LEMMA PlaceIInv == IInv /\ PlaceFilter => IInv'
<1> SUFFICES ASSUME IInv, PlaceFilter PROVE IInv'
  OBVIOUS
<1> DEFINE f == Head(missing_filter_stack)
<1>1. /\ missing_filter_stack # <<>>
      /\ missing_filter_stack \in Seq(Filter) /\ fv \in Seq(Filter)
      /\ i \in Nat /\ i < Len(missing_filter_stack)
      /\ place = "round" /\ place' = "round" /\ placed_filter' = TRUE
      /\ Len(missing_filter_stack) + Len(fv) = NFilters
  BY DEF IInv, SchedulingTypeOK, Shared, PlaceFilter, InRound
<1>2. /\ f \in Filter /\ missing_filter_stack' \in Seq(Filter)
      /\ Len(missing_filter_stack) \in Nat \ {0}
      /\ Len(missing_filter_stack') = Len(missing_filter_stack) - 1
      /\ Elements(missing_filter_stack) = Elements(missing_filter_stack') \cup {f}
  BY <1>1, TailElements DEF PlaceFilter
<1>3. /\ fv' \in Seq(Filter) /\ Len(fv') = Len(fv) + 1
      /\ Len(fv) \in Nat
      /\ fv'[Len(fv) + 1] = f /\ \A n \in 1 .. Len(fv) : fv'[n] = fv[n]
      /\ Elements(fv') = Elements(fv) \cup {f}
  BY <1>1, <1>2, AppendElements DEF PlaceFilter
<1>4. /\ resolved_filters' = resolved_filters \cup {f}
      /\ Deps(f) \subseteq resolved_filters
      /\ i' = i + 1
      /\ UNCHANGED <<channellink, b, cm, connected>>
  BY DEF PlaceFilter, AllDepsClear
<1>5. resolved_filters = Elements(fv)
  BY DEF IInv, SchedulingTypeOK, Elements
<1>6. SchedulingTypeOK'
  <2>1. resolved_filters' = { fv'[n] : n \in DOMAIN fv' }
    BY <1>3, <1>4, <1>5 DEF Elements
  <2>2. i' \in 0 .. NFilters
    BY <1>1, <1>3, <1>4, FilterSchedulingAssumption
  <2>3. connected' \in 0 .. Len(fv')
    BY <1>3, <1>4 DEF IInv, SchedulingTypeOK
  <2> QED
    BY <1>1, <1>2, <1>3, <1>4, <2>1, <2>2, <2>3 DEF IInv, SchedulingTypeOK
<1>7. Shared'
  <2>1. Len(missing_filter_stack') + Len(fv') = NFilters
    BY <1>1, <1>2, <1>3
  <2>2. Elements(missing_filter_stack') \cup resolved_filters' = Filter
    BY <1>2, <1>4 DEF IInv, Shared
  <2>3. Elements(missing_filter_stack)' = Elements(missing_filter_stack')
    BY DEF Elements
  <2> QED BY <2>1, <2>2, <2>3 DEF Shared
<1>8. Visited' /\ Working' /\ Stuck' /\ Emptied'
  BY <1>1 DEF Visited, Working, Stuck, Emptied
<1>9. KnotsUntouched'
  <2> SUFFICES ASSUME NEW U \in SUBSET Filter, Knot(U)'
               PROVE  U \cap resolved_filters' = {}
    BY DEF KnotsUntouched
  <2>1. Knot(U)
    BY <1>4 DEF Knot, Deps
  <2>2. U \cap resolved_filters = {}
    BY <2>1 DEF IInv, KnotsUntouched
  <2>3. Unknown \notin resolved_filters
    <3>1. resolved_filters \subseteq Filter
      BY DEF IInv, Shared
    <3> QED BY <3>1 DEF Filter, Unknown
  <2>4. f \notin U
    BY <1>4, <2>1, <2>2, <2>3 DEF Knot
  <2> QED BY <1>4, <2>2, <2>4
<1>10. InputsFirst'
  <2>0. DOMAIN fv' = 1 .. Len(fv) + 1
    BY <1>3
  <2> SUFFICES ASSUME NEW n \in 1 .. Len(fv) + 1, NEW d \in Deps(fv[n])'
               PROVE  \E m \in 1 .. n - 1 : fv'[m] = d
    BY <2>0 DEF InputsFirst
  <2>1. d \in Deps(fv'[n])
    BY <1>4 DEF Deps
  <2>2. CASE n \in 1 .. Len(fv)
    <3>1. d \in Deps(fv[n])
      BY <1>3, <2>1, <2>2
    <3>2. PICK m \in 1 .. n - 1 : fv[m] = d
      BY <1>1, <2>2, <3>1 DEF IInv, InputsFirst
    <3>3. m \in 1 .. Len(fv)
      BY <1>3, <2>2
    <3> QED BY <1>3, <3>2, <3>3
  <2>3. CASE n = Len(fv) + 1
    <3>1. d \in Elements(fv)
      BY <1>3, <1>4, <1>5, <2>1, <2>3
    <3>2. PICK m \in 1 .. Len(fv) : fv[m] = d
      BY <1>1, <3>1 DEF Elements
    <3>3. m \in 1 .. n - 1
      BY <1>3, <2>3
    <3> QED BY <1>3, <3>2, <3>3
  <2> QED BY <1>3, <2>2, <2>3
<1> QED BY <1>6, <1>7, <1>8, <1>9, <1>10 DEF IInv

LEMMA PostponeIInv == IInv /\ PostponeFilter => IInv'
<1> SUFFICES ASSUME IInv, PostponeFilter PROVE IInv'
  OBVIOUS
<1> DEFINE f == Head(missing_filter_stack)
           t == Tail(missing_filter_stack)
<1>1. /\ missing_filter_stack # <<>>
      /\ missing_filter_stack \in Seq(Filter) /\ fv \in Seq(Filter)
      /\ i \in Nat /\ i < Len(missing_filter_stack)
      /\ place = "round" /\ i' = i + 1
      /\ Len(missing_filter_stack) + Len(fv) = NFilters
      /\ ~AllDepsClear(f)
      /\ missing_filter_stack' = Append(t, f)
      /\ UNCHANGED <<channellink, resolved_filters, fv, b, placed_filter, cm,
                     connected, place>>
  BY DEF IInv, SchedulingTypeOK, Shared, PostponeFilter, InRound
<1>2. /\ f \in Filter /\ t \in Seq(Filter)
      /\ Len(missing_filter_stack) \in Nat \ {0}
      /\ Len(t) = Len(missing_filter_stack) - 1
      /\ \A n \in 1 .. Len(missing_filter_stack) - 1 : t[n] = missing_filter_stack[n + 1]
      /\ Elements(missing_filter_stack) = Elements(t) \cup {f}
  BY <1>1, TailElements
<1>3. /\ missing_filter_stack' \in Seq(Filter)
      /\ Len(missing_filter_stack') = Len(missing_filter_stack)
      /\ missing_filter_stack'[Len(missing_filter_stack)] = f
      /\ \A n \in 1 .. Len(missing_filter_stack) - 1 :
           missing_filter_stack'[n] = missing_filter_stack[n + 1]
      /\ Elements(missing_filter_stack') = Elements(missing_filter_stack)
  <2> HIDE DEF f, t
  <2>1. /\ Append(t, f) \in Seq(Filter)
        /\ Len(Append(t, f)) = Len(t) + 1
        /\ Append(t, f)[Len(t) + 1] = f
        /\ \A n \in 1 .. Len(t) : Append(t, f)[n] = t[n]
        /\ Elements(Append(t, f)) = Elements(t) \cup {f}
    BY <1>2, AppendElements
  <2> QED BY <1>1, <1>2, <2>1
<1>4. SchedulingTypeOK'
  <2>1. i' \in 0 .. NFilters
    BY <1>1, <1>2, FilterSchedulingAssumption
  <2> QED BY <1>1, <1>3, <2>1 DEF IInv, SchedulingTypeOK
<1>5. Shared'
  <2>1. Elements(missing_filter_stack)' = Elements(missing_filter_stack')
    BY DEF Elements
  <2> QED BY <1>1, <1>3, <2>1 DEF IInv, Shared
<1>6. \A g : AllDepsClear(g)' <=> AllDepsClear(g)
  BY <1>1 DEF AllDepsClear, Deps
<1>7. Visited'
  <2> SUFFICES ASSUME ~placed_filter
               PROVE  /\ i + 1 <= Len(missing_filter_stack)
                      /\ \A n \in Len(missing_filter_stack) - (i + 1) + 1
                                    .. Len(missing_filter_stack) :
                           ~AllDepsClear(missing_filter_stack'[n])
    BY <1>1, <1>3, <1>6 DEF Visited
  <2>1. \A n \in Len(missing_filter_stack) - i + 1 .. Len(missing_filter_stack) :
          ~AllDepsClear(missing_filter_stack[n])
    BY <1>1 DEF IInv, Visited
  <2>2. i + 1 <= Len(missing_filter_stack)
    BY <1>1, <1>2
  <2>3. ASSUME NEW n \in Len(missing_filter_stack) - (i + 1) + 1
                           .. Len(missing_filter_stack)
        PROVE  ~AllDepsClear(missing_filter_stack'[n])
    <3>1. CASE n = Len(missing_filter_stack)
      BY <1>1, <1>3, <3>1
    <3>2. CASE n # Len(missing_filter_stack)
      <4>1. /\ n \in 1 .. Len(missing_filter_stack) - 1
            /\ n + 1 \in Len(missing_filter_stack) - i + 1 .. Len(missing_filter_stack)
        <5> DEFINE len == Len(missing_filter_stack)
        <5>0. len \in Nat /\ i \in Nat /\ i < len
          BY <1>1, <1>2
        <5> HIDE DEF len
        <5>1. n \in Int /\ n <= len /\ n # len /\ n >= len - (i + 1) + 1
          BY <3>2, <5>0 DEF len
        <5>2. n \in 1 .. len - 1 /\ n + 1 \in len - i + 1 .. len
          BY <5>0, <5>1
        <5> QED BY <5>2 DEF len
      <4> QED BY <1>3, <2>1, <4>1
    <3> QED BY <3>1, <3>2
  <2> QED BY <2>2, <2>3
<1>8. Working' /\ Stuck' /\ Emptied'
  <2>1. missing_filter_stack' # <<>>
    BY <1>2, <1>3
  <2> QED BY <1>1, <2>1 DEF Working, Stuck, Emptied
<1>9. KnotsUntouched' /\ InputsFirst'
  <2>1. channellink' = channellink /\ resolved_filters' = resolved_filters /\ fv' = fv
    BY <1>1
  <2>2. KnotsUntouched'
    BY <2>1 DEF IInv, KnotsUntouched, Knot, Deps
  <2>3. InputsFirst'
    BY <2>1 DEF IInv, InputsFirst, Deps
  <2> QED BY <2>2, <2>3
<1> QED BY <1>4, <1>5, <1>7, <1>8, <1>9 DEF IInv

LEMMA EndRoundIInv == IInv /\ EndRound => IInv'
<1> SUFFICES ASSUME IInv, EndRound PROVE IInv'
  OBVIOUS
<1>1. /\ UNCHANGED <<channellink, missing_filter_stack, resolved_filters, fv, cm,
                     connected>>
      /\ i' = 0 /\ placed_filter' = FALSE
      /\ place = "round" /\ i >= Len(missing_filter_stack)
  BY DEF EndRound
<1>2. /\ missing_filter_stack \in Seq(Filter) /\ fv \in Seq(Filter)
      /\ Len(missing_filter_stack) \in Nat /\ Len(fv) \in Nat /\ i \in Nat
      /\ DOMAIN missing_filter_stack = 1 .. Len(missing_filter_stack)
  BY DEF IInv, SchedulingTypeOK
<1>3. place' \in {"round", "connect", "cyclic"} /\ b' \in Seq(Nat)
  <2>1. b \in Seq(Nat)
    BY DEF IInv, SchedulingTypeOK
  <2>2. CASE placed_filter
    <3>1. b' = Append(b, Len(fv)) /\ place' \in {"round", "connect"}
      BY <2>2 DEF EndRound
    <3> QED BY <1>2, <2>1, <3>1
  <2>3. CASE ~placed_filter
    <3>1. b' = b /\ place' = "cyclic"
      BY <2>3 DEF EndRound
    <3> QED BY <2>1, <3>1
  <2> QED BY <2>2, <2>3
<1>4. SchedulingTypeOK' /\ Shared'
  <2>1. i' \in 0 .. NFilters /\ placed_filter' \in BOOLEAN
    <3>1. i' = 0 /\ placed_filter' = FALSE
      BY <1>1
    <3>2. 0 \in 0 .. NFilters
      BY FilterSchedulingAssumption
    <3> QED BY <3>1, <3>2
  <2>2. connected' \in 0 .. Len(fv')
    BY <1>1 DEF IInv, SchedulingTypeOK
  <2>3. place' \in {"round", "connect"} \cup Ended
    BY <1>3 DEF Ended
  <2>4. SchedulingTypeOK'
    BY <1>1, <1>3, <2>1, <2>2, <2>3 DEF IInv, SchedulingTypeOK
  <2> QED BY <1>1, <2>4 DEF IInv, Shared, Elements
<1>5. Visited'
  BY <1>1, <1>2 DEF Visited
<1>6. Working' /\ Emptied'
  BY <1>1, <1>3 DEF EndRound, Working, Emptied
<1>7. Stuck'
  <2> SUFFICES ASSUME place' = "cyclic"
               PROVE  /\ missing_filter_stack # <<>>
                      /\ \A n \in 1 .. Len(missing_filter_stack) :
                           ~AllDepsClear(missing_filter_stack[n])
    BY <1>1, <1>2 DEF Stuck, AllDepsClear, Deps
  <2>1. ~placed_filter
    BY DEF EndRound
  <2>2. missing_filter_stack # <<>>
    BY <1>1, <2>1 DEF IInv, Working
  <2>3. /\ i <= Len(missing_filter_stack)
        /\ \A n \in Len(missing_filter_stack) - i + 1 .. Len(missing_filter_stack) :
             ~AllDepsClear(missing_filter_stack[n])
    BY <1>1, <2>1 DEF IInv, Visited
  <2>4. i = Len(missing_filter_stack)
    <3> DEFINE len == Len(missing_filter_stack)
    <3>1. len \in Nat /\ i \in Nat /\ i <= len /\ i >= len
      BY <1>1, <1>2, <2>3
    <3> HIDE DEF len
    <3>2. i = len
      BY <3>1
    <3> QED BY <3>2 DEF len
  <2> QED BY <1>2, <2>2, <2>3, <2>4
<1>8. KnotsUntouched' /\ InputsFirst'
  BY <1>1 DEF IInv, KnotsUntouched, Knot, InputsFirst, Deps
<1> QED BY <1>4, <1>5, <1>6, <1>7, <1>8 DEF IInv

LEMMA ConnectIInv == IInv /\ (ConnectFilter \/ AllConnected) => IInv'
<1> SUFFICES ASSUME IInv, ConnectFilter \/ AllConnected PROVE IInv'
  OBVIOUS
<1>1. /\ UNCHANGED <<channellink, scheduled>>
      /\ place = "connect"
      /\ place' \in {"connect", "unknown_channel", "done"}
  BY DEF ConnectFilter, AllConnected
<1>2. connected' \in 0 .. Len(fv)
  <2>1. connected \in 0 .. Len(fv) /\ Len(fv) \in Nat
    BY DEF IInv, SchedulingTypeOK
  <2>2. connected' = connected \/ (connected < Len(fv) /\ connected' = connected + 1)
    BY DEF ConnectFilter, AllConnected
  <2> QED BY <2>1, <2>2
<1>3. SchedulingTypeOK' /\ Shared'
  BY <1>1, <1>2 DEF IInv, SchedulingTypeOK, Shared, Elements, scheduled, Ended
<1>4. Visited' /\ Working' /\ Stuck' /\ Emptied'
  BY <1>1 DEF IInv, scheduled, Visited, Working, Stuck, Emptied
<1>5. KnotsUntouched' /\ InputsFirst'
  BY <1>1 DEF IInv, scheduled, KnotsUntouched, Knot, InputsFirst, Deps
<1> QED BY <1>3, <1>4, <1>5 DEF IInv

LEMMA Invariant == SchedulingSpec => []IInv
<1>1. SchedulingInit => IInv
  BY InitIInv
<1>2. IInv /\ [SchedulingNext]_schedulingVars => IInv'
  <2> SUFFICES ASSUME IInv, [SchedulingNext]_schedulingVars PROVE IInv'
    OBVIOUS
  <2>1. CASE UNCHANGED schedulingVars
    <3>1. SchedulingTypeOK'
      BY <2>1 DEF schedulingVars, IInv, SchedulingTypeOK
    <3>2. Shared' /\ Visited' /\ Working'
      BY <2>1 DEF schedulingVars, IInv, Shared, Elements, Visited, Working, AllDepsClear, Deps
    <3>3. Stuck' /\ Emptied'
      BY <2>1 DEF schedulingVars, IInv, Stuck, Emptied, AllDepsClear, Deps
    <3>4. KnotsUntouched' /\ InputsFirst'
      BY <2>1 DEF schedulingVars, IInv, KnotsUntouched, Knot, InputsFirst, Deps
    <3> QED BY <3>1, <3>2, <3>3, <3>4 DEF IInv
  <2> QED
    BY <2>1, PlaceIInv, PostponeIInv, EndRoundIInv, ConnectIInv DEF SchedulingNext
<1> QED BY <1>1, <1>2, PTL DEF SchedulingSpec
-----------------------------------------------------------------------------
(* The queue holds filters, the resolved filters are those of the order.   *)
THEOREM OrderTypeCorrect == SchedulingSpec => []SchedulingTypeOK
<1>1. IInv => SchedulingTypeOK
  BY DEF IInv
<1> QED BY <1>1, Invariant, PTL

(* In every scene each filter is updated after those it reads.             *)
THEOREM InputsComeFirst == SchedulingSpec => []InputsFirst
<1>1. IInv => InputsFirst
  BY DEF IInv
<1> QED BY <1>1, Invariant, PTL

(* The scheduling exception is thrown exactly for the scenes whose filters *)
(* have no order, for any number of filters and any links.                 *)
THEOREM RejectsExactlyUnorderable == SchedulingSpec => []RejectsOnlyUnorderable
<1>1. IInv => RejectsOnlyUnorderable
  <2> SUFFICES ASSUME IInv PROVE RejectsOnlyUnorderable
    OBVIOUS
  <2> DEFINE U == Elements(missing_filter_stack)
  <2>1. U \cup resolved_filters = Filter
    BY DEF IInv, Shared
  <2>2. ASSUME place = "cyclic" PROVE Unorderable
    <3>1. /\ missing_filter_stack \in Seq(Filter) /\ missing_filter_stack # <<>>
          /\ \A n \in DOMAIN missing_filter_stack :
               ~AllDepsClear(missing_filter_stack[n])
      BY <2>2 DEF IInv, SchedulingTypeOK, Stuck
    <3>2. U # {}
      BY <3>1, TailElements
    <3>3. ASSUME NEW f \in U PROVE Deps(f) \cap (U \cup {Unknown}) # {}
      <4>1. ~(Deps(f) \subseteq resolved_filters)
        BY <3>1 DEF Elements, AllDepsClear
      <4>2. Deps(f) \subseteq Filter \cup {Unknown}
        BY <2>1, WiringDeps DEF IInv
      <4> QED BY <2>1, <4>1, <4>2
    <3> QED BY <2>1, <3>2, <3>3 DEF Unorderable
  <2>3. ASSUME place \in {"connect", "done", "unknown_channel"} PROVE ~Unorderable
    <3>1. U = {}
      BY <2>3 DEF IInv, Emptied, Elements
    <3>2. resolved_filters = Filter
      BY <2>1, <3>1
    <3> QED BY <3>2 DEF IInv, KnotsUntouched, Knot, Unorderable
  <2> QED BY <2>2, <2>3 DEF RejectsOnlyUnorderable
<1> QED BY <1>1, Invariant, PTL
-----------------------------------------------------------------------------
(***************************************************************************)
(* connect_filters.  What it has announced are the channels of the filters *)
(* it has connected, of which none has an open link.  By InputsFirst all   *)
(* that the next filter may be linked to has been announced.               *)
(***************************************************************************)
Announced ==
  /\ place = "round" => connected = 0
  /\ place = "done" => connected = Len(fv)
  /\ place # "unknown_channel" =>
       /\ \A c \in cm : \E n \in 1 .. connected : c[1] = fv[n] /\ c[2] \in Provided[fv[n]]
       /\ \A n \in 1 .. connected : channellink[fv[n]] \subseteq cm
       /\ \A n \in 1 .. connected : {fv[n]} \X Provided[fv[n]] \subseteq cm
  /\ place = "unknown_channel" =>
       \E f \in Filter : \E l \in channellink[f] : l[2] \notin Provided[l[1]]

LEMMA AnnouncedInit == SchedulingInit => Announced
  BY DEF SchedulingInit, Announced

LEMMA AnnouncedConnect == IInv /\ Announced /\ ConnectFilter => Announced'
<1> SUFFICES ASSUME IInv, Announced, ConnectFilter PROVE Announced'
  OBVIOUS
<1> DEFINE f == fv[connected + 1]
<1>1. /\ place = "connect" /\ UNCHANGED <<fv, channellink>>
      /\ cm' = cm \cup ({f} \X Provided[f])
      /\ \/ channellink[f] \subseteq cm' /\ connected' = connected + 1 /\ place' = place
         \/ ~(channellink[f] \subseteq cm') /\ place' = "unknown_channel" /\ connected' = connected
  BY DEF ConnectFilter, scheduled
<1>2. /\ connected \in Nat /\ Len(fv) \in Nat /\ connected < Len(fv)
      /\ connected + 1 \in DOMAIN fv /\ f \in Filter
  BY DEF ConnectFilter, IInv, SchedulingTypeOK
<1>3. /\ \A c \in cm : \E n \in 1 .. connected : c[1] = fv[n] /\ c[2] \in Provided[fv[n]]
      /\ \A n \in 1 .. connected : channellink[fv[n]] \subseteq cm
      /\ \A n \in 1 .. connected : {fv[n]} \X Provided[fv[n]] \subseteq cm
  BY <1>1 DEF Announced
<1>4. CASE channellink[f] \subseteq cm'
  <2>1. connected' = connected + 1 /\ place' = "connect"
    BY <1>1, <1>4
  <2>2. \A n \in 1 .. connected' : n \in 1 .. connected \/ n = connected + 1
    BY <1>2, <2>1
  <2>3. connected + 1 \in 1 .. connected' /\ \A n \in 1 .. connected : n \in 1 .. connected'
    BY <1>2, <2>1
  <2>4. \A c \in {f} \X Provided[f] : c[1] = f /\ c[2] \in Provided[f]
    OBVIOUS
  <2>5. \A c \in cm' : \E n \in 1 .. connected' : c[1] = fv'[n] /\ c[2] \in Provided[fv'[n]]
    <3>1. ASSUME NEW c \in cm
          PROVE  \E n \in 1 .. connected' : c[1] = fv'[n] /\ c[2] \in Provided[fv'[n]]
      BY <1>1, <1>3, <2>3
    <3>2. ASSUME NEW c \in {f} \X Provided[f]
          PROVE  \E n \in 1 .. connected' : c[1] = fv'[n] /\ c[2] \in Provided[fv'[n]]
      BY <1>1, <2>3, <2>4
    <3> QED BY <1>1, <3>1, <3>2
  <2>6. \A n \in 1 .. connected' : /\ channellink'[fv'[n]] \subseteq cm'
                                   /\ {fv'[n]} \X Provided[fv'[n]] \subseteq cm'
    <3>1. ASSUME NEW n \in 1 .. connected
          PROVE  channellink[fv[n]] \subseteq cm' /\ {fv[n]} \X Provided[fv[n]] \subseteq cm'
      <4>1. channellink[fv[n]] \subseteq cm /\ {fv[n]} \X Provided[fv[n]] \subseteq cm
        BY <1>3
      <4> HIDE DEF f
      <4> QED BY <1>1, <4>1
    <3>2. channellink[f] \subseteq cm' /\ {f} \X Provided[f] \subseteq cm'
      BY <1>1, <1>4
    <3> QED BY <1>1, <2>2, <3>1, <3>2
  <2> QED BY <2>1, <2>5, <2>6 DEF Announced
<1>5. CASE ~(channellink[f] \subseteq cm')
  <2>1. PICK l \in channellink[f] : l \notin cm'
    BY <1>5
  <2>2. l = <<l[1], l[2]>>
    BY <1>2, FilterSchedulingAssumption DEF FilterSchedulingAssumption, IInv, SchedulingTypeOK
  <2>3. PICK m \in 1 .. connected : fv[m] = l[1]
    <3>1. l[1] \in Deps(f)
      BY DEF Deps
    <3>2. \E m \in 1 .. connected + 1 - 1 : fv[m] = l[1]
      BY <1>2, <3>1 DEF IInv, InputsFirst
    <3> QED BY <1>2, <3>2
  <2>4. {l[1]} \X Provided[l[1]] \subseteq cm
    BY <1>3, <2>3
  <2>5. l \notin cm
    BY <1>1, <2>1
  <2>6. l[2] \notin Provided[l[1]]
    BY <2>2, <2>4, <2>5
  <2>7. place' = "unknown_channel" /\ channellink' = channellink
    BY <1>1, <1>5
  <2> QED BY <1>2, <2>1, <2>6, <2>7 DEF Announced
<1> QED BY <1>4, <1>5

LEMMA AnnouncedStep == IInv /\ Announced /\ [SchedulingNext]_schedulingVars => Announced'
<1> SUFFICES ASSUME IInv, Announced, [SchedulingNext]_schedulingVars PROVE Announced'
  OBVIOUS
<1>1. CASE PlaceFilter \/ PostponeFilter \/ EndRound
  <2>1. /\ place = "round" /\ place' \in {"round", "connect", "cyclic"}
        /\ UNCHANGED <<cm, connected, channellink>>
    BY <1>1 DEF PlaceFilter, PostponeFilter, EndRound, InRound
  <2>2. connected = 0 /\ 1 .. connected = {} /\ cm = {}
    BY <2>1 DEF Announced
  <2> QED BY <2>1, <2>2 DEF Announced
<1>2. CASE ConnectFilter
  BY <1>2, AnnouncedConnect
<1>3. CASE AllConnected
  BY <1>3 DEF AllConnected, Announced, scheduled
<1>4. CASE UNCHANGED schedulingVars
  BY <1>4 DEF schedulingVars, Announced
<1> QED BY <1>1, <1>2, <1>3, <1>4 DEF SchedulingNext

(* A scene whose links all name channels that exist is connected, although *)
(* connect_filters looks only at the filters placed so far, and a link to  *)
(* a channel that does not exist is reported (scene_factory.cpp:664-677).  *)
THEOREM LinksAlwaysFound == SchedulingSpec => []LinksFound
<1>1. IInv /\ Announced => LinksFound
  <2> SUFFICES ASSUME IInv, Announced PROVE LinksFound
    OBVIOUS
  <2>1. ASSUME place = "done", NEW f \in Filter, NEW l \in channellink[f]
        PROVE  l[2] \in Provided[l[1]]
    <3>1. Elements(missing_filter_stack) = {}
      BY <2>1 DEF IInv, Emptied, Elements
    <3>2. f \in resolved_filters
      BY <3>1 DEF IInv, Shared
    <3>3. PICK n \in DOMAIN fv : fv[n] = f
      BY <3>2 DEF IInv, SchedulingTypeOK
    <3>4. n \in 1 .. connected
      BY <2>1, <3>3 DEF IInv, SchedulingTypeOK, Announced
    <3>5. l \in cm
      BY <2>1, <3>3, <3>4 DEF Announced
    <3> QED BY <2>1, <3>5 DEF Announced
  <2>2. ASSUME place = "unknown_channel"
        PROVE  \E f \in Filter : \E l \in channellink[f] : l[2] \notin Provided[l[1]]
    BY <2>2 DEF Announced
  <2> QED BY <2>1, <2>2 DEF LinksFound
<1> QED BY <1>1, Invariant, AnnouncedInit, AnnouncedStep, PTL DEF SchedulingSpec

-----------------------------------------------------------------------------
(* The pool (ThreadPool).                                                   *)
USE ThreadPoolAssumption DEF ThreadPoolAssumption

(* What the program counters say about the variables they go with; the     *)
(* types are not inductive without it.                                     *)
PlacesOK ==
  /\ cpc \in {"test", "spawn", "count", "cleanup"} => next \in Task
  /\ cpc = "run" => ctask \in Task
  /\ \A w \in Worker : wpc[w] = "run" => wtask[w] \in Task

Inv1 == TypeOK /\ PlacesOK

LEMMA Inv1Init == Init => Inv1
<1> SUFFICES ASSUME Init PROVE Inv1
  OBVIOUS
<1>1. /\ tasks \in Seq(Task)
      /\ stopped_threads \subseteq Worker /\ threads \subseteq Worker
      /\ joined \subseteq Worker
  BY DEF Init
<1>2. active_threads \in 0 .. Modulus - 1 /\ next \in 1 .. NTasks + 1
  BY DEF Init
<1>3. /\ wpc \in [Worker -> {"unborn", "test", "pop", "run", "leave", "stop",
                              "finished"}]
      /\ wtask \in [Worker -> Task \cup {NoTask}]
      /\ ran \in [Task -> Nat]
  BY DEF Init
<1> QED
  BY <1>1, <1>2, <1>3 DEF Init, TypeOK, PlacesOK, Inv1

(* The caller's steps keep the types.                                      *)
LEMMA Inv1Caller == Inv1 /\ CallerStep => Inv1'
<1> SUFFICES ASSUME Inv1, CallerStep PROVE Inv1'
  OBVIOUS
<1> USE DEF Inv1, TypeOK, PlacesOK, NoTask
<1>1. CASE Push
  BY <1>1 DEF Push
<1>2. CASE TestActive
  BY <1>2 DEF TestActive
<1>3. CASE Spawn
  <2>1. next \in Worker
    BY <1>3 DEF Spawn, Task, Worker
  <2>2. /\ wpc' \in [Worker -> {"unborn", "test", "pop", "run", "leave", "stop",
                                "finished"}]
        /\ \A w \in Worker : wpc'[w] = "run" => wpc[w] = "run"
    BY <1>3 DEF Spawn
  <2> QED
    BY <1>3, <2>1, <2>2 DEF Spawn
<1>4. CASE Count
  BY <1>4 DEF Count, Increment
<1>5. CASE Cleanup
  <2>1. next' \in 1 .. NTasks + 1
    BY <1>5 DEF Cleanup, Task
  <2> QED
    BY <1>5, <2>1 DEF Cleanup, Reap
<1>6. CASE JoinTest
  BY <1>6 DEF JoinTest
<1>7. CASE JoinPop
  <2>1. CASE tasks = <<>>
    BY <1>7, <2>1 DEF JoinPop
  <2>2. CASE tasks # <<>>
    <3>1. Head(tasks) \in Task /\ Tail(tasks) \in Seq(Task)
      BY <2>2
    <3> QED
      BY <1>7, <2>2, <3>1 DEF JoinPop
  <2> QED
    BY <2>1, <2>2
<1>8. CASE JoinRun
  <2>1. ctask \in Task /\ ran' = [ran EXCEPT ![ctask] = ran[ctask] + 1]
    BY <1>8 DEF JoinRun
  <2>2. ran' \in [Task -> Nat]
    BY <2>1
  <2> QED
    BY <1>8, <2>2 DEF JoinRun
<1>9. CASE JoinWait
  BY <1>9 DEF JoinWait
<1>10. CASE Destroy
  BY <1>10 DEF Destroy
<1>11. CASE DestroyCleanup
  BY <1>11 DEF DestroyCleanup, Reap
<1> QED
  BY <1>1, <1>2, <1>3, <1>4, <1>5, <1>6, <1>7, <1>8, <1>9, <1>10, <1>11
  DEF CallerStep

(* The workers' steps keep the types.                                      *)
LEMMA Inv1Worker ==
  ASSUME Inv1, NEW w \in Worker, WorkerStep(w)
  PROVE  Inv1'
<1> USE DEF Inv1, TypeOK, PlacesOK, NoTask
<1>1. CASE WorkerTest(w)
  BY <1>1 DEF WorkerTest
<1>2. CASE WorkerPop(w)
  <2>1. CASE tasks = <<>>
    BY <1>2, <2>1 DEF WorkerPop
  <2>2. CASE tasks # <<>>
    <3>1. Head(tasks) \in Task /\ Tail(tasks) \in Seq(Task)
      BY <2>2
    <3> QED
      BY <1>2, <2>2, <3>1 DEF WorkerPop
  <2> QED
    BY <2>1, <2>2
<1>3. CASE WorkerRun(w)
  <2>1. /\ wtask[w] \in Task
        /\ ran' = [ran EXCEPT ![wtask[w]] = ran[wtask[w]] + 1]
    BY <1>3 DEF WorkerRun
  <2>2. ran' \in [Task -> Nat]
    BY <2>1
  <2> QED
    BY <1>3, <2>2 DEF WorkerRun
<1>4. CASE WorkerLeave(w)
  BY <1>4 DEF WorkerLeave, Decrement
<1>5. CASE WorkerStop(w)
  BY <1>5 DEF WorkerStop
<1> QED
  BY <1>1, <1>2, <1>3, <1>4, <1>5 DEF WorkerStep

LEMMA Inv1Step == Inv1 /\ [Next]_poolVars => Inv1'
<1>1. Inv1 /\ UNCHANGED poolVars => Inv1'
  BY DEF Inv1, TypeOK, PlacesOK, poolVars
<1> QED
  BY <1>1, Inv1Caller, Inv1Worker DEF Next

(* Every variable keeps its type: in particular the counter stays within   *)
(* its width although it is decremented before it is incremented.          *)
THEOREM PoolTypeCorrect == Spec => []TypeOK
<1>1. Inv1 => TypeOK
  BY DEF Inv1
<1> QED
  BY <1>1, Inv1Init, Inv1Step, PTL DEF Spec
-----------------------------------------------------------------------------
(***************************************************************************)
(* The counter.  It differs from the number of live workers only between   *)
(* the start of a worker and the increment.                                *)
(***************************************************************************)

Counted ==
  /\ active_threads = IF cpc = "count" THEN Decrement(Cardinality(Live))
                                      ELSE Cardinality(Live)
  /\ cpc = "spawn" => Cardinality(Live) < CpuCount
  /\ AtMostCpuCount
  /\ \A w \in Worker : w > next => wpc[w] = "unborn"
  /\ cpc \in {"enque", "test", "spawn"} /\ next \in Worker => wpc[next] = "unborn"

Inv2 == Inv1 /\ Counted

LEMMA LiveFinite == IsFiniteSet(Live) /\ Cardinality(Live) \in Nat
<1>1. IsFiniteSet(Worker) 
  BY FS_Interval, NTasks \in Int, 1 \in Int DEF Worker
<1>2. Live \in SUBSET Worker
  BY DEF Live
<1>3. IsFiniteSet(Live)
  BY <1>1, <1>2, FS_Subset
<1> QED
  BY <1>3, FS_CardinalityType

(* A worker that starts is one more, one that leaves is one less.          *)
LEMMA LiveSpawn ==
  ASSUME Inv2, Spawn
  PROVE  Cardinality(Live') = Cardinality(Live) + 1
<1>1. next \in Worker /\ wpc[next] = "unborn"
  BY DEF Spawn, Inv2, Inv1, PlacesOK, Counted, Task, Worker
<1>2. wpc' = [wpc EXCEPT ![next] = "test"] /\ DOMAIN wpc = Worker
  BY DEF Spawn, Inv2, Inv1, TypeOK
<1>3. Live' = Live \cup {next} /\ next \notin Live
  BY <1>1, <1>2 DEF Live
<1> QED
  BY <1>3, LiveFinite, FS_AddElement

LEMMA LiveLeave ==
  ASSUME Inv2, NEW w \in Worker, WorkerLeave(w)
  PROVE  /\ Cardinality(Live') = Cardinality(Live) - 1
         /\ Cardinality(Live') \in Nat
<1>1. /\ wpc' = [wpc EXCEPT ![w] = "stop"]
      /\ DOMAIN wpc = Worker
      /\ wpc[w] = "leave"
  BY DEF WorkerLeave, Inv2, Inv1, TypeOK
<1>2. Live' = Live \ {w} /\ w \in Live
  BY <1>1 DEF Live
<1>3. IsFiniteSet(Live \ {w}) /\ Cardinality(Live \ {w}) = Cardinality(Live) - 1
  BY <1>2, LiveFinite, FS_RemoveElement
<1>4. Cardinality(Live \ {w}) \in Nat
  BY <1>3, FS_CardinalityType
<1> QED
  BY <1>2, <1>3, <1>4

LEMMA CountedInit == Init => Counted
<1> SUFFICES ASSUME Init PROVE Counted
  OBVIOUS
<1>1. Live = {}
  BY DEF Init, Live
<1>2. Cardinality(Live) = 0
  BY <1>1, FS_EmptySet
<1> QED
  BY <1>2 DEF Init, Counted, AtMostCpuCount

(* A step of the caller that neither starts a worker nor counts one.       *)
LEMMA CountedQuiet ==
  ASSUME Inv2, UNCHANGED <<wpc, active_threads, next>>,
         cpc # "count", cpc' \notin {"count", "spawn", "enque"},
         cpc' = "test" => cpc = "enque"
  PROVE  Counted'
<1>1. Live' = Live
  BY DEF Live
<1> QED
  BY <1>1 DEF Inv2, Counted, AtMostCpuCount

LEMMA CountedCaller == Inv2 /\ CallerStep => Counted'
<1> SUFFICES ASSUME Inv2, CallerStep PROVE Counted'
  OBVIOUS
<1>a. Cardinality(Live) \in Nat
  BY LiveFinite
<1>1. CASE Push
  BY <1>1, CountedQuiet DEF Push
<1>2. CASE TestActive
  <2>1. Live' = Live
    BY <1>2 DEF TestActive, Live
  <2> QED
    BY <1>2, <2>1 DEF TestActive, Inv2, Counted, AtMostCpuCount
<1>3. CASE Spawn
  <2>1. Cardinality(Live') = Cardinality(Live) + 1
    BY <1>3, LiveSpawn
  <2>2. Decrement(Cardinality(Live) + 1) = Cardinality(Live)
    BY <1>a DEF Decrement
  <2>3. \A w \in Worker : w > next => wpc'[w] = wpc[w]
    BY <1>3 DEF Spawn, Inv2, Inv1, TypeOK, PlacesOK, Task
  <2>4. /\ active_threads' = active_threads /\ cpc = "spawn" /\ cpc' = "count"
        /\ next' = next
    BY <1>3 DEF Spawn
  <2> QED
    BY <1>a, <2>1, <2>2, <2>3, <2>4 DEF Inv2, Counted, AtMostCpuCount
<1>4. CASE Count
  <2>1. Live' = Live
    BY <1>4 DEF Count, Live
  <2>2. Increment(Decrement(Cardinality(Live))) = Cardinality(Live)
    BY <1>a DEF Inv2, Counted, AtMostCpuCount, Increment, Decrement
  <2> QED
    BY <1>4, <2>1, <2>2 DEF Count, Inv2, Counted, AtMostCpuCount
<1>5. CASE Cleanup
  <2>1. Live' = Live
    BY <1>5 DEF Cleanup, Live
  <2>2. next' = next + 1 /\ next \in Nat
    BY <1>5 DEF Cleanup, Inv2, Inv1, TypeOK
  <2>3. /\ \A w \in Worker : w > next' => wpc'[w] = "unborn"
        /\ next' \in Worker => wpc'[next'] = "unborn"
    BY <1>5, <2>2 DEF Cleanup, Inv2, Counted, Worker
  <2>4. /\ cpc = "cleanup" /\ cpc' \in {"enque", "join"}
        /\ active_threads' = active_threads
    BY <1>5 DEF Cleanup
  <2> QED
    BY <2>1, <2>3, <2>4 DEF Inv2, Counted, AtMostCpuCount
<1>6. CASE JoinTest
  BY <1>6, CountedQuiet DEF JoinTest
<1>7. CASE JoinPop
  BY <1>7, CountedQuiet DEF JoinPop
<1>8. CASE JoinRun
  BY <1>8, CountedQuiet DEF JoinRun
<1>9. CASE JoinWait
  BY <1>9, CountedQuiet DEF JoinWait
<1>10. CASE Destroy
  BY <1>10, CountedQuiet DEF Destroy
<1>11. CASE DestroyCleanup
  BY <1>11, CountedQuiet DEF DestroyCleanup
<1> QED
  BY <1>1, <1>2, <1>3, <1>4, <1>5, <1>6, <1>7, <1>8, <1>9, <1>10, <1>11
  DEF CallerStep

LEMMA CountedWorker ==
  ASSUME Inv2, NEW w \in Worker, WorkerStep(w)
  PROVE  Counted'
<1>a. Cardinality(Live) \in Nat
  BY LiveFinite
<1>b. wpc \in [Worker -> {"unborn", "test", "pop", "run", "leave", "stop",
                          "finished"}]
  BY DEF Inv2, Inv1, TypeOK
<1>1. CASE WorkerLeave(w)
  <2>1. /\ Cardinality(Live') = Cardinality(Live) - 1
        /\ Cardinality(Live') \in Nat
    BY <1>1, LiveLeave
  <2>2. \A u \in Worker : wpc[u] = "unborn" => wpc'[u] = "unborn"
    BY <1>1, <1>b DEF WorkerLeave
  <2>3. /\ cpc' = cpc /\ next' = next
        /\ active_threads' = Decrement(active_threads)
    BY <1>1 DEF WorkerLeave
  <2>4. Decrement(Cardinality(Live)) = Cardinality(Live')
    BY <1>a, <2>1 DEF Decrement
  <2>5. active_threads' = IF cpc' = "count" THEN Decrement(Cardinality(Live'))
                                            ELSE Cardinality(Live')
    BY <2>3, <2>4 DEF Inv2, Counted
  <2> QED
    BY <1>a, <2>1, <2>2, <2>3, <2>5 DEF Inv2, Counted, AtMostCpuCount
<1>2. ASSUME WorkerTest(w) \/ WorkerPop(w) \/ WorkerRun(w) \/ WorkerStop(w)
      PROVE  Counted'
  <2>1. /\ cpc' = cpc /\ next' = next /\ active_threads' = active_threads
    BY <1>2 DEF WorkerTest, WorkerPop, WorkerRun, WorkerStop
  <2>2. \A u \in Worker :
          /\ wpc[u] = "unborn" => wpc'[u] = "unborn"
          /\ wpc[u] \in {"test", "pop", "run", "leave"}
               <=> wpc'[u] \in {"test", "pop", "run", "leave"}
    BY <1>2, <1>b DEF WorkerTest, WorkerPop, WorkerRun, WorkerStop
  <2>3. Live' = Live
    BY <2>2 DEF Live
  <2> QED
    BY <2>1, <2>2, <2>3 DEF Inv2, Counted, AtMostCpuCount
<1> QED
  BY <1>1, <1>2 DEF WorkerStep

LEMMA Inv2Step == Inv2 /\ [Next]_poolVars => Inv2'
<1>1. ASSUME Inv2, UNCHANGED poolVars PROVE Counted'
  <2>1. Live' = Live
    BY <1>1 DEF poolVars, Live
  <2> QED
    BY <1>1, <2>1 DEF poolVars, Inv2, Counted, AtMostCpuCount
<1>2. Inv2 /\ [Next]_poolVars => Counted'
  BY <1>1, CountedCaller, CountedWorker DEF Next
<1> QED
  BY <1>2, Inv1Step DEF Inv2

LEMMA CounterInvariant == Spec => []Inv2
<1>1. Init => Inv2
  BY Inv1Init, CountedInit DEF Inv2
<1> QED
  BY <1>1, Inv2Step, PTL DEF Spec

(* At most cpu_count workers take tasks at any time, whatever the order of *)
(* a worker's decrement and the caller's late increment.                   *)
THEOREM NeverMoreThanCpuCount == Spec => []AtMostCpuCount
<1>1. Inv2 => AtMostCpuCount
  BY DEF Inv2, Counted
<1> QED
  BY <1>1, CounterInvariant, PTL

(* Where enque compares the counter with cpu_count, it is exact.           *)
THEOREM CounterExact == Spec => []CounterExactWhenRead
<1>1. Inv2 => CounterExactWhenRead
  BY DEF Inv2, Counted, CounterExactWhenRead
<1> QED
  BY <1>1, CounterInvariant, PTL

-----------------------------------------------------------------------------
(* Its tasks and the scenes they build (SceneLoading).                      *)
Enqueuing == {"enque", "test", "spawn", "count", "cleanup"}

InQueue(t) == \E p \in 1 .. Len(tasks) : tasks[p] = t
InHands(t) == \E w \in Worker : wtask[w] = t

(* A task is in one place at most.                                         *)
OneHome ==
  /\ \A p, j \in 1 .. Len(tasks) : tasks[p] = tasks[j] => p = j
  /\ \A t \in Task : InQueue(t) => ~InHands(t) /\ ctask # t /\ ran[t] = 0
  /\ \A t \in Task : InHands(t) => ctask # t /\ ran[t] = 0
  /\ \A u, w \in Worker : wtask[u] = wtask[w] /\ wtask[w] # NoTask => u = w
  /\ \A t \in Task : ctask = t => ran[t] = 0
  /\ \A t \in Task : ran[t] \in {0, 1}

(* A task is in some place exactly from its enque on.                      *)
Homed ==
  \A t \in Task : Enqueued(t) <=> InQueue(t) \/ InHands(t) \/ ctask = t \/ ran[t] = 1

(* Hands are full only while they run something; every worker that was     *)
(* started is in the list, and will be waited for; the caller tests the    *)
(* queue after the last enque.                                             *)
Hands ==
  /\ cpc # "run" => ctask = NoTask
  /\ \A w \in Worker : wpc[w] # "run" => wtask[w] = NoTask
  /\ \A w \in Worker : w \in threads <=> wpc[w] # "unborn"
  /\ \A w \in Worker : next < w \/ (w = next /\ cpc \in {"enque", "test", "spawn"})
                         => wpc[w] = "unborn"
  /\ joined \subseteq threads
  /\ cpc \notin Enqueuing => next = NTasks + 1
  /\ cpc = "wait" => tasks = <<>>

Inv3 == Inv1 /\ OneHome /\ Homed /\ Hands /\ JoinMeansDone
-----------------------------------------------------------------------------
(* The two operations of a locked_queue.                                   *)

LEMMA PushBack ==
  ASSUME NEW q \in Seq(Task), NEW x \in Task
  PROVE  /\ Len(Append(q, x)) = Len(q) + 1
         /\ \A p \in 1 .. Len(q) : Append(q, x)[p] = q[p]
         /\ Append(q, x)[Len(q) + 1] = x
  OBVIOUS

LEMMA PopFront ==
  ASSUME NEW q \in Seq(Task), q # <<>>
  PROVE  /\ Head(q) = q[1] /\ Head(q) \in Task
         /\ Len(q) \in Nat \ {0} /\ Len(Tail(q)) = Len(q) - 1
         /\ \A p \in 1 .. Len(q) - 1 : Tail(q)[p] = q[p + 1]
  OBVIOUS

(* The steps that move no task.                                            *)
LEMMA TasksStay ==
  ASSUME OneHome, Homed, UNCHANGED <<tasks, wtask, ctask, ran>>,
         \A t \in Task : Enqueued(t)' <=> Enqueued(t)
  PROVE  OneHome' /\ Homed'
  BY DEF OneHome, Homed, InQueue, InHands

(* Taking the front of the queue: the others move up.                      *)
LEMMA FrontTaken ==
  ASSUME Inv1, OneHome, tasks # <<>>, tasks' = Tail(tasks)
  PROVE  /\ Head(tasks) \in Task /\ InQueue(Head(tasks))
         /\ \A p, j \in 1 .. Len(tasks') : tasks'[p] = tasks'[j] => p = j
         /\ \A t \in Task : InQueue(t)' <=> InQueue(t) /\ t # Head(tasks)
<1>0. tasks \in Seq(Task)
  BY DEF Inv1, TypeOK
<1>1. /\ Head(tasks) = tasks[1] /\ Head(tasks) \in Task
      /\ Len(tasks) \in Nat \ {0} /\ Len(tasks') = Len(tasks) - 1
      /\ \A p \in 1 .. Len(tasks) - 1 : tasks'[p] = tasks[p + 1]
  BY <1>0, PopFront
<1>2. \A p, j \in 1 .. Len(tasks) : tasks[p] = tasks[j] => p = j
  BY DEF OneHome
<1>3. InQueue(Head(tasks))
  BY <1>1 DEF InQueue
<1>4. ASSUME NEW p \in 1 .. Len(tasks'), NEW j \in 1 .. Len(tasks'), tasks'[p] = tasks'[j]
      PROVE  p = j
  BY <1>1, <1>2, <1>4
<1>5. ASSUME NEW t \in Task  PROVE InQueue(t)' <=> InQueue(t) /\ t # Head(tasks)
  <2>1. ASSUME NEW p \in 1 .. Len(tasks'), tasks'[p] = t
        PROVE  InQueue(t) /\ t # Head(tasks)
    BY <1>1, <1>2, <2>1 DEF InQueue
  <2>2. ASSUME NEW p \in 1 .. Len(tasks), tasks[p] = t, t # Head(tasks)
        PROVE  InQueue(t)'
    <3>1. p - 1 \in 1 .. Len(tasks') /\ tasks'[p - 1] = t
      BY <1>1, <2>2
    <3> QED  BY <3>1 DEF InQueue
  <2> QED  BY <2>1, <2>2 DEF InQueue
<1> QED  BY <1>1, <1>3, <1>4, <1>5
-----------------------------------------------------------------------------
LEMMA Inv3Init == Init => Inv3
<1> SUFFICES ASSUME Init  PROVE Inv3
  OBVIOUS
<1>1. Inv1
  BY Inv1Init
<1>2. Len(tasks) = 0 /\ \A t \in Task : ~InQueue(t) /\ ~InHands(t) /\ ctask # t
  BY DEF Init, InQueue, InHands, NoTask, Task
<1>3. OneHome
  BY <1>2 DEF Init, OneHome, NoTask, InHands
<1>4. Homed
  BY <1>2 DEF Init, Homed, Enqueued, Task
<1>5. Hands /\ JoinMeansDone
  BY DEF Init, Hands, JoinMeansDone, Enqueuing, Worker
<1> QED  BY <1>1, <1>3, <1>4, <1>5 DEF Inv3
-----------------------------------------------------------------------------
(* Tasks are moved by five steps only.                                     *)

LEMMA PushHomes == Inv3 /\ Push => OneHome' /\ Homed'
<1> SUFFICES ASSUME Inv3, Push  PROVE OneHome' /\ Homed'
  OBVIOUS
<1>0. tasks \in Seq(Task) /\ next \in Task /\ ran \in [Task -> Nat]
  BY DEF Inv3, Inv1, TypeOK, Push
<1>1. /\ Len(tasks) \in Nat /\ Len(tasks') = Len(tasks) + 1
      /\ \A p \in 1 .. Len(tasks) : tasks'[p] = tasks[p]
      /\ tasks'[Len(tasks) + 1] = next
  BY <1>0, PushBack DEF Push
<1>2. ~InQueue(next) /\ ~InHands(next) /\ ctask # next /\ ran[next] = 0
  <2>1. ~Enqueued(next)
    BY <1>0 DEF Push, Enqueued, Task
  <2> QED  BY <2>1, <1>0 DEF Inv3, Homed, OneHome
<1>3. \A t \in Task : InQueue(t)' <=> InQueue(t) \/ t = next
  <2>1. ASSUME NEW t \in Task, InQueue(t)'  PROVE InQueue(t) \/ t = next
    <3>1. PICK p \in 1 .. Len(tasks') : tasks'[p] = t
      BY <2>1 DEF InQueue
    <3> QED  BY <3>1, <1>1 DEF InQueue
  <2>2. ASSUME NEW t \in Task, InQueue(t)  PROVE InQueue(t)'
    <3>1. PICK p \in 1 .. Len(tasks) : tasks[p] = t
      BY <2>2 DEF InQueue
    <3>2. p \in 1 .. Len(tasks') /\ tasks'[p] = t
      BY <3>1, <1>1
    <3> QED  BY <3>2 DEF InQueue
  <2>3. \E p \in 1 .. Len(tasks') : tasks'[p] = next
    <3>1. Len(tasks) + 1 \in 1 .. Len(tasks')
      BY <1>1
    <3> QED  BY <3>1, <1>1
  <2> QED  BY <2>1, <2>2, <2>3 DEF InQueue
<1>4. \A t \in Task : (InHands(t)' <=> InHands(t)) /\ ran'[t] = ran[t] /\ (ctask' = t <=> ctask = t)
  BY DEF Push, InHands
<1>5. \A p, j \in 1 .. Len(tasks') : tasks'[p] = tasks'[j] => p = j
  <2>1. \A p \in 1 .. Len(tasks) : tasks[p] # next
    BY <1>2 DEF InQueue
  <2>2. \A p, j \in 1 .. Len(tasks) : tasks[p] = tasks[j] => p = j
    BY DEF Inv3, OneHome
  <2> QED  BY <1>1, <2>1, <2>2
<1>6. \A t \in Task : Enqueued(t)' <=> Enqueued(t) \/ t = next
  BY <1>0 DEF Push, Enqueued, Task
<1>7. /\ \A u, w \in Worker : wtask'[u] = wtask'[w] /\ wtask'[w] # NoTask => u = w
      /\ UNCHANGED <<wtask, ctask, ran>>
  BY DEF Push, Inv3, OneHome
<1>8. OneHome'
  BY <1>2, <1>3, <1>4, <1>5, <1>7 DEF Inv3, OneHome
<1>9. Homed'
  BY <1>3, <1>4, <1>6 DEF Inv3, Homed
<1> QED  BY <1>8, <1>9

LEMMA JoinPopHomes == Inv3 /\ JoinPop => OneHome' /\ Homed'
<1> SUFFICES ASSUME Inv3, JoinPop  PROVE OneHome' /\ Homed'
  OBVIOUS
<1>1. \A t \in Task : Enqueued(t)' <=> Enqueued(t)
  BY DEF JoinPop, Enqueued
<1>2. CASE tasks = <<>>
  BY <1>1, <1>2, TasksStay DEF JoinPop, Inv3
<1>3. CASE tasks # <<>>
  <2>1. /\ Head(tasks) \in Task /\ InQueue(Head(tasks))
        /\ \A p, j \in 1 .. Len(tasks') : tasks'[p] = tasks'[j] => p = j
        /\ \A t \in Task : InQueue(t)' <=> InQueue(t) /\ t # Head(tasks)
    BY <1>3, FrontTaken DEF JoinPop, Inv3
  <2>2. ctask' = Head(tasks) /\ UNCHANGED <<wtask, ran>> /\ ctask = NoTask
    BY <1>3 DEF JoinPop, Inv3, Hands
  <2>3. \A t \in Task : InHands(t)' <=> InHands(t)
    BY <2>2 DEF InHands
  <2>4. NoTask \notin Task
    BY DEF Task, NoTask
  <2>5. OneHome'
    BY <2>1, <2>2, <2>3, <2>4 DEF Inv3, OneHome
  <2>6. Homed'
    BY <1>1, <2>1, <2>2, <2>3, <2>4 DEF Inv3, Homed
  <2> QED  BY <2>5, <2>6
<1> QED  BY <1>2, <1>3

LEMMA JoinRunHomes == Inv3 /\ JoinRun => OneHome' /\ Homed'
<1> SUFFICES ASSUME Inv3, JoinRun  PROVE OneHome' /\ Homed'
  OBVIOUS
<1>1. \A t \in Task : Enqueued(t)' <=> Enqueued(t)
  BY DEF JoinRun, Enqueued
<1>2. /\ ctask \in Task /\ ran \in [Task -> Nat] /\ ctask' = NoTask /\ NoTask \notin Task
      /\ \A t \in Task : ran'[t] = IF t = ctask THEN ran[t] + 1 ELSE ran[t]
      /\ UNCHANGED <<tasks, wtask>>
  BY DEF JoinRun, Inv3, Inv1, TypeOK, PlacesOK, Task, NoTask
<1>3. \A t \in Task : (InQueue(t)' <=> InQueue(t)) /\ (InHands(t)' <=> InHands(t))
  BY <1>2 DEF InQueue, InHands
<1>4. \A t \in Task : ran'[t] = IF t = ctask THEN 1 ELSE ran[t]
  BY <1>2 DEF Inv3, OneHome
<1>5. OneHome'
  BY <1>2, <1>3, <1>4 DEF Inv3, OneHome
<1>6. Homed'
  BY <1>1, <1>2, <1>3, <1>4 DEF Inv3, Homed
<1> QED  BY <1>5, <1>6

LEMMA WorkerPopHomes ==
  ASSUME Inv3, NEW w \in Worker, WorkerPop(w)
  PROVE  OneHome' /\ Homed'
<1>1. \A t \in Task : Enqueued(t)' <=> Enqueued(t)
  BY DEF WorkerPop, Enqueued
<1>2. CASE tasks = <<>>
  BY <1>1, <1>2, TasksStay DEF WorkerPop, Inv3
<1>3. CASE tasks # <<>>
  <2>1. /\ Head(tasks) \in Task /\ InQueue(Head(tasks))
        /\ \A p, j \in 1 .. Len(tasks') : tasks'[p] = tasks'[j] => p = j
        /\ \A t \in Task : InQueue(t)' <=> InQueue(t) /\ t # Head(tasks)
    BY <1>3, FrontTaken DEF WorkerPop, Inv3
  <2>2. /\ \A u \in Worker : wtask'[u] = IF u = w THEN Head(tasks) ELSE wtask[u]
        /\ UNCHANGED <<ctask, ran>> /\ wtask[w] = NoTask /\ NoTask \notin Task
    BY <1>3 DEF WorkerPop, Inv3, Inv1, TypeOK, Hands, Task, NoTask
  <2>3. \A t \in Task : InHands(t)' <=> InHands(t) \/ t = Head(tasks)
    BY <2>2 DEF InHands
  <2>4. ~InHands(Head(tasks)) /\ ctask # Head(tasks) /\ ran[Head(tasks)] = 0
    BY <2>1 DEF Inv3, OneHome
  <2>5. \A u, x \in Worker : wtask'[u] = wtask'[x] /\ wtask'[x] # NoTask => u = x
    BY <2>2, <2>4 DEF Inv3, OneHome, InHands
  <2>6. OneHome'
    BY <2>1, <2>2, <2>3, <2>4, <2>5 DEF Inv3, OneHome
  <2>7. Homed'
    BY <1>1, <2>1, <2>2, <2>3, <2>4 DEF Inv3, Homed
  <2> QED  BY <2>6, <2>7
<1> QED  BY <1>2, <1>3

LEMMA WorkerRunHomes ==
  ASSUME Inv3, NEW w \in Worker, WorkerRun(w)
  PROVE  OneHome' /\ Homed'
<1>1. \A t \in Task : Enqueued(t)' <=> Enqueued(t)
  BY DEF WorkerRun, Enqueued
<1>2. /\ wtask[w] \in Task /\ NoTask \notin Task
      /\ \A u \in Worker : wtask'[u] = IF u = w THEN NoTask ELSE wtask[u]
      /\ \A t \in Task : ran'[t] = IF t = wtask[w] THEN ran[t] + 1 ELSE ran[t]
      /\ UNCHANGED <<tasks, ctask>>
  BY DEF WorkerRun, Inv3, Inv1, TypeOK, PlacesOK, Task, NoTask
<1>3. \A t \in Task : InQueue(t)' <=> InQueue(t)
  BY <1>2 DEF InQueue
<1>4. InHands(wtask[w])
  BY DEF InHands
<1>5. \A t \in Task : InHands(t)' <=> InHands(t) /\ t # wtask[w]
  BY <1>2 DEF InHands, Inv3, OneHome
<1>6. \A t \in Task : ran'[t] = IF t = wtask[w] THEN 1 ELSE ran[t]
  BY <1>2, <1>4 DEF Inv3, OneHome
<1>7. \A u, x \in Worker : wtask'[u] = wtask'[x] /\ wtask'[x] # NoTask => u = x
  BY <1>2 DEF Inv3, OneHome
<1>8. OneHome'
  BY <1>2, <1>3, <1>4, <1>5, <1>6, <1>7 DEF Inv3, OneHome
<1>9. Homed'
  BY <1>1, <1>2, <1>3, <1>4, <1>5, <1>6 DEF Inv3, Homed
<1> QED  BY <1>8, <1>9
-----------------------------------------------------------------------------
(* The lists of workers and the moment at which join returns.              *)

LEMMA HandsCaller == Inv3 /\ CallerStep => Hands' /\ JoinMeansDone'
<1> SUFFICES ASSUME Inv3, CallerStep  PROVE Hands' /\ JoinMeansDone'
  OBVIOUS
<1> USE DEF Inv3, Inv1, TypeOK, PlacesOK, Hands, JoinMeansDone, Enqueuing, Worker, Task
<1>1. CASE Push \/ TestActive \/ Count
  BY <1>1 DEF Push, TestActive, Count
<1>2. CASE Spawn
  BY <1>2 DEF Spawn
<1>3. CASE Cleanup
  <2>1. threads' = threads /\ joined' \subseteq threads
    BY <1>3 DEF Cleanup, Reap
  <2>2. /\ next' = next + 1 /\ next \in Task
        /\ \/ next + 1 \in Task /\ cpc' = "enque"
           \/ next = NTasks /\ cpc' = "join"
        /\ UNCHANGED <<tasks, wpc, wtask, ctask, ran>> /\ cpc = "cleanup"
    <3>1. /\ next' = next + 1 /\ next \in Task /\ cpc = "cleanup"
          /\ cpc' = IF next + 1 \in Task THEN "enque" ELSE "join"
      BY <1>3 DEF Cleanup
    <3>2. next + 1 \in Task \/ next = NTasks
      BY <3>1
    <3>3. NTasks + 1 \notin Task
      OBVIOUS
    <3> QED  BY <1>3, <3>1, <3>2, <3>3 DEF Cleanup
  <2>3. \A w \in Worker : next' < w \/ (w = next' /\ cpc' \in {"enque", "test", "spawn"})
                            => wpc'[w] = "unborn"
    BY <2>2
  <2> QED  BY <2>1, <2>2, <2>3
<1>4. CASE JoinTest \/ Destroy
  BY <1>4 DEF JoinTest, Destroy
<1>5. CASE JoinPop
  BY <1>5 DEF JoinPop
<1>6. CASE JoinRun
  BY <1>6 DEF JoinRun
<1>7. CASE JoinWait
  <2>0. next = NTasks + 1 /\ tasks = <<>> /\ ctask = NoTask
    BY <1>7 DEF JoinWait
  <2>1. \A t \in Task : Enqueued(t) /\ ~InQueue(t) /\ ctask # t
    <3>1. Len(tasks) = 0
      BY <2>0
    <3>2. \A t \in Task : ~InQueue(t)
      BY <3>1 DEF InQueue
    <3>3. \A t \in Task : t < next /\ ctask # t
      BY <2>0 DEF NoTask
    <3> QED  BY <3>2, <3>3 DEF Enqueued
  <2>2. \A t \in Task : ~InHands(t)
    BY <1>7 DEF JoinWait, InHands, NoTask
  <2>3. \A t \in Task : ran[t] = 1
    BY <2>1, <2>2 DEF Homed
  <2> QED  BY <1>7, <2>3 DEF JoinWait
<1>8. CASE DestroyCleanup
  <2>1. threads' = threads /\ joined' \subseteq threads /\ joined \subseteq joined'
    BY <1>8 DEF DestroyCleanup, Reap
  <2> QED  BY <1>8, <2>1 DEF DestroyCleanup
<1> QED  BY <1>1, <1>2, <1>3, <1>4, <1>5, <1>6, <1>7, <1>8 DEF CallerStep

LEMMA HandsWorker ==
  ASSUME Inv3, NEW w \in Worker, WorkerStep(w)
  PROVE  Hands' /\ JoinMeansDone'
<1> USE DEF Inv3, Inv1, TypeOK, PlacesOK, Hands, JoinMeansDone
<1>1. wpc[w] \notin {"unborn", "finished"}
  BY DEF WorkerStep, WorkerTest, WorkerPop, WorkerRun, WorkerLeave, WorkerStop
<1>2. cpc \notin {"returned", "reap", "destroyed"}
  BY <1>1
<1>3. UNCHANGED <<cpc, next, threads, joined, ctask>>
  BY DEF WorkerStep, WorkerTest, WorkerPop, WorkerRun, WorkerLeave, WorkerStop
<1>4. /\ \A u \in Worker \ {w} : wpc'[u] = wpc[u] /\ wtask'[u] = wtask[u]
      /\ wpc'[w] # "unborn" /\ (wpc'[w] # "run" => wtask'[w] = NoTask)
      /\ tasks = <<>> => tasks' = <<>>
  <2>1. CASE WorkerTest(w) \/ WorkerLeave(w) \/ WorkerStop(w)
    BY <2>1 DEF WorkerTest, WorkerLeave, WorkerStop
  <2>2. CASE WorkerPop(w)
    BY <2>2 DEF WorkerPop
  <2>3. CASE WorkerRun(w)
    BY <2>3 DEF WorkerRun
  <2> QED  BY <2>1, <2>2, <2>3 DEF WorkerStep
<1> QED  BY <1>1, <1>2, <1>3, <1>4

LEMMA Inv3Step == Inv3 /\ [Next]_poolVars => Inv3'
<1> SUFFICES ASSUME Inv3, [Next]_poolVars  PROVE Inv3'
  OBVIOUS
<1>1. Inv1'
  BY Inv1Step DEF Inv3
<1>2. CASE CallerStep
  <2>1. CASE \/ TestActive \/ Spawn \/ Count \/ Cleanup \/ JoinTest \/ JoinWait
             \/ Destroy \/ DestroyCleanup
    <3>1. UNCHANGED <<tasks, wtask, ctask, ran>>
      BY <2>1 DEF TestActive, Spawn, Count, Cleanup, JoinTest, JoinWait, Destroy, DestroyCleanup
    <3>2. \A t \in Task : Enqueued(t)' <=> Enqueued(t)
      BY <2>1, SMTT(30) DEF Inv3, Inv1, TypeOK, PlacesOK, Enqueued, Task,
         TestActive, Spawn, Count, Cleanup, JoinTest, JoinWait, Destroy, DestroyCleanup
    <3> QED  BY <1>1, <1>2, <3>1, <3>2, TasksStay, HandsCaller DEF Inv3
  <2>2. OneHome' /\ Homed'
    BY <1>2, <2>1, PushHomes, JoinPopHomes, JoinRunHomes DEF CallerStep, Inv3
  <2> QED  BY <1>1, <1>2, <2>2, HandsCaller DEF Inv3
<1>3. ASSUME NEW w \in Worker, WorkerStep(w)  PROVE Inv3'
  <2>1. CASE WorkerTest(w) \/ WorkerLeave(w) \/ WorkerStop(w)
    <3>1. UNCHANGED <<tasks, wtask, ctask, ran>> /\ \A t \in Task : Enqueued(t)' <=> Enqueued(t)
      BY <2>1 DEF WorkerTest, WorkerLeave, WorkerStop, Enqueued
    <3> QED  BY <1>1, <1>3, <3>1, TasksStay, HandsWorker DEF Inv3
  <2>2. CASE WorkerPop(w) \/ WorkerRun(w)
    BY <1>1, <1>3, <2>2, WorkerPopHomes, WorkerRunHomes, HandsWorker DEF Inv3
  <2> QED  BY <1>3, <2>1, <2>2 DEF WorkerStep
<1>4. CASE UNCHANGED poolVars
  <2>1. UNCHANGED <<tasks, wtask, ctask, ran>> /\ \A t \in Task : Enqueued(t)' <=> Enqueued(t)
    BY <1>4 DEF poolVars, Enqueued
  <2>2. Hands' /\ JoinMeansDone'
    BY <1>4 DEF poolVars, Inv3, Hands, JoinMeansDone
  <2> QED  BY <1>1, <2>1, <2>2, TasksStay DEF Inv3
<1> QED  BY <1>2, <1>3, <1>4 DEF Next
-----------------------------------------------------------------------------
(* One place at most, and one from enque on: the places are counted.       *)
LEMMA HomesCounted == Inv3 => TaskExactlyOnce
<1> SUFFICES ASSUME Inv3, NEW t \in Task
             PROVE  Cardinality(QueuePlaces(t)) + Cardinality(Holders(t))
                      + (IF ctask = t THEN 1 ELSE 0) + ran[t] = (IF Enqueued(t) THEN 1 ELSE 0)
  BY DEF TaskExactlyOnce
<1>0. tasks \in Seq(Task) /\ t # NoTask
  BY DEF Inv3, Inv1, TypeOK, Task, NoTask
<1>1. Cardinality(QueuePlaces(t)) = IF InQueue(t) THEN 1 ELSE 0
  <2>1. CASE InQueue(t)
    <3>1. PICK p \in 1 .. Len(tasks) : tasks[p] = t
      BY <2>1 DEF InQueue
    <3>2. QueuePlaces(t) = {p}
      BY <1>0, <3>1 DEF Inv3, OneHome, QueuePlaces
    <3> QED  BY <2>1, <3>2, FS_Singleton
  <2>2. CASE ~InQueue(t)
    <3>1. QueuePlaces(t) = {}
      BY <1>0, <2>2 DEF InQueue, QueuePlaces
    <3> QED  BY <2>2, <3>1, FS_EmptySet
  <2> QED  BY <2>1, <2>2
<1>2. Cardinality(Holders(t)) = IF InHands(t) THEN 1 ELSE 0
  <2>1. CASE InHands(t)
    <3>1. PICK w \in Worker : wtask[w] = t
      BY <2>1 DEF InHands
    <3>2. Holders(t) = {w}
      BY <1>0, <3>1 DEF Inv3, OneHome, Holders
    <3> QED  BY <2>1, <3>2, FS_Singleton
  <2>2. CASE ~InHands(t)
    <3>1. Holders(t) = {}
      BY <2>2 DEF InHands, Holders
    <3> QED  BY <2>2, <3>1, FS_EmptySet
  <2> QED  BY <2>1, <2>2
<1>3. /\ InQueue(t) => ~InHands(t) /\ ctask # t /\ ran[t] = 0
      /\ InHands(t) => ctask # t /\ ran[t] = 0
      /\ ctask = t => ran[t] = 0
      /\ ran[t] \in {0, 1}
      /\ Enqueued(t) <=> InQueue(t) \/ InHands(t) \/ ctask = t \/ ran[t] = 1
  BY DEF Inv3, OneHome, Homed
<1> QED  BY <1>1, <1>2, <1>3

(* However enque, the leaving workers and the caller that helps out in     *)
(* join interleave, and whatever tasks throw, each task is queued, in the  *)
(* hands of one thread, or was run once, and when join returns all of them *)
(* were run and every thread was joined (threadpool.cpp:9-64).             *)
THEOREM PoolSoundAlways == Spec => []PoolSound
<1>1. Inv3 => PoolSound
  BY HomesCounted DEF Inv3, PoolSound
<1> QED
  BY <1>1, Inv3Init, Inv3Step, PTL DEF Spec
-----------------------------------------------------------------------------
(***************************************************************************)
(* The scenes that the tasks build.                                        *)
(***************************************************************************)

(* A file does not give an id twice, nor one that a scene without an id    *)
(* may get, which is its index.                                            *)
DistinctIds ==
  /\ \A s, t \in DOMAIN ExplicitId : ExplicitId[s] = ExplicitId[t] => s = t
  /\ \A t \in DOMAIN ExplicitId : ExplicitId[t] >= NTasks

IsStored(t) == \E n \in 1 .. Len(v) : v[n] = t

(* The scenes are those whose task was run and ended well, each once.      *)
Scenes ==
  /\ misconfigured \subseteq Task \ Throwing
  /\ v \in Seq(Task \ (misconfigured \cup Throwing))
  /\ \A m, n \in 1 .. Len(v) : v[m] = v[n] => m = n
  /\ \A t \in Task : IsStored(t) <=> ran[t] = 1 /\ t \notin misconfigured \cup Throwing
  /\ worked \in BOOLEAN
  /\ worked <=> \A t \in misconfigured : ran[t] # 1

(* The map leads from ids to indices and back.                             *)
Indexed ==
  /\ DOMAIN scene_index_map \subseteq Nat
  /\ \A n \in 1 .. Len(v) :
       IdAt(n - 1) \in DOMAIN scene_index_map /\ scene_index_map[IdAt(n - 1)] = n - 1
  /\ \A id \in DOMAIN scene_index_map :
       \E n \in 1 .. Len(v) : scene_index_map[id] = n - 1 /\ IdAt(n - 1) = id

(* The constructor goes on when the pool is gone.                          *)
Decided ==
  /\ project \in {"constructing", "loaded", "rejected", "aborted"}
  /\ project = "loaded" => cpc = "destroyed" /\ worked
  /\ project = "rejected" => cpc = "destroyed" /\ ~worked

LoadingInv == Inv3 /\ Scenes /\ Indexed /\ Decided

LEMMA LoadingInvInit == LoadingInit => LoadingInv
<1> SUFFICES ASSUME LoadingInit PROVE LoadingInv
  OBVIOUS
<1>1. Inv3
  BY Inv3Init DEF LoadingInit
<1>2. Len(v) = 0 /\ \A t \in Task : ran[t] # 1
  BY DEF LoadingInit, Init
<1>3. Scenes
  BY <1>2 DEF LoadingInit, Scenes, IsStored
<1>4. Indexed
  BY <1>2 DEF LoadingInit, Indexed
<1> QED  BY <1>1, <1>3, <1>4 DEF LoadingInit, LoadingInv, Decided

(* There are fewer scenes than tasks while one of the tasks is not stored. *)
LEMMA FewerScenes ==
  ASSUME Scenes, NEW t \in Task, ~IsStored(t)
  PROVE  Len(v) \in Nat /\ Len(v) < NTasks
<1>1. Len(v) \in Nat /\ \A n \in 1 .. Len(v) : v[n] \in Task
  BY DEF Scenes
<1> SUFFICES ASSUME ~(Len(v) < NTasks) PROVE FALSE
  BY <1>1
<1> DEFINE S == 1 .. Len(v)
           f == [n \in S |-> v[n]]
<1>2. IsFiniteSet(S) /\ Cardinality(S) = Len(v)
  <2>1. 1 \in Int /\ Len(v) \in Int /\ Len(v) \in Nat
    BY <1>1
  <2>2. Cardinality(S) = IF 1 > Len(v) THEN 0 ELSE Len(v) - 1 + 1
    BY <2>1, FS_Interval
  <2>3. IsFiniteSet(S)
    BY <2>1, FS_Interval
  <2> HIDE DEF S
  <2> QED  BY <2>1, <2>2, <2>3
<1>3. IsFiniteSet(Task) /\ Cardinality(Task) = NTasks
  BY FS_Interval DEF Task
<1>4. IsFiniteSet(Task \ {t}) /\ Cardinality(Task \ {t}) = NTasks - 1
  BY <1>3, FS_RemoveElement
<1>5. f \in [S -> Task \ {t}]
  BY <1>1 DEF IsStored
<1>6. Cardinality(Task \ {t}) < Cardinality(S)
  BY <1>1, <1>2, <1>4
<1> HIDE DEF f, S
<1>7. \E m, n \in S : m # n /\ f[m] = f[n]
  BY <1>2, <1>4, <1>5, <1>6, FS_PigeonHole
<1> QED  BY <1>7 DEF Scenes, f, S

(* A task that is run is recorded: as a failure, not at all, or as a scene. *)
LEMMA BuildKeepsScenes ==
  ASSUME Scenes, NEW t \in Task, ran[t] = 0, BuildScene(t), misconfigured' = misconfigured,
         \A u \in Task : ran'[u] = IF u = t THEN 1 ELSE ran[u]
  PROVE  Scenes'
<1>1. ~IsStored(t)
  BY DEF Scenes
<1>2. CASE t \in misconfigured
  <2>1. worked' = FALSE /\ v' = v
    BY <1>2 DEF BuildScene, Scenes
  <2>2. \A u \in Task : IsStored(u)' <=> IsStored(u)
    BY <2>1 DEF IsStored
  <2>3. ran'[t] = 1
    OBVIOUS
  <2> QED  BY <1>2, <2>1, <2>2, <2>3, ZenonT(60) DEF Scenes
<1>3. CASE t \in Throwing
  <2>1. UNCHANGED <<v, worked>>
    BY <1>3 DEF BuildScene, Scenes, sceneVars
  <2> QED  BY <1>3, <2>1 DEF Scenes, IsStored
<1>4. CASE t \notin misconfigured \cup Throwing
  <2>1. v' = Append(v, t) /\ worked' = worked
    BY <1>4 DEF BuildScene, Store
  <2> DEFINE Good == Task \ (misconfigured \cup Throwing)
  <2>2. v \in Seq(Good) /\ t \in Good
    BY <1>4 DEF Scenes
  <2>3. /\ v' \in Seq(Good) /\ Len(v) \in Nat /\ Len(v') = Len(v) + 1
        /\ v'[Len(v) + 1] = t /\ \A n \in 1 .. Len(v) : v'[n] = v[n]
    BY <2>1, <2>2
  <2>4. \A n \in 1 .. Len(v') : n \in 1 .. Len(v) \/ n = Len(v) + 1
    BY <2>3
  <2>5. Len(v) + 1 \in 1 .. Len(v') /\ \A n \in 1 .. Len(v) : n \in 1 .. Len(v')
    BY <2>3
  <2>6. \A m, n \in 1 .. Len(v') : v'[m] = v'[n] => m = n
    BY <1>1, <2>3, <2>4 DEF Scenes, IsStored
  <2>7. \A u \in Task : IsStored(u)' <=> IsStored(u) \/ u = t
    BY <2>3, <2>4, <2>5 DEF IsStored
  <2> QED  BY <1>4, <2>1, <2>3, <2>6, <2>7 DEF Scenes
<1> QED  BY <1>2, <1>3, <1>4

LEMMA BuildKeepsIndexed ==
  ASSUME Scenes, Indexed, DistinctIds, SceneLoadingAssumption,
         NEW t \in Task, ran[t] = 0, BuildScene(t)
  PROVE  Indexed'
<1>1. ~IsStored(t)
  BY DEF Scenes
<1>2. CASE t \in misconfigured \cup Throwing
  <2>1. UNCHANGED <<v, scene_index_map>>
    BY <1>2 DEF BuildScene, sceneVars
  <2> QED  BY <2>1 DEF Indexed, IdAt
<1>3. CASE t \notin misconfigured \cup Throwing
  <2> DEFINE sid == IF t \in DOMAIN ExplicitId THEN ExplicitId[t] ELSE Len(v)
  <2>1. /\ v' = Append(v, t)
        /\ scene_index_map' = [id \in DOMAIN scene_index_map \cup {sid} |->
                                 IF id = sid THEN Len(v) ELSE scene_index_map[id]]
    BY <1>3 DEF BuildScene, Store
  <2>2. /\ v \in Seq(Task) /\ Len(v) \in Nat /\ Len(v) < NTasks
        /\ \A n \in 1 .. Len(v) : v[n] \in Task /\ v[n] # t
    BY <1>1, FewerScenes DEF Scenes, IsStored
  <2>3. /\ Len(v') = Len(v) + 1 /\ v'[Len(v) + 1] = t /\ \A n \in 1 .. Len(v) : v'[n] = v[n]
    BY <2>1, <2>2
  <2>4. \A n \in 1 .. Len(v) : IdAt(n - 1)' = IdAt(n - 1)
    BY <2>2, <2>3 DEF IdAt
  <2>5. (\A k : k = Len(v) => IdAt(k)' = sid) /\ sid \in Nat
    BY <2>2, <2>3 DEF IdAt, SceneLoadingAssumption
  <2>6. \A n \in 1 .. Len(v) : IdAt(n - 1) # sid
    BY <2>2 DEF IdAt, DistinctIds, SceneLoadingAssumption
  <2> HIDE DEF sid
  <2>7. sid \notin DOMAIN scene_index_map
    BY <2>6 DEF Indexed
  <2>8. /\ DOMAIN scene_index_map' = DOMAIN scene_index_map \cup {sid}
        /\ scene_index_map'[sid] = Len(v)
        /\ \A id \in DOMAIN scene_index_map : scene_index_map'[id] = scene_index_map[id]
    BY <2>1, <2>7
  <2>9. \A n \in 1 .. Len(v') : n \in 1 .. Len(v) \/ n = Len(v) + 1
    BY <2>2, <2>3
  <2>10. Len(v) + 1 \in 1 .. Len(v') /\ \A n \in 1 .. Len(v) : n \in 1 .. Len(v')
    BY <2>2, <2>3
  <2>11. (Len(v) + 1) - 1 = Len(v)
    BY <2>2
  <2>12. ASSUME NEW n \in 1 .. Len(v')
         PROVE  IdAt(n - 1)' \in DOMAIN scene_index_map' /\ scene_index_map'[IdAt(n - 1)'] = n - 1
    <3>1. CASE n \in 1 .. Len(v)
      BY <2>4, <2>8, <3>1 DEF Indexed
    <3>2. CASE n = Len(v) + 1
      <4>1. n - 1 = Len(v)
        BY <2>11, <3>2
      <4> QED  BY <2>5, <2>8, <4>1
    <3> QED  BY <2>9, <3>1, <3>2
  <2>13. ASSUME NEW id \in DOMAIN scene_index_map'
         PROVE  \E n \in 1 .. Len(v') : scene_index_map'[id] = n - 1 /\ IdAt(n - 1)' = id
    <3>1. CASE id \in DOMAIN scene_index_map
      BY <2>4, <2>8, <2>10, <3>1 DEF Indexed
    <3>2. CASE id = sid
      <4> DEFINE n == Len(v) + 1
      <4>1. n \in 1 .. Len(v') /\ n - 1 = Len(v)
        BY <2>10, <2>11
      <4>2. scene_index_map'[id] = n - 1
        BY <2>8, <3>2, <4>1
      <4> QED  BY <2>5, <3>2, <4>1, <4>2
    <3> QED  BY <2>8, <3>1, <3>2
  <2> QED  BY <2>5, <2>8, <2>12, <2>13 DEF Indexed
<1> QED  BY <1>2, <1>3

(* The steps that run no task.                                             *)
LEMMA ScenesStay ==
  ASSUME Scenes, Indexed, UNCHANGED <<misconfigured, sceneVars, ran>>
  PROVE  Scenes' /\ Indexed'
  BY DEF Scenes, Indexed, sceneVars, IsStored, IdAt

LEMMA LoadingInvStep ==
  ASSUME LoadingInv, DistinctIds, SceneLoadingAssumption, [LoadingNext]_vars
  PROVE  LoadingInv'
<1> USE DEF LoadingInv
<1>1. ASSUME NEW w \in Worker, WorkerBuilds(w)  PROVE LoadingInv'
  <2>1. WorkerRun(w) /\ BuildScene(wtask[w]) /\ UNCHANGED <<misconfigured, project>>
    BY <1>1 DEF WorkerBuilds
  <2>2. /\ wtask[w] \in Task /\ ran[wtask[w]] = 0 /\ ran \in [Task -> Nat] /\ cpc' = cpc
        /\ ran' = [ran EXCEPT ![wtask[w]] = ran[wtask[w]] + 1]
        /\ cpc # "destroyed"
    <3>1. wtask[w] \in Task /\ ran \in [Task -> Nat]
      BY <2>1 DEF WorkerRun, Inv3, Inv1, TypeOK, PlacesOK
    <3>2. ran[wtask[w]] = 0
      BY <3>1 DEF Inv3, OneHome, InHands
    <3>3. cpc # "destroyed"
      BY <2>1 DEF WorkerRun, Inv3, Hands, JoinMeansDone
    <3> QED  BY <2>1, <3>1, <3>2, <3>3 DEF WorkerRun
  <2>3. \A u \in Task : ran'[u] = IF u = wtask[w] THEN 1 ELSE ran[u]
    BY <2>2
  <2>4. Inv3'
    BY <2>1, Inv3Step DEF Next, WorkerStep
  <2>5. Decided'
    BY <2>1, <2>2 DEF Decided
  <2> QED  BY <2>1, <2>2, <2>3, <2>4, <2>5, BuildKeepsScenes, BuildKeepsIndexed
<1>2. CASE CallerBuilds
  <2>1. JoinRun /\ BuildScene(ctask) /\ misconfigured' = misconfigured
    BY <1>2 DEF CallerBuilds
  <2>2. /\ ctask \in Task /\ ran[ctask] = 0 /\ ran \in [Task -> Nat]
        /\ ran' = [ran EXCEPT ![ctask] = ran[ctask] + 1]
    BY <2>1 DEF JoinRun, Inv3, Inv1, TypeOK, PlacesOK, OneHome
  <2>3. \A u \in Task : ran'[u] = IF u = ctask THEN 1 ELSE ran[u]
    BY <2>2
  <2>4. Inv3'
    BY <2>1, Inv3Step DEF Next, CallerStep
  <2>5. Decided'
    BY <1>2 DEF CallerBuilds, JoinRun, Decided
  <2> QED  BY <2>1, <2>2, <2>3, <2>4, <2>5, BuildKeepsScenes, BuildKeepsIndexed
<1>3. CASE OtherCallerStep
  <2>1. Inv3'
    BY <1>3, Inv3Step DEF OtherCallerStep, Next, CallerStep
  <2>2. UNCHANGED <<misconfigured, sceneVars, ran, project>> /\ cpc # "destroyed"
    BY <1>3 DEF OtherCallerStep, Push, TestActive, Spawn, Count, Cleanup, JoinTest, JoinPop,
       JoinWait, Destroy, DestroyCleanup
  <2>3. Decided'
    BY <2>2 DEF Decided
  <2> QED  BY <2>1, <2>2, <2>3, ScenesStay
<1>4. ASSUME NEW w \in Worker, OtherWorkerStep(w)  PROVE LoadingInv'
  <2>1. Inv3'
    BY <1>4, Inv3Step DEF OtherWorkerStep, Next, WorkerStep
  <2>2. UNCHANGED <<misconfigured, sceneVars, ran, project, cpc>>
    BY <1>4 DEF OtherWorkerStep, WorkerTest, WorkerPop, WorkerLeave, WorkerStop
  <2>3. Decided'
    BY <2>2 DEF Decided, sceneVars
  <2> QED  BY <2>1, <2>2, <2>3, ScenesStay
<1>5. CASE Constructed \/ UNCHANGED vars
  <2>1. UNCHANGED <<poolVars, misconfigured, sceneVars>>
    BY <1>5 DEF Constructed, vars
  <2>2. Inv3'
    BY <2>1, Inv3Step
  <2>3. UNCHANGED <<ran, cpc, worked>>
    BY <2>1 DEF poolVars, sceneVars
  <2>4. Decided'
    BY <1>5, <2>3 DEF Constructed, vars, Decided, Scenes
  <2> QED  BY <2>1, <2>2, <2>3, <2>4, ScenesStay
<1> QED  BY <1>1, <1>2, <1>3, <1>4, <1>5 DEF LoadingNext, ConstructorStep, BuilderStep

LEMMA ScenesAreComplete == LoadingInv => LoadedIsComplete
<1> SUFFICES ASSUME LoadingInv PROVE LoadedIsComplete
  OBVIOUS
<1> USE DEF LoadingInv
<1>1. ASSUME project \in {"loaded", "rejected"}  PROVE \A t \in Task : ran[t] = 1
  BY <1>1 DEF Decided, Inv3, JoinMeansDone
<1>2. ASSUME project = "loaded"  PROVE misconfigured = {}
  BY <1>1, <1>2 DEF Decided, Scenes
<1>3. ASSUME project = "loaded", NEW t \in Task
      PROVE  Cardinality({ n \in DOMAIN v : v[n] = t }) = (IF t \in Throwing THEN 0 ELSE 1)
  <2>0. DOMAIN v = 1 .. Len(v)
    BY DEF Scenes
  <2>1. CASE t \in Throwing
    <3>1. { n \in DOMAIN v : v[n] = t } = {}
      BY <2>0, <2>1 DEF Scenes, IsStored
    <3> QED  BY <2>1, <3>1, FS_EmptySet
  <2>2. CASE t \notin Throwing
    <3>1. IsStored(t)
      BY <1>1, <1>2, <1>3, <2>2 DEF Scenes
    <3>2. PICK n \in 1 .. Len(v) : v[n] = t
      BY <3>1 DEF IsStored
    <3>3. { m \in DOMAIN v : v[m] = t } = {n}
      BY <2>0, <3>2 DEF Scenes
    <3> QED  BY <2>2, <3>3, FS_Singleton
  <2> QED  BY <2>1, <2>2
<1>4. ASSUME project = "rejected"  PROVE misconfigured # {}
  BY <1>4 DEF Decided, Scenes
<1> QED  BY <1>2, <1>3, <1>4 DEF LoadedIsComplete

LEMMA IdsAreRight == LoadingInv => IdsNameTheirScenes
<1> SUFFICES ASSUME LoadingInv PROVE IdsNameTheirScenes
  OBVIOUS
<1>1. Len(v) \in Nat /\ Indexed
  BY DEF LoadingInv, Scenes
<1>2. ASSUME NEW id \in DOMAIN scene_index_map
      PROVE  scene_index_map[id] < Len(v) /\ IdAt(scene_index_map[id]) = id
  BY <1>1 DEF Indexed
<1>3. ASSUME NEW k \in 0 .. Len(v) - 1  PROVE IdAt(k) \in DOMAIN scene_index_map
  <2>1. k + 1 \in 1 .. Len(v) /\ (k + 1) - 1 = k
    BY <1>1
  <2>2. IdAt((k + 1) - 1) \in DOMAIN scene_index_map
    BY <1>1, <2>1 DEF Indexed
  <2> QED  BY <2>1, <2>2
<1> QED  BY <1>2, <1>3 DEF IdsNameTheirScenes

LEMMA SceneTypes == LoadingInv => SceneTypeOK
<1> SUFFICES ASSUME LoadingInv PROVE SceneTypeOK
  OBVIOUS
<1>1. Len(v) \in Nat /\ \A n \in 1 .. Len(v) : n <= NTasks
  <2>1. Len(v) \in Nat /\ \A n \in 1 .. Len(v) : v[n] \in Task
    BY DEF LoadingInv, Scenes
  <2> DEFINE S == 1 .. Len(v)
             f == [n \in S |-> v[n]]
  <2>2. IsFiniteSet(S) /\ Cardinality(S) = Len(v)
    BY <2>1, FS_Interval
  <2>3. IsFiniteSet(Task) /\ Cardinality(Task) = NTasks
    BY FS_Interval DEF Task
  <2>4. f \in [S -> Task]
    BY <2>1
  <2>5. \A m, n \in S : f[m] = f[n] => m = n
    BY DEF LoadingInv, Scenes
  <2> HIDE DEF f, S
  <2>6. ~(Cardinality(Task) < Cardinality(S))
    BY <2>2, <2>3, <2>4, <2>5, FS_PigeonHole
  <2> QED  BY <2>1, <2>2, <2>3, <2>6
<1>2. \A id \in DOMAIN scene_index_map : scene_index_map[id] \in 0 .. NTasks - 1
  BY <1>1 DEF LoadingInv, Indexed
<1> QED  BY <1>2 DEF LoadingInv, Scenes, Indexed, Decided, SceneTypeOK

(* In whatever order the tasks of a show run, on whichever threads, and    *)
(* whatever they throw: the scenes that are stored are those whose tasks   *)
(* ended well, ids lead to them, and a show loads complete or is rejected  *)
(* for a misconfigured scene (scene_factory.cpp:695-741), provided the ids *)
(* of its file are distinct and no indices.                                *)
THEOREM LoadingSoundAlways ==
  ASSUME DistinctIds
  PROVE  LoadingSpec => []LoadingSound
<1>1. LoadingInv => LoadingSound
  <2>1. LoadingInv => PoolSound
    BY HomesCounted DEF LoadingInv, Inv3, PoolSound
  <2> QED  BY <2>1, SceneTypes, IdsAreRight, ScenesAreComplete DEF LoadingSound
<1>2. LoadingInv /\ [LoadingNext]_vars => LoadingInv'
  BY LoadingInvStep, SceneLoadingAssumption
<1> QED
  BY <1>1, <1>2, LoadingInvInit, PTL DEF LoadingSpec
================================================================================
