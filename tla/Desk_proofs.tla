----------------------------- MODULE Desk_proofs -----------------------------
(* The control desk, for any bank sets, columns and devices, with messages  *)
(* and buttons in any order; and what clients and the device are shown of a *)
(* column, for every mode, any ranges of positions and colours, and inputs  *)
(* in any order.                                                            *)
EXTENDS ControlDesk, BankColumn, TLAPS

Column == [id : ColumnIds, mode : STRING, active : BOOLEAN, ready : BOOLEAN, select : BOOLEAN]
Banks == Seq(Seq(Column))
BankSet == [id : SetIds, active_bank : Int, fader_banks : Banks, ready : SUBSET ColumnIds]
IndexMaps == UNION {[S -> Nat \ {0}] : S \in SUBSET SetIds}
Lights == [ready : BOOLEAN, select : BOOLEAN]
Desk ==
  [bank_sets : Seq(BankSet), index_map : IndexMaps, current : Nat \ {0},
   modified : BOOLEAN, required : BOOLEAN, selected : ColumnIds \union {NoId},
   shown : [Positions -> Lights], crashed : {"no", "set", "device", "bank"}]

\* Field by field.
LEMMA Setters ==
  /\ \A d \in Desk, x \in Seq(BankSet) : [d EXCEPT !.bank_sets = x] \in Desk
  /\ \A d \in Desk, x \in IndexMaps : [d EXCEPT !.index_map = x] \in Desk
  /\ \A d \in Desk, x \in Nat \ {0} : [d EXCEPT !.current = x] \in Desk
  /\ \A d \in Desk : [d EXCEPT !.modified = TRUE] \in Desk
  /\ \A d \in Desk : [d EXCEPT !.modified = FALSE] \in Desk
  /\ \A d \in Desk : [d EXCEPT !.required = TRUE] \in Desk
  /\ \A d \in Desk : [d EXCEPT !.required = FALSE] \in Desk
  /\ \A d \in Desk, x \in ColumnIds \union {NoId} : [d EXCEPT !.selected = x] \in Desk
  /\ \A d \in Desk, x \in [Positions -> Lights] : [d EXCEPT !.shown = x] \in Desk
  /\ \A d \in Desk, x \in {"no", "set", "device", "bank"} : [d EXCEPT !.crashed = x] \in Desk
BY DEF Desk

\* What Change does, with the columns that become of it.
LitAs(d, i, new, p) ==
  {new[b][p] : b \in {x \in DOMAIN new : p \in DOMAIN new[x] /\ new[x][p].active
                                        /\ new[x][p] # d.bank_sets[i].fader_banks[x][p]}}
Put(d, i, new) ==
  [d EXCEPT !.bank_sets[i].fader_banks = new,
            !.shown = [p \in Positions |-> IF LitAs(d, i, new, p) = {} THEN @[p]
                                           ELSE Leds(CHOOSE c \in LitAs(d, i, new, p) : TRUE)]]

\* The columns of new are those of old, in other states.
Reshaped(old, new) ==
  /\ new \in Banks /\ DOMAIN new = DOMAIN old
  /\ \A b \in DOMAIN new : DOMAIN new[b] = DOMAIN old[b]
  /\ \A b \in DOMAIN new : \A k \in DOMAIN new[b] : new[b][k].id = old[b][k].id

Fitting(bs) == \A b \in DOMAIN bs.fader_banks : DOMAIN bs.fader_banks[b] \subseteq Positions
OnceEach(bs) ==
  \A b, c \in DOMAIN bs.fader_banks : \A k \in DOMAIN bs.fader_banks[b], l \in DOMAIN bs.fader_banks[c] :
    bs.fader_banks[b][k].id = bs.fader_banks[c][l].id => b = c /\ k = l
ReadyExact(bs) == bs.ready = {c.id : c \in {x \in ColumnsOf(bs) : x.ready}}

OnlyActiveBank(bs) ==
  \A b \in DOMAIN bs.fader_banks : \A k \in DOMAIN bs.fader_banks[b] :
    bs.fader_banks[b][k].active => b = bs.active_bank
Dark(bs) ==
  \A b \in DOMAIN bs.fader_banks : \A k \in DOMAIN bs.fader_banks[b] : ~bs.fader_banks[b][k].active
Lit(bs, shown) ==
  \A b \in DOMAIN bs.fader_banks : \A k \in DOMAIN bs.fader_banks[b] :
    bs.fader_banks[b][k].active => b = bs.active_bank /\ shown[k] = Leds(bs.fader_banks[b][k])

\* The lights of a column.
LEMMA LedsTyped == \A c \in Column : Leds(c) \in Lights
BY DEF Column, Leds, Lights

\* Nothing but the set i and what is shown differs.
SameBut(d, r, i) ==
  /\ r \in Desk /\ r.index_map = d.index_map /\ r.current = d.current
  /\ r.modified = d.modified /\ r.crashed = d.crashed
  /\ r.required = d.required /\ r.selected = d.selected
  /\ DOMAIN r.bank_sets = DOMAIN d.bank_sets
  /\ \A j \in DOMAIN d.bank_sets : j # i => r.bank_sets[j] = d.bank_sets[j]

\* Change of one set leaves the other sets and the other members alone.
LEMMA PutFields ==
  ASSUME NEW d \in Desk, NEW i \in DOMAIN d.bank_sets, Fitting(d.bank_sets[i]),
         NEW new, Reshaped(d.bank_sets[i].fader_banks, new)
  PROVE  LET r == Put(d, i, new)
         IN /\ SameBut(d, r, i)
            /\ r.bank_sets[i] \in BankSet
            /\ r.bank_sets[i].fader_banks = new
            /\ r.bank_sets[i].id = d.bank_sets[i].id
            /\ r.bank_sets[i].active_bank = d.bank_sets[i].active_bank
            /\ r.bank_sets[i].ready = d.bank_sets[i].ready
<1> DEFINE bs == [d.bank_sets[i] EXCEPT !.fader_banks = new]
           sets == [d.bank_sets EXCEPT ![i] = bs]
           shown == [p \in Positions |-> IF LitAs(d, i, new, p) = {} THEN d.shown[p]
                                         ELSE Leds(CHOOSE c \in LitAs(d, i, new, p) : TRUE)]
           r == Put(d, i, new)
<1>1. d.bank_sets \in Seq(BankSet) /\ d.bank_sets[i] \in BankSet  BY DEF Desk
<1>2. bs \in BankSet  BY <1>1 DEF BankSet, Reshaped
<1>3. sets \in Seq(BankSet) /\ sets[i] = bs /\ \A j \in DOMAIN d.bank_sets : j # i => sets[j] = d.bank_sets[j]
  BY <1>1, <1>2
<1>4. shown \in [Positions -> Lights]
  <2> SUFFICES ASSUME NEW p \in Positions
               PROVE  (IF LitAs(d, i, new, p) = {} THEN d.shown[p]
                       ELSE Leds(CHOOSE c \in LitAs(d, i, new, p) : TRUE)) \in Lights
    OBVIOUS
  <2>1. d.shown[p] \in Lights  BY DEF Desk
  <2>2. LitAs(d, i, new, p) \subseteq Column
    <3> SUFFICES ASSUME NEW b \in DOMAIN new, p \in DOMAIN new[b]  PROVE new[b][p] \in Column
      BY DEF LitAs
    <3>1. new[b] \in Seq(Column)  BY DEF Reshaped, Banks
    <3> QED  BY <3>1
  <2> QED  BY <2>1, <2>2, LedsTyped
<1>5. r = [[d EXCEPT !.bank_sets = sets] EXCEPT !.shown = shown]  BY DEF Put
<1> HIDE DEF r, shown, sets
<1>6. r \in Desk  BY <1>3, <1>4, <1>5, Setters
<1>7. r.bank_sets = sets /\ r.shown = shown
      /\ r.index_map = d.index_map /\ r.current = d.current /\ r.modified = d.modified
      /\ r.required = d.required /\ r.selected = d.selected /\ r.crashed = d.crashed
  BY <1>5 DEF Desk
<1>8. DOMAIN sets = DOMAIN d.bank_sets  BY DEF sets
<1>10. bs.id = d.bank_sets[i].id /\ bs.active_bank = d.bank_sets[i].active_bank
       /\ bs.ready = d.bank_sets[i].ready
  BY <1>1 DEF BankSet
<1>11. bs.fader_banks = new  BY <1>1 DEF BankSet
<1>12. r.modified = d.modified /\ r.required = d.required /\ r.selected = d.selected
  BY <1>7
<1> HIDE DEF bs
<1>13. SameBut(d, r, i)  BY <1>3, <1>6, <1>7, <1>8, <1>12 DEF SameBut
<1> QED  BY <1>2, <1>3, <1>7, <1>10, <1>11, <1>13 DEF r

\* A position is lit as the last changed column that is active says.
LEMMA PutShows ==
  ASSUME NEW d \in Desk, NEW i \in DOMAIN d.bank_sets, Fitting(d.bank_sets[i]),
         NEW new, Reshaped(d.bank_sets[i].fader_banks, new)
  PROVE  \A p \in Positions : Put(d, i, new).shown[p] =
           IF LitAs(d, i, new, p) = {} THEN d.shown[p] ELSE Leds(CHOOSE c \in LitAs(d, i, new, p) : TRUE)
<1> SUFFICES ASSUME NEW p \in Positions
             PROVE  Put(d, i, new).shown[p] = IF LitAs(d, i, new, p) = {} THEN d.shown[p]
                                              ELSE Leds(CHOOSE c \in LitAs(d, i, new, p) : TRUE)
  OBVIOUS
<1> QED  BY DEF Put, Desk

\* If only columns of the active bank are active, each that is has its lights.
LEMMA PutLights ==
  ASSUME NEW d \in Desk, NEW i \in DOMAIN d.bank_sets, Fitting(d.bank_sets[i]),
         NEW new, Reshaped(d.bank_sets[i].fader_banks, new),
         \A b \in DOMAIN new : \A k \in DOMAIN new[b] : new[b][k].active => b = d.bank_sets[i].active_bank,
         Lit(d.bank_sets[i], d.shown)
  PROVE  Lit(Put(d, i, new).bank_sets[i], Put(d, i, new).shown)
<1> DEFINE r == Put(d, i, new)
           ab == d.bank_sets[i].active_bank
           old == d.bank_sets[i].fader_banks
<1>1. r.bank_sets[i].fader_banks = new /\ r.bank_sets[i].active_bank = ab
  BY PutFields
<1>2. \A p \in Positions : r.shown[p] = IF LitAs(d, i, new, p) = {} THEN d.shown[p]
                                        ELSE Leds(CHOOSE c \in LitAs(d, i, new, p) : TRUE)
  BY PutShows
<1> HIDE DEF r
<1>3. ASSUME NEW b \in DOMAIN new, NEW k \in DOMAIN new[b], new[b][k].active
      PROVE  b = ab /\ r.shown[k] = Leds(new[b][k])
  <2>1. b = ab  BY <1>3
  <2>2. k \in Positions /\ b \in DOMAIN old /\ k \in DOMAIN old[b]  BY DEF Fitting, Reshaped
  <2>3. CASE new[b][k] = old[b][k]
    <3>1. LitAs(d, i, new, k) = {}
      <4>1. \A x \in DOMAIN new : k \in DOMAIN new[x] /\ new[x][k].active => x = b  BY <2>1
      <4> QED  BY <4>1, <2>3 DEF LitAs
    <3>2. d.shown[k] = Leds(old[b][k])  BY <1>3, <2>2, <2>3 DEF Lit
    <3> QED  BY <3>1, <3>2, <2>1, <2>2, <2>3, <1>2
  <2>4. CASE new[b][k] # old[b][k]
    <3>1. \A x \in DOMAIN new : k \in DOMAIN new[x] /\ new[x][k].active => x = b  BY <2>1
    <3>2. LitAs(d, i, new, k) = {new[b][k]}
      <4>1. new[b][k] \in LitAs(d, i, new, k)  BY <1>3, <2>4 DEF LitAs
      <4>2. \A c \in LitAs(d, i, new, k) : c = new[b][k]  BY <3>1 DEF LitAs
      <4> QED  BY <4>1, <4>2
    <3>3. (CHOOSE c \in LitAs(d, i, new, k) : TRUE) = new[b][k]  BY <3>2
    <3> QED  BY <3>2, <3>3, <2>1, <2>2, <1>2
  <2> QED  BY <2>3, <2>4
<1> QED  BY <1>1, <1>3 DEF Lit, r

\* Columns that are not active light nothing.
LEMMA PutInTheDark ==
  ASSUME NEW d \in Desk, NEW i \in DOMAIN d.bank_sets, Fitting(d.bank_sets[i]),
         NEW new, Reshaped(d.bank_sets[i].fader_banks, new),
         \A b \in DOMAIN new : \A k \in DOMAIN new[b] : ~new[b][k].active
  PROVE  \A p \in Positions : Put(d, i, new).shown[p] = d.shown[p]
<1> SUFFICES ASSUME NEW p \in Positions PROVE Put(d, i, new).shown[p] = d.shown[p]
  OBVIOUS
<1>1. LitAs(d, i, new, p) = {}  BY DEF LitAs
<1>2. Put(d, i, new).shown[p] = IF LitAs(d, i, new, p) = {} THEN d.shown[p]
                                ELSE Leds(CHOOSE c \in LitAs(d, i, new, p) : TRUE)
  BY PutShows
<1> QED  BY <1>1, <1>2

-----------------------------------------------------------------------------
\* The new columns of the four callers of Change.
Activated(bs, state) ==
  [b \in DOMAIN bs.fader_banks |-> [k \in DOMAIN bs.fader_banks[b] |->
     IF b = bs.active_bank THEN [bs.fader_banks[b][k] EXCEPT !.active = state] ELSE bs.fader_banks[b][k]]]

\* SetActive is a Change of the columns of one bank.
LEMMA SetActivePuts ==
  ASSUME NEW d, NEW i, NEW state
  PROVE  SetActive(d, i, state) = Put(d, i, Activated(d.bank_sets[i], state))
BY Zenon DEF SetActive, Change, Put, LitAs, Activated

\* The banks of a set and their columns.
LEMMA BanksTyped ==
  ASSUME NEW bs \in BankSet, NEW b \in DOMAIN bs.fader_banks
  PROVE  /\ bs.fader_banks \in Seq(Seq(Column)) /\ bs.fader_banks[b] \in Seq(Column)
         /\ \A k \in DOMAIN bs.fader_banks[b] : bs.fader_banks[b][k] \in Column
BY DEF BankSet, Banks

\* A function over the domain of a sequence is a sequence as long.
LEMMA SeqLike ==
  ASSUME NEW S, NEW s \in Seq(S), NEW T, NEW f, f = [k \in DOMAIN s |-> f[k]],
         \A k \in DOMAIN s : f[k] \in T
  PROVE  f \in Seq(T) /\ Len(f) = Len(s)
<1>1. DOMAIN s = 1..Len(s) /\ Len(s) \in Nat  OBVIOUS
<1> QED  BY <1>1

\* Activation changes no column but by its flag.
LEMMA ActivatedReshapes ==
  ASSUME NEW bs \in BankSet, NEW state \in BOOLEAN
  PROVE  LET new == Activated(bs, state)
         IN /\ Reshaped(bs.fader_banks, new)
            /\ \A b \in DOMAIN new : \A k \in DOMAIN new[b] :
                 /\ b = bs.active_bank => new[b][k].active = state
                 /\ b # bs.active_bank => new[b][k].active = bs.fader_banks[b][k].active
                 /\ new[b][k].ready = bs.fader_banks[b][k].ready
<1> DEFINE new == Activated(bs, state)
           old == bs.fader_banks
<1>1. old \in Seq(Seq(Column))  BY DEF BankSet, Banks
<1>2. DOMAIN new = DOMAIN old /\ \A b \in DOMAIN new : DOMAIN new[b] = DOMAIN old[b]  BY DEF Activated
<1>3. ASSUME NEW b \in DOMAIN new, NEW k \in DOMAIN new[b]
      PROVE  /\ new[b][k] \in Column /\ new[b][k].id = old[b][k].id
             /\ b = bs.active_bank => new[b][k].active = state
             /\ b # bs.active_bank => new[b][k].active = old[b][k].active
             /\ new[b][k].ready = old[b][k].ready
  <2>1. old[b][k] \in Column  BY <1>1, <1>2
  <2>2. new[b][k] = IF b = bs.active_bank THEN [old[b][k] EXCEPT !.active = state] ELSE old[b][k]
    BY <1>2 DEF Activated
  <2> QED  BY <2>1, <2>2 DEF Column
<1>4. new \in Banks
  <2>1. \A b \in DOMAIN new : new[b] \in Seq(Column)
    <3> SUFFICES ASSUME NEW b \in DOMAIN new PROVE new[b] \in Seq(Column)
      OBVIOUS
    <3>1. old[b] \in Seq(Column)  BY <1>1, <1>2
    <3>2. new[b] = [k \in DOMAIN old[b] |-> new[b][k]]  BY <1>2 DEF Activated
    <3>3. \A k \in DOMAIN old[b] : new[b][k] \in Column  BY <1>2, <1>3
    <3> HIDE DEF new, old
    <3> QED  BY <3>1, <3>2, <3>3, SeqLike
  <2>2. new = [b \in DOMAIN old |-> new[b]]  BY DEF Activated
  <2> HIDE DEF new, old
  <2> QED  BY <2>1, <2>2, <1>1, <1>2, SeqLike DEF Banks
<1> HIDE DEF new
<1> QED  BY <1>2, <1>3, <1>4 DEF Reshaped, new

-----------------------------------------------------------------------------
\* Reshaping keeps what is known of a set.
LEMMA ReadyFlat ==
  ASSUME NEW bs \in BankSet
  PROVE  ReadyExact(bs) <=>
           /\ \A b \in DOMAIN bs.fader_banks : \A k \in DOMAIN bs.fader_banks[b] :
                bs.fader_banks[b][k].ready => bs.fader_banks[b][k].id \in bs.ready
           /\ \A x \in bs.ready : \E b \in DOMAIN bs.fader_banks : \E k \in DOMAIN bs.fader_banks[b] :
                bs.fader_banks[b][k].ready /\ bs.fader_banks[b][k].id = x
<1>1. \A c : c \in ColumnsOf(bs) <=> \E b \in DOMAIN bs.fader_banks : \E k \in DOMAIN bs.fader_banks[b] :
                                       c = bs.fader_banks[b][k]
  BY DEF ColumnsOf, ToSet
<1> HIDE DEF BankSet
<1> QED  BY <1>1 DEF ReadyExact

\* Columns keep their places and ids when their states change.
LEMMA ReshapedKeeps ==
  ASSUME NEW bs \in BankSet, NEW r \in BankSet, Reshaped(bs.fader_banks, r.fader_banks)
  PROVE  /\ Fitting(bs) => Fitting(r)
         /\ OnceEach(bs) => OnceEach(r)
<1>1. Fitting(bs) => Fitting(r)  BY DEF Fitting, Reshaped
<1>2. OnceEach(bs) => OnceEach(r)  BY DEF OnceEach, Reshaped
<1> QED  BY <1>1, <1>2

\* The ready set stays exact if no column enters or leaves ready mode.
LEMMA ReshapedReady ==
  ASSUME NEW bs \in BankSet, NEW r \in BankSet, Reshaped(bs.fader_banks, r.fader_banks),
         r.ready = bs.ready, ReadyExact(bs),
         \A b \in DOMAIN r.fader_banks : \A k \in DOMAIN r.fader_banks[b] :
           r.fader_banks[b][k].ready = bs.fader_banks[b][k].ready
  PROVE  ReadyExact(r)
<1> DEFINE old == bs.fader_banks
           new == r.fader_banks
<1>1. /\ DOMAIN new = DOMAIN old
      /\ \A b \in DOMAIN new : DOMAIN new[b] = DOMAIN old[b]
      /\ \A b \in DOMAIN new : \A k \in DOMAIN new[b] : new[b][k].id = old[b][k].id
                                                     /\ new[b][k].ready = old[b][k].ready
  BY DEF Reshaped
<1>2. /\ \A b \in DOMAIN old : \A k \in DOMAIN old[b] : old[b][k].ready => old[b][k].id \in bs.ready
      /\ \A x \in bs.ready : \E b \in DOMAIN old : \E k \in DOMAIN old[b] :
                old[b][k].ready /\ old[b][k].id = x
  BY ReadyFlat
<1> HIDE DEF old, new
<1>3. /\ \A b \in DOMAIN new : \A k \in DOMAIN new[b] : new[b][k].ready => new[b][k].id \in r.ready
      /\ \A x \in r.ready : \E b \in DOMAIN new : \E k \in DOMAIN new[b] :
                new[b][k].ready /\ new[b][k].id = x
  BY <1>1, <1>2
<1> QED  BY <1>3, ReadyFlat DEF new

Good(bs) == Fitting(bs) /\ OnceEach(bs) /\ ReadyExact(bs)

\* The columns of the active bank of a set become active, or inactive.
LEMMA SetActiveKeeps ==
  ASSUME NEW d \in Desk, NEW i \in DOMAIN d.bank_sets, Good(d.bank_sets[i]), NEW state \in BOOLEAN
  PROVE  LET r == SetActive(d, i, state)
             old == d.bank_sets[i].fader_banks
             new == r.bank_sets[i].fader_banks
         IN /\ SameBut(d, r, i) /\ Good(r.bank_sets[i]) /\ r.bank_sets[i] \in BankSet
            /\ r.bank_sets[i].id = d.bank_sets[i].id
            /\ r.bank_sets[i].active_bank = d.bank_sets[i].active_bank
            /\ DOMAIN new = DOMAIN old
            /\ \A b \in DOMAIN new : DOMAIN new[b] = DOMAIN old[b]
            /\ \A b \in DOMAIN new : \A k \in DOMAIN new[b] :
                 /\ b = d.bank_sets[i].active_bank => new[b][k].active = state
                 /\ b # d.bank_sets[i].active_bank => new[b][k].active = old[b][k].active
<1> DEFINE bs == d.bank_sets[i]
           new == Activated(bs, state)
           r == SetActive(d, i, state)
           rs == r.bank_sets[i]
<1>1. bs \in BankSet  BY DEF Desk
<1>2. /\ Reshaped(bs.fader_banks, new)
      /\ \A b \in DOMAIN new : \A k \in DOMAIN new[b] :
                 /\ b = bs.active_bank => new[b][k].active = state
                 /\ b # bs.active_bank => new[b][k].active = bs.fader_banks[b][k].active
                 /\ new[b][k].ready = bs.fader_banks[b][k].ready
  <2> HIDE DEF bs
  <2> QED  BY <1>1, ActivatedReshapes
<1>3. r = Put(d, i, new)  BY SetActivePuts
<1> HIDE DEF r, new
<1>4. Fitting(bs)  BY DEF Good
<1>5. /\ SameBut(d, r, i) /\ rs \in BankSet /\ rs.fader_banks = new /\ rs.id = bs.id
      /\ rs.active_bank = bs.active_bank /\ rs.ready = bs.ready
  BY <1>2, <1>3, <1>4, PutFields
<1> HIDE DEF bs, rs
<1>6. Good(bs)  BY DEF bs
<1>7. Fitting(rs) /\ OnceEach(rs)  BY <1>1, <1>2, <1>5, <1>6, ReshapedKeeps DEF Good
<1>8. ReadyExact(rs)  BY <1>1, <1>2, <1>5, <1>6, ReshapedReady DEF Good
<1>9. DOMAIN new = DOMAIN bs.fader_banks /\ \A b \in DOMAIN new : DOMAIN new[b] = DOMAIN bs.fader_banks[b]
  BY <1>2 DEF Reshaped
<1>10. \A b \in DOMAIN new : \A k \in DOMAIN new[b] :
         /\ b = bs.active_bank => new[b][k].active = state
         /\ b # bs.active_bank => new[b][k].active = bs.fader_banks[b][k].active
  BY <1>2
<1> QED  BY <1>5, <1>7, <1>8, <1>9, <1>10 DEF Good, r, bs, rs

\* What was lit rightly stays so when the active bank is activated.
LEMMA SetActiveLights ==
  ASSUME NEW d \in Desk, NEW i \in DOMAIN d.bank_sets, Good(d.bank_sets[i]), Lit(d.bank_sets[i], d.shown),
         NEW state \in BOOLEAN
  PROVE  Lit(SetActive(d, i, state).bank_sets[i], SetActive(d, i, state).shown)
<1> DEFINE bs == d.bank_sets[i]
           new == Activated(bs, state)
<1>1. bs \in BankSet  BY DEF Desk
<1>2. /\ Reshaped(bs.fader_banks, new)
      /\ \A b \in DOMAIN new : \A k \in DOMAIN new[b] :
           b # bs.active_bank => new[b][k].active = bs.fader_banks[b][k].active
  <2> HIDE DEF bs
  <2> QED  BY <1>1, ActivatedReshapes
<1>3. SetActive(d, i, state) = Put(d, i, new)  BY SetActivePuts
<1> HIDE DEF new
<1>4. DOMAIN new = DOMAIN bs.fader_banks /\ \A b \in DOMAIN new : DOMAIN new[b] = DOMAIN bs.fader_banks[b]
  BY <1>2 DEF Reshaped
<1>5. Fitting(bs) /\ Lit(bs, d.shown)  BY DEF Good
<1> HIDE DEF bs
<1>6. \A b \in DOMAIN new : \A k \in DOMAIN new[b] : new[b][k].active => b = bs.active_bank
  BY <1>2, <1>4, <1>5 DEF Lit
<1> QED  BY <1>2, <1>3, <1>5, <1>6, PutLights DEF bs

\* A set of which the active bank is deactivated is dark.
LEMMA SetActiveDarkens ==
  ASSUME NEW d \in Desk, NEW i \in DOMAIN d.bank_sets, Good(d.bank_sets[i]), OnlyActiveBank(d.bank_sets[i]),
         NEW state \in BOOLEAN, ~state
  PROVE  /\ Dark(SetActive(d, i, state).bank_sets[i])
         /\ \A p \in Positions : SetActive(d, i, state).shown[p] = d.shown[p]
<1> DEFINE bs == d.bank_sets[i]
           new == Activated(bs, state)
           r == SetActive(d, i, state)
<1>1. bs \in BankSet  BY DEF Desk
<1>2. /\ Reshaped(bs.fader_banks, new)
      /\ \A b \in DOMAIN new : \A k \in DOMAIN new[b] :
           /\ b = bs.active_bank => new[b][k].active = state
           /\ b # bs.active_bank => new[b][k].active = bs.fader_banks[b][k].active
  <2> HIDE DEF bs
  <2> QED  BY <1>1, ActivatedReshapes
<1>3. r = Put(d, i, new)  BY SetActivePuts
<1> HIDE DEF new
<1>4. DOMAIN new = DOMAIN bs.fader_banks /\ \A b \in DOMAIN new : DOMAIN new[b] = DOMAIN bs.fader_banks[b]
  BY <1>2 DEF Reshaped
<1>5. Fitting(bs) /\ OnlyActiveBank(bs)  BY DEF Good
<1> HIDE DEF bs, r
<1>6. \A b \in DOMAIN new : \A k \in DOMAIN new[b] : ~new[b][k].active
  BY <1>2, <1>4, <1>5 DEF OnlyActiveBank
<1>7. r.bank_sets[i].fader_banks = new  BY <1>2, <1>3, <1>5, PutFields DEF bs
<1>8. Dark(r.bank_sets[i])
  <2> DEFINE rs == r.bank_sets[i]
  <2>1. rs.fader_banks = new  BY <1>7
  <2> HIDE DEF rs
  <2> QED  BY <2>1, <1>6 DEF Dark, rs
<1>9. \A p \in Positions : r.shown[p] = d.shown[p]
  BY <1>2, <1>3, <1>5, <1>6, PutInTheDark DEF bs
<1> QED  BY <1>8, <1>9 DEF r

AllOn(bs) ==
  \A b \in DOMAIN bs.fader_banks : b = bs.active_bank =>
    \A k \in DOMAIN bs.fader_banks[b] : bs.fader_banks[b][k].active

\* The set i of r is that of d, lit or in the dark.
SameSet(bs, rs) ==
  /\ rs \in BankSet /\ Good(rs) /\ rs.id = bs.id /\ rs.active_bank = bs.active_bank
  /\ DOMAIN rs.fader_banks = DOMAIN bs.fader_banks
LitUp(d, i, r) ==
  /\ SameBut(d, r, i) /\ SameSet(d.bank_sets[i], r.bank_sets[i])
  /\ Lit(r.bank_sets[i], r.shown) /\ AllOn(r.bank_sets[i])
Darkened(d, i, r, n) ==
  /\ SameBut(d, r, i) /\ SameSet(d.bank_sets[i], r.bank_sets[i])
  /\ Dark(r.bank_sets[i])
  /\ \A p \in Positions : p <= n => r.shown[p] = d.shown[p]

\* SetActive(.., TRUE), for a set that was lit rightly or dark.
LEMMA LightsUp ==
  ASSUME NEW d \in Desk, NEW i \in DOMAIN d.bank_sets, Good(d.bank_sets[i]), Lit(d.bank_sets[i], d.shown)
  PROVE  LitUp(d, i, SetActive(d, i, TRUE))
<1>1. ASSUME NEW state \in BOOLEAN, state  PROVE LitUp(d, i, SetActive(d, i, state))
  <2> DEFINE r == SetActive(d, i, state)
             bs == d.bank_sets[i]
             rs == r.bank_sets[i]
  <2>1. /\ SameBut(d, r, i) /\ Good(rs) /\ rs \in BankSet /\ rs.id = bs.id /\ rs.active_bank = bs.active_bank
        /\ DOMAIN rs.fader_banks = DOMAIN bs.fader_banks
    BY SetActiveKeeps
  <2>2. \A b \in DOMAIN rs.fader_banks : \A k \in DOMAIN rs.fader_banks[b] :
          b = bs.active_bank => rs.fader_banks[b][k].active = state
    BY SetActiveKeeps, SMTT(30)
  <2>3. Lit(rs, r.shown)  BY SetActiveLights
  <2> HIDE DEF rs, bs
  <2>4. AllOn(rs)  BY <1>1, <2>1, <2>2 DEF AllOn
  <2>5. SameSet(bs, rs)  BY <2>1 DEF SameSet
  <2> HIDE DEF r
  <2> QED  BY <2>1, <2>3, <2>4, <2>5, Zenon DEF LitUp, r, rs, bs
<1> QED  BY <1>1, Zenon

\* SetActive(.., FALSE), for a set with no active column outside its active bank.
LEMMA GoesDark ==
  ASSUME NEW d \in Desk, NEW i \in DOMAIN d.bank_sets, Good(d.bank_sets[i]), OnlyActiveBank(d.bank_sets[i]),
         NEW n
  PROVE  Darkened(d, i, SetActive(d, i, FALSE), n)
<1>1. ASSUME NEW state \in BOOLEAN, ~state  PROVE Darkened(d, i, SetActive(d, i, state), n)
  <2> DEFINE r == SetActive(d, i, state)
             bs == d.bank_sets[i]
             rs == r.bank_sets[i]
  <2>1. /\ SameBut(d, r, i) /\ Good(rs) /\ rs \in BankSet /\ rs.id = bs.id /\ rs.active_bank = bs.active_bank
        /\ DOMAIN rs.fader_banks = DOMAIN bs.fader_banks
    BY SetActiveKeeps
  <2>2. Dark(rs) /\ \A p \in Positions : r.shown[p] = d.shown[p]  BY <1>1, SetActiveDarkens
  <2>5. SameSet(bs, rs)  BY <2>1 DEF SameSet
  <2>3. \A p \in Positions : p <= n => r.shown[p] = d.shown[p]  BY <2>2
  <2> HIDE DEF r
  <2> QED  BY <2>1, <2>2, <2>3, <2>5, Zenon DEF Darkened, rs, bs, r
<1> QED  BY <1>1, Zenon

\* Deactivate: the first n positions keep what they show.
LEMMA DeactivateDarkens ==
  ASSUME NEW d \in Desk, NEW i \in DOMAIN d.bank_sets, Good(d.bank_sets[i]), OnlyActiveBank(d.bank_sets[i]),
         NEW n \in Nat
  PROVE  Darkened(d, i, Deactivate(d, i, n), n)
<1> DEFINE e == SetActive(d, i, FALSE)
           len == Len(ActiveBank(d.bank_sets[i]))
           off == [p \in Positions |-> IF p > n /\ p <= len THEN Off ELSE e.shown[p]]
           r == Deactivate(d, i, n)
<1>1. Darkened(d, i, e, n)  BY GoesDark
<1>2. r = [e EXCEPT !.shown = off]  BY DEF Deactivate
<1> HIDE DEF e, len
<1>3. e \in Desk  BY <1>1 DEF Darkened, SameBut
<1>4. off \in [Positions -> Lights]
  <2>1. Off \in Lights  BY DEF Off, Lights
  <2>2. \A p \in Positions : e.shown[p] \in Lights  BY <1>3 DEF Desk
  <2> QED  BY <2>1, <2>2
<1>5. \A p \in Positions : p <= n => off[p] = e.shown[p]
  <2> SUFFICES ASSUME NEW p \in Positions, p <= n PROVE off[p] = e.shown[p]
    OBVIOUS
  <2>1. ~(p > n)  BY DeskAssumption DEF Positions
  <2> QED  BY <2>1
<1> HIDE DEF off, r
<1>6. r \in Desk  BY <1>2, <1>3, <1>4, Setters
<1>7. /\ r.shown = off /\ r.bank_sets = e.bank_sets /\ r.index_map = e.index_map
      /\ r.current = e.current /\ r.modified = e.modified /\ r.crashed = e.crashed
      /\ r.required = e.required /\ r.selected = e.selected
  BY <1>2, <1>3 DEF Desk
<1>8. SameBut(d, r, i)  BY <1>1, <1>6, <1>7 DEF Darkened, SameBut
<1>9. SameSet(d.bank_sets[i], r.bank_sets[i]) /\ Dark(r.bank_sets[i])
  BY <1>1, <1>7 DEF Darkened
<1>10. \A p \in Positions : p <= n => r.shown[p] = d.shown[p]
  BY <1>1, <1>5, <1>7 DEF Darkened
<1> QED  BY <1>8, <1>9, <1>10, Zenon DEF Darkened, r

-----------------------------------------------------------------------------
(* What holds of the desk between any two steps, part by part.               *)
SetsGood(d) == \A j \in DOMAIN d.bank_sets : Good(d.bank_sets[j])
OthersDark(d) == \A j \in DOMAIN d.bank_sets : j # d.current => Dark(d.bank_sets[j])
CurrentLit(d) == CurrentValid(d) => Lit(Current(d), d.shown)
AllLit(d) == CurrentValid(d) => d.modified \/ AllOn(Current(d))
HasCurrent(d) == DOMAIN d.bank_sets # {} => CurrentValid(d)
StartsOver(d) == DOMAIN d.bank_sets = {} => d.current = 1

Sound(d) ==
  /\ d \in Desk /\ SetsGood(d) /\ OthersDark(d) /\ CurrentLit(d) /\ AllLit(d)
  /\ HasCurrent(d) /\ StartsOver(d)

\* A message to the clients is due, or will be once they choose a set.
Due(d) == d.required \/ d.modified

\* The active bank of a dark set may be chosen freely.
LEMMA GoodAnyBank ==
  ASSUME NEW bs \in BankSet, Good(bs), NEW x \in Int
  PROVE  LET r == [bs EXCEPT !.active_bank = x]
         IN r \in BankSet /\ Good(r) /\ r.fader_banks = bs.fader_banks /\ r.active_bank = x
                           /\ r.id = bs.id
<1> DEFINE r == [bs EXCEPT !.active_bank = x]
<1>1. r \in BankSet /\ r.fader_banks = bs.fader_banks /\ r.ready = bs.ready /\ r.active_bank = x
      /\ r.id = bs.id
  BY DEF BankSet
<1> HIDE DEF r
<1>2. Fitting(r) /\ OnceEach(r)  BY <1>1 DEF Good, Fitting, OnceEach
<1>3. ColumnsOf(r) = ColumnsOf(bs)  BY <1>1 DEF ColumnsOf
<1>4. ReadyExact(r)  BY <1>1, <1>3 DEF Good, ReadyExact
<1> QED  BY <1>1, <1>2, <1>4 DEF Good, r

\* The active bank is a sequence of columns, empty if there is none.
LEMMA ActiveBankTyped ==
  ASSUME NEW bs \in BankSet
  PROVE  ActiveBank(bs) \in Seq(Column) /\ Len(ActiveBank(bs)) \in Nat
<1>1. CASE bs.active_bank \in DOMAIN bs.fader_banks
  <2>1. bs.fader_banks[bs.active_bank] \in Seq(Column)  BY <1>1, BanksTyped
  <2> QED  BY <1>1, <2>1 DEF ActiveBank
<1>2. CASE bs.active_bank \notin DOMAIN bs.fader_banks
  BY <1>2 DEF ActiveBank
<1> QED  BY <1>1, <1>2

\* A dark set is lit rightly whatever is shown.
LEMMA DarkIsLit == \A bs, shown : Dark(bs) => Lit(bs, shown)
BY DEF Dark, Lit
\* A set that is lit rightly has no active column outside its active bank.
LEMMA LitIsOnly == \A bs, shown : Lit(bs, shown) => OnlyActiveBank(bs)
BY DEF OnlyActiveBank, Lit

\* desk::set_active_bank_set, also from the copy that remove_bank_set makes.
LEMMA SwitchesSet ==
  ASSUME NEW d \in Desk, NEW index \in DOMAIN d.bank_sets, d.current \in DOMAIN d.bank_sets, SetsGood(d),
         \A j \in DOMAIN d.bank_sets : j # d.current /\ j # index => Dark(d.bank_sets[j]),
         OnlyActiveBank(d.bank_sets[d.current]), Lit(d.bank_sets[index], d.shown),
         ~(index = d.current /\ ~d.modified)
  PROVE  LET r == SetActiveBankSet(d, index)
         IN /\ r \in Desk /\ r.index_map = d.index_map /\ r.crashed = d.crashed /\ r.selected = d.selected
            /\ r.current = index /\ ~r.modified /\ r.required
            /\ DOMAIN r.bank_sets = DOMAIN d.bank_sets
            /\ SetsGood(r) /\ OthersDark(r) /\ Lit(r.bank_sets[index], r.shown) /\ AllOn(r.bank_sets[index])
<1> DEFINE cur == d.current
           nbs == d.bank_sets[index]
           n == Len(ActiveBank(nbs))
           d1 == Deactivate(d, cur, n)
           bank == IF nbs.active_bank \in DOMAIN nbs.fader_banks THEN nbs.active_bank ELSE 1
           bs == [d1.bank_sets[index] EXCEPT !.active_bank = bank]
           sets == [d1.bank_sets EXCEPT ![index] = bs]
           d2 == [[[[d1 EXCEPT !.current = index] EXCEPT !.bank_sets = sets] EXCEPT !.modified = FALSE]
                  EXCEPT !.required = TRUE]
           r == SetActiveBankSet(d, index)
<1>1. r = SetActive(d2, index, TRUE)  BY Zenon DEF SetActiveBankSet
<1>2. nbs \in BankSet /\ cur \in Nat \ {0} /\ index \in Nat \ {0}  BY DEF Desk
<1>3. n \in Nat /\ bank \in Int
  <2> HIDE DEF nbs
  <2>1. nbs.active_bank \in Int  BY <1>2 DEF BankSet
  <2> QED  BY <1>2, <2>1, ActiveBankTyped
<1> HIDE DEF n
<1>4. Darkened(d, cur, d1, n)
  BY <1>3, DeactivateDarkens DEF SetsGood
<1> HIDE DEF d1, bank, r
<1>5. /\ d1 \in Desk /\ DOMAIN d1.bank_sets = DOMAIN d.bank_sets
      /\ d1.index_map = d.index_map /\ d1.crashed = d.crashed /\ d1.selected = d.selected
      /\ \A j \in DOMAIN d.bank_sets : j # cur => d1.bank_sets[j] = d.bank_sets[j]
      /\ Good(d1.bank_sets[cur]) /\ Dark(d1.bank_sets[cur])
      /\ \A p \in Positions : p <= n => d1.shown[p] = d.shown[p]
  BY <1>4 DEF Darkened, SameBut, SameSet
<1>6. d1.bank_sets[index] \in BankSet /\ Good(d1.bank_sets[index]) /\ d1.bank_sets \in Seq(BankSet)
  BY <1>5 DEF Desk, SetsGood
<1>7. bs \in BankSet /\ Good(bs) /\ bs.fader_banks = d1.bank_sets[index].fader_banks /\ bs.active_bank = bank
  BY <1>3, <1>6, GoodAnyBank
<1> HIDE DEF bs
<1>8. sets \in Seq(BankSet) /\ sets[index] = bs /\ DOMAIN sets = DOMAIN d.bank_sets
      /\ \A j \in DOMAIN d.bank_sets : j # index => sets[j] = d1.bank_sets[j]
  BY <1>5, <1>6, <1>7
<1> HIDE DEF sets
<1>9. d2 \in Desk  BY <1>2, <1>5, <1>8, Setters
<1>10. /\ d2.bank_sets = sets /\ d2.current = index /\ d2.modified = FALSE /\ d2.required = TRUE
       /\ d2.index_map = d1.index_map /\ d2.crashed = d1.crashed /\ d2.selected = d1.selected
       /\ d2.shown = d1.shown
  BY <1>5 DEF Desk
<1> HIDE DEF d2
<1>11. Lit(bs, d2.shown)
  <2>1. CASE index = cur
    <3>1. Dark(bs)  BY <1>5, <1>7, <2>1 DEF Dark
    <3> QED  BY <3>1, DarkIsLit
  <2>2. CASE index # cur
    <3>1. d1.bank_sets[index] = nbs  BY <2>2, <1>5
    <3>2. Good(nbs) /\ Lit(nbs, d.shown)  BY DEF SetsGood
    <3> HIDE DEF nbs
    <3> SUFFICES ASSUME NEW b \in DOMAIN nbs.fader_banks, NEW k \in DOMAIN nbs.fader_banks[b],
                        nbs.fader_banks[b][k].active
                 PROVE  b = bank /\ d2.shown[k] = Leds(nbs.fader_banks[b][k])
      BY <1>7, <3>1 DEF Lit
    <3>3. b = nbs.active_bank /\ d.shown[k] = Leds(nbs.fader_banks[b][k])  BY <3>2 DEF Lit
    <3>4. ActiveBank(nbs) = nbs.fader_banks[b]  BY <3>3 DEF ActiveBank
    <3>5. k \in Positions  BY <3>2 DEF Good, Fitting
    <3>6. k <= n
      <4>1. ActiveBank(nbs) \in Seq(Column)  BY <1>2, ActiveBankTyped
      <4> QED  BY <3>4, <4>1 DEF n
    <3>7. d1.shown[k] = d.shown[k]  BY <1>5, <3>5, <3>6
    <3>8. b = bank  BY <3>3 DEF bank
    <3> QED  BY <3>3, <3>7, <3>8, <1>10
  <2> QED  BY <2>1, <2>2
<1>12. LitUp(d2, index, r)
  <2>1. Good(d2.bank_sets[index]) /\ Lit(d2.bank_sets[index], d2.shown)  BY <1>7, <1>8, <1>10, <1>11
  <2>2. index \in DOMAIN d2.bank_sets  BY <1>8, <1>10
  <2> QED  BY <1>1, <1>9, <2>1, <2>2, LightsUp, Zenon
<1>13. /\ r \in Desk /\ r.index_map = d2.index_map /\ r.current = d2.current
       /\ r.modified = d2.modified /\ r.crashed = d2.crashed /\ r.required = d2.required /\ r.selected = d2.selected
       /\ DOMAIN r.bank_sets = DOMAIN d2.bank_sets
       /\ \A j \in DOMAIN d2.bank_sets : j # index => r.bank_sets[j] = d2.bank_sets[j]
       /\ Good(r.bank_sets[index]) /\ Lit(r.bank_sets[index], r.shown) /\ AllOn(r.bank_sets[index])
  BY <1>12 DEF LitUp, SameBut, SameSet
<1>14. \A j \in DOMAIN d.bank_sets : j # index =>
         r.bank_sets[j] = IF j = cur THEN d1.bank_sets[cur] ELSE d.bank_sets[j]
  BY <1>5, <1>8, <1>10, <1>13
<1>15. SetsGood(r)  BY <1>5, <1>8, <1>10, <1>13, <1>14 DEF SetsGood
<1>16. OthersDark(r)  BY <1>5, <1>8, <1>10, <1>13, <1>14 DEF OthersDark
<1> QED  BY <1>5, <1>8, <1>10, <1>13, <1>15, <1>16 DEF r

\* The flags of the messages and of the crash do not matter.
LEMMA SoundAlike ==
  ASSUME NEW d, Sound(d), NEW r \in Desk, r.bank_sets = d.bank_sets, r.current = d.current,
         r.shown = d.shown, r.modified \/ r.modified = d.modified
  PROVE  Sound(r)
<1> USE DEF Sound
<1>1. SetsGood(r) /\ OthersDark(r) /\ HasCurrent(r) /\ StartsOver(r)
  BY DEF SetsGood, OthersDark, HasCurrent, StartsOver, CurrentValid
<1>2. CurrentValid(r) => CurrentValid(d) /\ Current(r) = Current(d)  BY DEF CurrentValid, Current
<1>3. CurrentLit(r)  BY <1>2 DEF CurrentLit
<1>4. AllLit(r)  BY <1>2 DEF AllLit
<1> QED  BY <1>1, <1>3, <1>4

\* A crash leaves the members as they are.
LEMMA CrashSound ==
  ASSUME NEW d, Sound(d), NEW why \in {"no", "set", "device", "bank"}
  PROVE  Sound(Crash(d, why))
<1> DEFINE r == [d EXCEPT !.crashed = why]
<1>1. d \in Desk  BY DEF Sound
<1>2. r \in Desk  BY <1>1, Setters
<1>3. r.bank_sets = d.bank_sets /\ r.current = d.current /\ r.shown = d.shown /\ r.modified = d.modified
  BY <1>1 DEF Desk
<1> HIDE DEF r
<1>4. Sound(r)  BY <1>2, <1>3, SoundAlike
<1> QED  BY <1>4 DEF Crash, r

\* The message may become due, or be sent.
LEMMA RequiredSound ==
  ASSUME NEW d, Sound(d)
  PROVE  Sound([d EXCEPT !.required = TRUE]) /\ Sound([d EXCEPT !.required = FALSE])
<1>1. d \in Desk  BY DEF Sound
<1>2. Sound([d EXCEPT !.required = TRUE])
  <2> DEFINE r == [d EXCEPT !.required = TRUE]
  <2>2. r \in Desk  BY <1>1, Setters
  <2>3. r.bank_sets = d.bank_sets /\ r.current = d.current /\ r.shown = d.shown /\ r.modified = d.modified
    BY <1>1 DEF Desk
  <2> HIDE DEF r
  <2>4. Sound(r)  BY <2>2, <2>3, SoundAlike
  <2> QED  BY <2>4 DEF r
<1>3. Sound([d EXCEPT !.required = FALSE])
  <2> DEFINE r == [d EXCEPT !.required = FALSE]
  <2>2. r \in Desk  BY <1>1, Setters
  <2>3. r.bank_sets = d.bank_sets /\ r.current = d.current /\ r.shown = d.shown /\ r.modified = d.modified
    BY <1>1 DEF Desk
  <2> HIDE DEF r
  <2>4. Sound(r)  BY <2>2, <2>3, SoundAlike
  <2> QED  BY <2>4 DEF r
<1> QED  BY <1>2, <1>3

\* A desk of which only the current set has changed, into one that is lit.
LEMMA SoundLit ==
  ASSUME NEW d, Sound(d), NEW r, r \in Desk, r.current = d.current,
         DOMAIN r.bank_sets = DOMAIN d.bank_sets, d.current \in DOMAIN d.bank_sets,
         \A j \in DOMAIN d.bank_sets : j # d.current => r.bank_sets[j] = d.bank_sets[j],
         Good(r.bank_sets[d.current]), Lit(r.bank_sets[d.current], r.shown),
         r.modified \/ AllOn(r.bank_sets[d.current])
  PROVE  Sound(r)
<1> USE DEF Sound
<1>1. SetsGood(r)  BY DEF SetsGood
<1>2. OthersDark(r) /\ HasCurrent(r) /\ StartsOver(r)  BY DEF OthersDark, HasCurrent, StartsOver, CurrentValid
<1>3. CurrentLit(r) /\ AllLit(r)  BY DEF CurrentLit, AllLit, Current
<1> QED  BY <1>1, <1>2, <1>3

\* bank_set::set_active_fader_bank.
LEMMA SwitchesBank ==
  ASSUME NEW d, Sound(d), NEW index
  PROVE  LET r == SetActiveFaderBank(d, index)
         IN Sound(r) /\ (r = d \/ r = Crash(d, "bank") \/ r.required)
<1> DEFINE cur == d.current
           nbs == d.bank_sets[cur]
           refuses == \/ ~CurrentValid(d) \/ index \notin DOMAIN Current(d).fader_banks
                      \/ (index = Current(d).active_bank /\ ~d.modified)
<1>1. d \in Desk /\ SetsGood(d) /\ CurrentLit(d)  BY DEF Sound
<1>2. CASE refuses
  <2>1. SetActiveFaderBank(d, index) = d  BY <1>2 DEF SetActiveFaderBank
  <2> QED  BY <2>1
<1>3. CASE ~refuses /\ Current(d).active_bank \notin DOMAIN Current(d).fader_banks
  <2>1. SetActiveFaderBank(d, index) = Crash(d, "bank")  BY <1>3 DEF SetActiveFaderBank
  <2> QED  BY <2>1, CrashSound
<1>4. CASE ~refuses /\ Current(d).active_bank \in DOMAIN Current(d).fader_banks
  <2> DEFINE n == Len(Current(d).fader_banks[index])
             d1 == Deactivate(d, cur, n)
             bs == [d1.bank_sets[cur] EXCEPT !.active_bank = index]
             sets == [d1.bank_sets EXCEPT ![cur] = bs]
             d2 == [[d1 EXCEPT !.bank_sets = sets] EXCEPT !.required = TRUE]
             r == SetActiveFaderBank(d, index)
  <2>1. r = SetActive(d2, cur, TRUE)  BY <1>4, Zenon DEF SetActiveFaderBank
  <2>2. cur \in DOMAIN d.bank_sets /\ nbs = Current(d) /\ index \in DOMAIN nbs.fader_banks
    BY <1>4 DEF CurrentValid, Current
  <2>3. nbs \in BankSet /\ cur \in Nat \ {0}  BY <1>1, <2>2 DEF Desk
  <2>4. n \in Nat /\ index \in Int
    <3> HIDE DEF nbs
    <3>1. nbs.fader_banks \in Seq(Seq(Column)) /\ nbs.fader_banks[index] \in Seq(Column)
      BY <2>2, <2>3, BanksTyped
    <3> QED  BY <2>2, <3>1
  <2>5. Good(nbs) /\ OnlyActiveBank(nbs)
    BY <1>1, <2>2, LitIsOnly DEF SetsGood, CurrentLit, CurrentValid
  <2> HIDE DEF n
  <2>6. Darkened(d, cur, d1, n)  BY <1>1, <2>2, <2>4, <2>5, DeactivateDarkens
  <2> HIDE DEF d1, r
  <2>7. /\ d1 \in Desk /\ DOMAIN d1.bank_sets = DOMAIN d.bank_sets
        /\ d1.current = d.current /\ d1.modified = d.modified
        /\ \A j \in DOMAIN d.bank_sets : j # cur => d1.bank_sets[j] = d.bank_sets[j]
        /\ d1.bank_sets[cur] \in BankSet /\ Good(d1.bank_sets[cur]) /\ Dark(d1.bank_sets[cur])
    BY <2>6 DEF Darkened, SameBut, SameSet
  <2>8. d1.bank_sets \in Seq(BankSet)  BY <2>7 DEF Desk
  <2>9. bs \in BankSet /\ Good(bs) /\ bs.fader_banks = d1.bank_sets[cur].fader_banks
    BY <2>4, <2>7, GoodAnyBank
  <2> HIDE DEF bs
  <2>10. sets \in Seq(BankSet) /\ sets[cur] = bs /\ DOMAIN sets = DOMAIN d.bank_sets
        /\ \A j \in DOMAIN d.bank_sets : j # cur => sets[j] = d.bank_sets[j]
    BY <2>2, <2>7, <2>8, <2>9
  <2> HIDE DEF sets
  <2>11. d2 \in Desk  BY <2>7, <2>10, Setters
  <2>12. d2.bank_sets = sets /\ d2.current = d1.current /\ d2.modified = d1.modified /\ d2.required = TRUE
    BY <2>7 DEF Desk
  <2> HIDE DEF d2
  <2>13. Lit(bs, d2.shown)
    <3>1. Dark(bs)  BY <2>7, <2>9 DEF Dark
    <3> QED  BY <3>1, DarkIsLit
  <2>14. LitUp(d2, cur, r)
    <3>1. Good(d2.bank_sets[cur]) /\ Lit(d2.bank_sets[cur], d2.shown)  BY <2>9, <2>10, <2>12, <2>13
    <3>2. cur \in DOMAIN d2.bank_sets  BY <2>2, <2>10, <2>12
    <3> QED  BY <2>1, <2>11, <3>1, <3>2, LightsUp, Zenon
  <2>15. /\ r \in Desk /\ r.current = d2.current /\ r.required = d2.required
         /\ DOMAIN r.bank_sets = DOMAIN d2.bank_sets
         /\ \A j \in DOMAIN d2.bank_sets : j # cur => r.bank_sets[j] = d2.bank_sets[j]
         /\ Good(r.bank_sets[cur]) /\ Lit(r.bank_sets[cur], r.shown) /\ AllOn(r.bank_sets[cur])
    BY <2>14 DEF LitUp, SameBut, SameSet
  <2>16. \A j \in DOMAIN d.bank_sets : j # d.current => r.bank_sets[j] = d.bank_sets[j]
    BY <2>10, <2>12, <2>15
  <2>17. r.current = d.current /\ DOMAIN r.bank_sets = DOMAIN d.bank_sets
    BY <2>7, <2>10, <2>12, <2>15
  <2>18. Sound(r)  BY <2>2, <2>15, <2>16, <2>17, SoundLit
  <2>19. r.required  BY <2>12, <2>15
  <2> QED  BY <2>18, <2>19 DEF r
<1> QED  BY <1>2, <1>3, <1>4

\* set_active_bank_set on a sound desk.
LEMMA SwitchSound ==
  ASSUME NEW d, Sound(d), NEW index
  PROVE  LET r == SetActiveBankSet(d, index)
         IN Sound(r) /\ (r = d \/ r.required)
<1> DEFINE refuses == index \notin DOMAIN d.bank_sets \/ (index = d.current /\ ~d.modified)
           r == SetActiveBankSet(d, index)
<1>1. d \in Desk /\ SetsGood(d) /\ CurrentLit(d) /\ OthersDark(d) /\ HasCurrent(d)  BY DEF Sound
<1>2. CASE refuses
  <2>1. r = d  BY <1>2 DEF SetActiveBankSet
  <2> QED  BY <2>1
<1>3. CASE ~refuses
  <2>1. index \in DOMAIN d.bank_sets /\ ~(index = d.current /\ ~d.modified)  BY <1>3
  <2>2. d.current \in DOMAIN d.bank_sets  BY <1>1, <2>1 DEF HasCurrent, CurrentValid
  <2>3. Lit(d.bank_sets[d.current], d.shown)  BY <1>1, <2>2 DEF CurrentLit, CurrentValid, Current
  <2>4. Lit(d.bank_sets[index], d.shown)
    <3>1. CASE index = d.current  BY <2>3, <3>1
    <3>2. CASE index # d.current
      <4>1. Dark(d.bank_sets[index])  BY <1>1, <2>1, <3>2 DEF OthersDark
      <4> QED  BY <4>1, DarkIsLit
    <3> QED  BY <3>1, <3>2
  <2>5. \A j \in DOMAIN d.bank_sets : j # d.current /\ j # index => Dark(d.bank_sets[j])
    BY <1>1 DEF OthersDark
  <2>6. OnlyActiveBank(d.bank_sets[d.current])  BY <2>3, LitIsOnly
  <2>7. /\ r \in Desk /\ r.current = index /\ DOMAIN r.bank_sets = DOMAIN d.bank_sets
        /\ SetsGood(r) /\ OthersDark(r) /\ Lit(r.bank_sets[index], r.shown) /\ AllOn(r.bank_sets[index])
        /\ r.required
    BY <1>1, <2>1, <2>2, <2>4, <2>5, <2>6, SwitchesSet
  <2> HIDE DEF r
  <2>8. CurrentValid(r) /\ Current(r) = r.bank_sets[index]  BY <2>1, <2>7 DEF CurrentValid, Current
  <2>9. CurrentLit(r) /\ AllLit(r) /\ HasCurrent(r)  BY <2>7, <2>8 DEF CurrentLit, AllLit, HasCurrent
  <2>10. StartsOver(r)  BY <2>1, <2>7 DEF StartsOver
  <2> QED  BY <2>7, <2>9, <2>10 DEF Sound, r
<1> QED  BY <1>2, <1>3

-----------------------------------------------------------------------------
(* Sets that are removed and added.                                          *)
PopSet(e) == [e EXCEPT !.bank_sets = Front(e.bank_sets)]

\* The last set is dropped: no other refers to it.
LEMMA PopSound ==
  ASSUME NEW e \in Desk, NEW s, s = Len(e.bank_sets), DOMAIN e.bank_sets # {},
         \A j \in DOMAIN e.bank_sets : j # s => Good(e.bank_sets[j]),
         \A j \in DOMAIN e.bank_sets : j # s /\ j # e.current => Dark(e.bank_sets[j]),
         e.current \in DOMAIN e.bank_sets,
         e.current # s => /\ Lit(e.bank_sets[e.current], e.shown)
                          /\ e.modified \/ AllOn(e.bank_sets[e.current]),
         e.current = s => s = 1
  PROVE  /\ Sound(PopSet(e))
         /\ PopSet(e).required = e.required /\ PopSet(e).modified = e.modified
<1> DEFINE sets == Front(e.bank_sets)
           r == PopSet(e)
<1>1. e.bank_sets \in Seq(BankSet) /\ s \in Nat /\ DOMAIN e.bank_sets = 1..s  BY DEF Desk
<1>2. s >= 1  BY <1>1
<1>3. sets = SubSeq(e.bank_sets, 1, s - 1)  BY DEF Front
<1>4. sets \in Seq(BankSet) /\ DOMAIN sets = 1..(s - 1)  BY <1>1, <1>2, <1>3
<1>5. \A j \in DOMAIN sets : sets[j] = e.bank_sets[j] /\ j \in DOMAIN e.bank_sets /\ j # s
  BY <1>1, <1>2, <1>3
<1>6. r = [e EXCEPT !.bank_sets = sets]  BY DEF PopSet
<1> HIDE DEF sets, r
<1>7. r \in Desk  BY <1>4, <1>6, Setters
<1>8. r.bank_sets = sets /\ r.current = e.current /\ r.shown = e.shown /\ r.modified = e.modified
      /\ r.required = e.required
  BY <1>6 DEF Desk
<1>9. SetsGood(r)  BY <1>5, <1>8 DEF SetsGood
<1>10. OthersDark(r)  BY <1>5, <1>8 DEF OthersDark
<1>11. CurrentValid(r) => e.current # s /\ Current(r) = e.bank_sets[e.current]
  BY <1>5, <1>8 DEF CurrentValid, Current
<1>12. CurrentLit(r) /\ AllLit(r)  BY <1>8, <1>11 DEF CurrentLit, AllLit
<1>13. e.current # s => e.current \in DOMAIN sets  BY <1>1, <1>4
<1>14. HasCurrent(r)
  <2>1. CASE e.current = s  BY <2>1, <1>4, <1>8 DEF HasCurrent
  <2>2. CASE e.current # s  BY <2>2, <1>8, <1>13 DEF HasCurrent, CurrentValid
  <2> QED  BY <2>1, <2>2
<1>15. StartsOver(r)
  <2>1. CASE e.current = s  BY <2>1, <1>8 DEF StartsOver
  <2>2. CASE e.current # s  BY <2>2, <1>8, <1>13 DEF StartsOver
  <2> QED  BY <2>1, <2>2
<1>16. Sound(r)  BY <1>7, <1>9, <1>10, <1>12, <1>14, <1>15 DEF Sound
<1> QED  BY <1>8, <1>16 DEF r

\* desk::remove_bank_set, for any entry of the index map, stale ones too.
LEMMA RemoveSound ==
  ASSUME NEW d, Sound(d), NEW i \in Nat \ {0}
  PROVE  Sound(RemoveBankSet(d, i)) /\ Due(RemoveBankSet(d, i))
<1> DEFINE s == Len(d.bank_sets)
           d1 == [d EXCEPT !.modified = TRUE]
           entries == {k \in DOMAIN d.index_map : d.index_map[k] = s}
           first == CHOOSE k \in entries : \A l \in entries : k <= l
           map == IF entries = {} THEN d.index_map ELSE [d.index_map EXCEPT ![first] = i]
           sets == [d.bank_sets EXCEPT ![i] = d.bank_sets[s]]
           moved == [[d1 EXCEPT !.bank_sets = sets] EXCEPT !.index_map = map]
<1>1. d \in Desk /\ SetsGood(d) /\ CurrentLit(d) /\ OthersDark(d) /\ HasCurrent(d)  BY DEF Sound
<1>2. d1 \in Desk  BY <1>1, Setters
<1>3. /\ d1.bank_sets = d.bank_sets /\ d1.current = d.current /\ d1.shown = d.shown
      /\ d1.modified = TRUE /\ d1.index_map = d.index_map
  BY <1>1 DEF Desk
<1> HIDE DEF d1
<1>4. Sound(d1)  BY <1>2, <1>3, SoundAlike
<1>5. d.bank_sets \in Seq(BankSet) /\ s \in Nat /\ DOMAIN d.bank_sets = 1..s  BY <1>1 DEF Desk
<1>6. CASE i > s
  <2>1. RemoveBankSet(d, i) = d1  BY <1>6, Zenon DEF RemoveBankSet, d1
  <2>2. Due(d1)  BY <1>3 DEF Due
  <2> QED  BY <2>1, <2>2, <1>4
<1>7. CASE i <= s
  <2>1. i \in DOMAIN d.bank_sets /\ s \in DOMAIN d.bank_sets  BY <1>5, <1>7
  <2>2. d.current \in DOMAIN d.bank_sets  BY <1>1, <2>1 DEF HasCurrent, CurrentValid
  <2>3. Lit(d.bank_sets[d.current], d.shown)  BY <1>1, <2>2 DEF CurrentLit, CurrentValid, Current
  <2>4. CASE i < s
    <3>1. RemoveBankSet(d, i) = PopSet(IF d.current = s THEN SetActiveBankSet(moved, i) ELSE moved)
      <4> DEFINE m == [d1 EXCEPT !.bank_sets[i] = d.bank_sets[s],
                                 !.index_map = IF entries = {} THEN @ ELSE [@ EXCEPT ![first] = i]]
      <4>1. ~(i > s)  BY <1>5, <1>7
      <4>2. RemoveBankSet(d, i) = PopSet(IF d.current = s THEN SetActiveBankSet(m, i) ELSE m)
        BY <4>1, <2>4, Zenon DEF RemoveBankSet, PopSet, d1
      <4> HIDE DEF entries, first
      <4>3. m = moved  BY <1>2, <1>3 DEF Desk
      <4> HIDE DEF m, moved
      <4> QED  BY <4>2, <4>3
    <3>2. sets \in Seq(BankSet) /\ DOMAIN sets = DOMAIN d.bank_sets /\ sets[i] = d.bank_sets[s]
          /\ \A j \in DOMAIN d.bank_sets : j # i => sets[j] = d.bank_sets[j]
      BY <1>5, <2>1
    <3>3. map \in IndexMaps  BY <1>1, ZenonT(60) DEF Desk, IndexMaps
    <3> HIDE DEF sets, map
    <3>4. moved \in Desk  BY <1>2, <3>2, <3>3, Setters
    <3>5. moved.bank_sets = sets /\ moved.current = d.current /\ moved.shown = d.shown /\ moved.modified = TRUE
      BY <1>2, <1>3 DEF Desk
    <3> HIDE DEF moved
    <3>6. SetsGood(moved)  BY <1>1, <2>1, <3>2, <3>5 DEF SetsGood
    <3>7. s = Len(moved.bank_sets)  BY <1>5, <3>2, <3>5
    <3>8. CASE d.current = s
      <4> DEFINE r == SetActiveBankSet(moved, i)
      <4>1. \A j \in DOMAIN moved.bank_sets : j # moved.current /\ j # i => Dark(moved.bank_sets[j])
        BY <1>1, <3>2, <3>5 DEF OthersDark
      <4>2. OnlyActiveBank(moved.bank_sets[moved.current])
        BY <2>1, <2>3, <2>4, <3>2, <3>5, <3>8, LitIsOnly
      <4>3. Lit(moved.bank_sets[i], moved.shown)  BY <2>3, <3>2, <3>5, <3>8
      <4>4. ~(i = moved.current /\ ~moved.modified)  BY <3>5
      <4>5. /\ r \in Desk /\ r.required /\ r.current = i /\ DOMAIN r.bank_sets = DOMAIN moved.bank_sets
            /\ SetsGood(r) /\ OthersDark(r) /\ Lit(r.bank_sets[i], r.shown) /\ AllOn(r.bank_sets[i])
        BY <2>1, <2>2, <3>2, <3>4, <3>5, <3>6, <4>1, <4>2, <4>3, <4>4, SwitchesSet
      <4>6. s = Len(r.bank_sets)
        <5>1. r.bank_sets \in Seq(BankSet)  BY <4>5 DEF Desk
        <5> HIDE DEF r
        <5> QED  BY <1>5, <3>2, <3>5, <4>5, <5>1
      <4> HIDE DEF r
      <4>7. Sound(PopSet(r)) /\ PopSet(r).required = r.required
        <5>1. DOMAIN r.bank_sets # {} /\ r.current \in DOMAIN r.bank_sets /\ r.current # s
          BY <2>1, <2>4, <3>2, <3>5, <4>5
        <5> QED  BY <4>5, <4>6, <5>1, PopSound DEF SetsGood, OthersDark
      <4>8. Due(PopSet(r))  BY <4>5, <4>7 DEF Due
      <4> QED  BY <3>1, <3>8, <4>7, <4>8 DEF r
    <3>9. CASE d.current # s
      <4>1. Dark(d.bank_sets[s])  BY <1>1, <2>1, <3>9 DEF OthersDark
      <4>2. \A j \in DOMAIN moved.bank_sets : j # s /\ j # moved.current => Dark(moved.bank_sets[j])
        BY <1>1, <3>2, <3>5, <4>1 DEF OthersDark
      <4>3. Lit(moved.bank_sets[moved.current], moved.shown)
        <5>1. CASE d.current = i
          <6>1. Lit(d.bank_sets[s], d.shown)  BY <4>1, DarkIsLit
          <6> QED  BY <5>1, <6>1, <3>2, <3>5
        <5>2. CASE d.current # i  BY <5>2, <2>2, <2>3, <3>2, <3>5
        <5> QED  BY <5>1, <5>2
      <4>4. moved.current \in DOMAIN moved.bank_sets /\ moved.current # s /\ DOMAIN moved.bank_sets # {}
        BY <2>2, <3>2, <3>5, <3>9
      <4>5. \A j \in DOMAIN moved.bank_sets : Good(moved.bank_sets[j])  BY <3>6 DEF SetsGood
      <4>6. Sound(PopSet(moved)) /\ PopSet(moved).modified = moved.modified
        BY <3>4, <3>5, <3>7, <4>2, <4>3, <4>4, <4>5, PopSound
      <4>7. Due(PopSet(moved))  BY <3>5, <4>6 DEF Due
      <4> QED  BY <3>1, <3>9, <4>6, <4>7
    <3> QED  BY <3>8, <3>9
  <2>5. CASE i = s
    <3>0. ~(i > s) /\ ~(i < s)  BY <1>5, <2>5
    <3>1. RemoveBankSet(d, i) = IF i # d.current THEN PopSet(d1)
                                ELSE IF s > 1 THEN PopSet(SetActiveBankSet(d1, i - 1))
                                ELSE PopSet(Deactivate(d1, i, 0))
      BY <3>0, Zenon DEF RemoveBankSet, PopSet, d1
    <3>2. SetsGood(d1) /\ OthersDark(d1)  BY <1>4 DEF Sound
    <3>3. CASE i # d.current
      <4>1. d1.current \in DOMAIN d1.bank_sets /\ d1.current # s /\ DOMAIN d1.bank_sets # {}
            /\ s = Len(d1.bank_sets) /\ Lit(d1.bank_sets[d1.current], d1.shown)
        BY <1>3, <2>2, <2>3, <2>5, <3>3
      <4>2. \A j \in DOMAIN d1.bank_sets : Good(d1.bank_sets[j])  BY <3>2 DEF SetsGood
      <4>3. \A j \in DOMAIN d1.bank_sets : j # s /\ j # d1.current => Dark(d1.bank_sets[j])
        BY <3>2 DEF OthersDark
      <4>4. Sound(PopSet(d1)) /\ PopSet(d1).modified = d1.modified
        BY <1>2, <1>3, <4>1, <4>2, <4>3, PopSound
      <4>5. Due(PopSet(d1))  BY <1>3, <4>4 DEF Due
      <4> QED  BY <3>1, <3>3, <4>4, <4>5
    <3>4. CASE i = d.current /\ s > 1
      <4> DEFINE r == SetActiveBankSet(d1, i - 1)
      <4>1. i - 1 \in DOMAIN d1.bank_sets /\ i - 1 # d1.current /\ i - 1 # s
        BY <1>3, <1>5, <2>5, <3>4
      <4>2. Dark(d1.bank_sets[i - 1])  BY <3>2, <4>1 DEF OthersDark
      <4>3. Lit(d1.bank_sets[i - 1], d1.shown)  BY <4>2, DarkIsLit
      <4>4. OnlyActiveBank(d1.bank_sets[d1.current])  BY <1>3, <2>3, LitIsOnly
      <4>5. \A j \in DOMAIN d1.bank_sets : j # d1.current /\ j # i - 1 => Dark(d1.bank_sets[j])
        BY <3>2 DEF OthersDark
      <4>6. d1.current \in DOMAIN d1.bank_sets  BY <1>3, <2>2
      <4>7. /\ r \in Desk /\ r.required /\ r.current = i - 1 /\ DOMAIN r.bank_sets = DOMAIN d1.bank_sets
            /\ SetsGood(r) /\ OthersDark(r) /\ Lit(r.bank_sets[i - 1], r.shown) /\ AllOn(r.bank_sets[i - 1])
        BY <1>2, <3>2, <4>1, <4>3, <4>4, <4>5, <4>6, SwitchesSet
      <4> HIDE DEF r
      <4>8. s = Len(r.bank_sets)
        <5>1. r.bank_sets \in Seq(BankSet)  BY <4>7 DEF Desk
        <5> QED  BY <1>3, <1>5, <4>7, <5>1
      <4>9. r.current \in DOMAIN r.bank_sets /\ r.current # s /\ DOMAIN r.bank_sets # {}
        BY <4>1, <4>7
      <4>10. \A j \in DOMAIN r.bank_sets : Good(r.bank_sets[j])  BY <4>7 DEF SetsGood
      <4>11. \A j \in DOMAIN r.bank_sets : j # s /\ j # r.current => Dark(r.bank_sets[j])
        BY <4>7 DEF OthersDark
      <4>12. Lit(r.bank_sets[r.current], r.shown) /\ AllOn(r.bank_sets[r.current])  BY <4>7
      <4>13. Sound(PopSet(r)) /\ PopSet(r).required = r.required
        BY <4>7, <4>8, <4>9, <4>10, <4>11, <4>12, PopSound
      <4>14. Due(PopSet(r))  BY <4>7, <4>13 DEF Due
      <4> QED  BY <3>1, <3>4, <4>13, <4>14 DEF r
    <3>5. CASE i = d.current /\ ~(s > 1)
      <4> DEFINE r == Deactivate(d1, i, 0)
      <4>1. s = 1 /\ i = 1  BY <1>5, <2>5, <2>1, <3>5
      <4>2. OnlyActiveBank(d1.bank_sets[i])  BY <1>3, <2>3, <3>5, LitIsOnly
      <4>3. Good(d1.bank_sets[i]) /\ i \in DOMAIN d1.bank_sets  BY <1>3, <2>1, <3>2 DEF SetsGood
      <4>4. Darkened(d1, i, r, 0)  BY <1>2, <4>2, <4>3, DeactivateDarkens
      <4> HIDE DEF r
      <4>5. r \in Desk /\ r.current = d1.current /\ DOMAIN r.bank_sets = DOMAIN d1.bank_sets
            /\ r.modified = d1.modified
        BY <4>4 DEF Darkened, SameBut
      <4>6. s = Len(r.bank_sets)
        <5>1. r.bank_sets \in Seq(BankSet)  BY <4>5 DEF Desk
        <5> QED  BY <1>3, <1>5, <4>5, <5>1
      <4>7. DOMAIN r.bank_sets = {1} /\ r.current = 1
        <5>1. DOMAIN r.bank_sets = 1..s /\ r.current = i  BY <1>3, <1>5, <3>5, <4>5
        <5>2. 1..1 = {1}  OBVIOUS
        <5> QED  BY <5>1, <5>2, <4>1
      <4>8. Sound(PopSet(r)) /\ PopSet(r).modified = r.modified
        BY <4>1, <4>5, <4>6, <4>7, PopSound
      <4>9. Due(PopSet(r))  BY <1>3, <4>5, <4>8 DEF Due
      <4> QED  BY <3>1, <3>5, <2>5, <4>8, <4>9 DEF r
    <3> QED  BY <3>3, <3>4, <3>5
  <2> QED  BY <1>5, <1>7, <2>4, <2>5
<1> QED  BY <1>5, <1>6, <1>7

Shape == [id : ColumnIds, mode : STRING]

\* A set as a client sends it: dark, of unique columns, none in ready mode.
LEMMA CreatedGood ==
  ASSUME NEW def \in Definitions, Fits(def), NEW bs, NEW id \in SetIds, NEW b \in Int,
         bs = [id |-> id, active_bank |-> b, fader_banks |-> Created(def), ready |-> {}]
  PROVE  bs \in BankSet /\ Good(bs) /\ Dark(bs)
<1> DEFINE new == Created(def)
           room(x) == IF Devices = 0 THEN 0 ELSE Len(def[x])
<1>1. /\ def \in Seq(Seq(Shape)) /\ Width \in Nat \ {0} /\ Devices \in Nat
      /\ \A x, c \in DOMAIN def : \A k \in DOMAIN def[x], l \in DOMAIN def[c] :
           def[x][k].id = def[c][l].id => x = c /\ k = l
  BY DeskAssumption DEF Shape
<1>2. DOMAIN new = DOMAIN def /\ \A x \in DOMAIN new : DOMAIN new[x] = 1..room(x)
  BY DEF Created
<1>3. \A x \in DOMAIN def : def[x] \in Seq(Shape) /\ Len(def[x]) \in Nat
                            /\ DOMAIN def[x] = 1..Len(def[x])
  BY <1>1
<1>4. \A x \in DOMAIN def : room(x) \in Nat /\ 1..room(x) \subseteq DOMAIN def[x]
  BY <1>1, <1>3
<1>5. ASSUME NEW x \in DOMAIN new, NEW k \in DOMAIN new[x]
      PROVE  /\ new[x][k] \in Column /\ new[x][k].id = def[x][k].id /\ k \in DOMAIN def[x]
             /\ ~new[x][k].active /\ ~new[x][k].ready
  <2>0. x \in DOMAIN def /\ k \in 1..room(x)  BY <1>2
  <2>1. k \in DOMAIN def[x] /\ def[x][k] \in Shape
    <3>1. k \in DOMAIN def[x]  BY <2>0, <1>4
    <3>2. def[x] \in Seq(Shape)  BY <2>0, <1>3
    <3> QED  BY <3>1, <3>2
  <2>2. new[x][k] = [id |-> def[x][k].id, mode |-> def[x][k].mode,
                     active |-> FALSE, ready |-> FALSE, select |-> FALSE]
    BY <1>2 DEF Created
  <2> QED  BY <2>1, <2>2 DEF Column, Shape
<1>6. new \in Banks
  <2>1. \A x \in DOMAIN new : new[x] \in Seq(Column)
    <3> SUFFICES ASSUME NEW x \in DOMAIN new PROVE new[x] \in Seq(Column)
      OBVIOUS
    <3>1. new[x] = [k \in 1..room(x) |-> new[x][k]]  BY <1>2 DEF Created
    <3>2. \A k \in 1..room(x) : new[x][k] \in Column  BY <1>2, <1>5
    <3>3. room(x) \in Nat  BY <1>2, <1>4
    <3> HIDE DEF new, room
    <3> QED  BY <3>1, <3>2, <3>3
  <2>2. new = [x \in DOMAIN def |-> new[x]]  BY DEF Created
  <2>3. def \in Seq(Seq(Shape)) /\ DOMAIN new = DOMAIN def  BY <1>1, <1>2
  <2> HIDE DEF new
  <2>4. new \in Seq(Seq(Column))  BY <2>1, <2>2, <2>3, SeqLike
  <2> QED  BY <2>4 DEF Banks
<1>7. \A x \in DOMAIN new : DOMAIN new[x] \subseteq Positions
  <2> SUFFICES ASSUME NEW x \in DOMAIN new PROVE 1..room(x) \subseteq Positions
    BY <1>2
  <2>1. x \in DOMAIN def /\ Len(def[x]) \in Nat  BY <1>2, <1>3
  <2>2. Devices = 0 \/ Len(def[x]) <= Width * Devices  BY <2>1 DEF Fits
  <2>3. Width * Devices \in Nat  BY <1>1
  <2> HIDE DEF new
  <2>4. room(x) = 0 \/ room(x) <= Width * Devices  BY <2>1, <2>2
  <2>5. room(x) \in Nat  BY <2>1, <1>4
  <2> DEFINE m == Width * Devices
  <2> HIDE DEF m, room
  <2> SUFFICES 1..room(x) \subseteq 1..m  BY DEF Positions, m
  <2> QED  BY <2>3, <2>4, <2>5 DEF m
<1>8. bs.fader_banks = new /\ bs.ready = {}  OBVIOUS
<1>9. bs \in BankSet  BY <1>6 DEF BankSet
<1> HIDE DEF new
<1>10. Fitting(bs)  BY <1>7, <1>8 DEF Fitting
<1>11. OnceEach(bs)
  <2> SUFFICES ASSUME NEW x \in DOMAIN new, NEW y \in DOMAIN new, NEW k \in DOMAIN new[x], NEW l \in DOMAIN new[y],
                      new[x][k].id = new[y][l].id
               PROVE  x = y /\ k = l
    BY <1>8 DEF OnceEach
  <2>1. def[x][k].id = def[y][l].id /\ k \in DOMAIN def[x] /\ l \in DOMAIN def[y]  BY <1>5
  <2>2. x \in DOMAIN def /\ y \in DOMAIN def  BY <1>2
  <2> QED  BY <1>1, <2>1, <2>2
<1>12. Dark(bs)  BY <1>5, <1>8 DEF Dark
<1>13. ReadyExact(bs)
  <2>1. /\ \A x \in DOMAIN bs.fader_banks : \A k \in DOMAIN bs.fader_banks[x] :
             bs.fader_banks[x][k].ready => bs.fader_banks[x][k].id \in bs.ready
        /\ \A x \in bs.ready : \E c \in DOMAIN bs.fader_banks : \E k \in DOMAIN bs.fader_banks[c] :
             bs.fader_banks[c][k].ready /\ bs.fader_banks[c][k].id = x
    BY <1>5, <1>8
  <2> QED  BY <1>9, <2>1, ReadyFlat
<1> QED  BY <1>9, <1>10, <1>11, <1>12, <1>13 DEF Good

\* A set is added, or another is put in its place.
LEMMA PlacedSound ==
  ASSUME NEW d, Sound(d), NEW r \in Desk, NEW i \in DOMAIN r.bank_sets, r.current = d.current, r.modified,
         r.shown = d.shown, DOMAIN r.bank_sets = DOMAIN d.bank_sets \union {i},
         \A j \in DOMAIN d.bank_sets : j # i => r.bank_sets[j] = d.bank_sets[j],
         Good(r.bank_sets[i]), Dark(r.bank_sets[i]), i \in DOMAIN d.bank_sets \/ DOMAIN d.bank_sets # {} \/ i = 1
  PROVE  Sound(r)
<1> USE DEF Sound
<1>1. \A j \in DOMAIN r.bank_sets : j # i => j \in DOMAIN d.bank_sets /\ r.bank_sets[j] = d.bank_sets[j]
  OBVIOUS
<1>2. SetsGood(r)  BY <1>1 DEF SetsGood
<1>3. OthersDark(r)  BY <1>1 DEF OthersDark
<1>4. HasCurrent(r)
  <2>1. CASE DOMAIN d.bank_sets # {}  BY <2>1 DEF HasCurrent, CurrentValid
  <2>2. CASE DOMAIN d.bank_sets = {}  BY <2>2 DEF StartsOver, HasCurrent, CurrentValid
  <2> QED  BY <2>1, <2>2
<1>5. StartsOver(r) /\ AllLit(r)  BY DEF StartsOver, AllLit
<1>6. CurrentLit(r)
  <2>1. CASE r.current = i
    <3>1. Lit(r.bank_sets[i], r.shown)  BY DarkIsLit
    <3> QED  BY <2>1, <3>1 DEF CurrentLit, Current
  <2>2. CASE r.current # i
    BY <2>2, <1>1 DEF CurrentLit, Current, CurrentValid
  <2> QED  BY <2>1, <2>2
<1> QED  BY <1>2, <1>3, <1>4, <1>5, <1>6

\* What becomes of the desk a with the definition in the place j.
PlacedIn(a, j, def, b) ==
  [a EXCEPT !.modified = TRUE,
            !.bank_sets[j] = [id |-> @.id, active_bank |-> b, fader_banks |-> Created(def), ready |-> {}]]
Placing(d, a, j, def, b) ==
  IF j > Len(a.bank_sets) THEN Crash(d, "set")
  ELSE IF ~Fits(def) THEN Crash(d, "device")
  ELSE IF Len(PlacedIn(a, j, def, b).bank_sets) = 1 THEN SetActiveBankSet(PlacedIn(a, j, def, b), 1)
  ELSE PlacedIn(a, j, def, b)
Appended(d, id, j) ==
  [d EXCEPT !.bank_sets = Append(@, [id |-> id]),
            !.index_map = [k \in DOMAIN @ \union {id} |-> IF k = id THEN j ELSE @[k]]]

\* desk::add_bank_set, by whether the id is in the index map.
LEMMA AddPlaces ==
  ASSUME NEW d, NEW id, NEW def, NEW b
  PROVE  /\ id \in DOMAIN d.index_map =>
              AddBankSet(d, id, def, b) = Placing(d, d, d.index_map[id], def, b)
         /\ id \notin DOMAIN d.index_map =>
              AddBankSet(d, id, def, b) = Placing(d, Appended(d, id, Len(d.bank_sets) + 1),
                                                  Len(d.bank_sets) + 1, def, b)
<1> DEFINE upd == id \in DOMAIN d.index_map
           i == IF upd THEN d.index_map[id] ELSE Len(d.bank_sets) + 1
           a == IF upd THEN d ELSE Appended(d, id, i)
<1>1. AddBankSet(d, id, def, b) = Placing(d, a, i, def, b)
  BY Zenon DEF AddBankSet, Placing, PlacedIn, Appended
<1>2. upd => i = d.index_map[id] /\ a = d  OBVIOUS
<1>3. ~upd => i = Len(d.bank_sets) + 1 /\ a = Appended(d, id, i)  OBVIOUS
<1> HIDE DEF i, a
<1> QED  BY <1>1, <1>2, <1>3, Zenon

\* desk::add_bank_set: a set is added, replaced or refused.
LEMMA AddSound ==
  ASSUME NEW d, Sound(d), NEW id \in SetIds, NEW def \in Definitions, NEW b \in Int
  PROVE  LET r == AddBankSet(d, id, def, b)
         IN Sound(r) /\ (r = Crash(d, "set") \/ r = Crash(d, "device") \/ Due(r))
<1>1. d \in Desk /\ d.bank_sets \in Seq(BankSet) /\ Len(d.bank_sets) \in Nat
      /\ DOMAIN d.bank_sets = 1..Len(d.bank_sets)
  BY DEF Sound, Desk
<1> DEFINE len == Len(d.bank_sets)
           r == AddBankSet(d, id, def, b)
           placed(x) == [id |-> x, active_bank |-> b, fader_banks |-> Created(def), ready |-> {}]
<1>2. ASSUME NEW e, Sound(e), e.modified
      PROVE  LET x == IF Len(e.bank_sets) = 1 THEN SetActiveBankSet(e, 1) ELSE e
             IN Sound(x) /\ Due(x)
  BY <1>2, SwitchSound DEF Due
<1>3. CASE id \in DOMAIN d.index_map
  <2> DEFINE i == d.index_map[id]
             bs == placed(d.bank_sets[i].id)
             sets == [d.bank_sets EXCEPT ![i] = bs]
             d1 == [[d EXCEPT !.modified = TRUE] EXCEPT !.bank_sets = sets]
  <2>1. i \in Nat \ {0}  BY <1>1, <1>3 DEF Desk, IndexMaps
  <2>2. CASE i > len
    <3>1. r = Crash(d, "set")  BY <1>3, <2>2, AddPlaces, Zenon DEF Placing
    <3> QED  BY <3>1, CrashSound
  <2>3. CASE ~(i > len) /\ ~Fits(def)
    <3>1. r = Crash(d, "device")  BY <1>3, <2>3, AddPlaces, Zenon DEF Placing
    <3> QED  BY <3>1, CrashSound
  <2>4. CASE ~(i > len) /\ Fits(def)
    <3> DEFINE e == PlacedIn(d, i, def, b)
    <3>1. r = IF Len(e.bank_sets) = 1 THEN SetActiveBankSet(e, 1) ELSE e
      BY <1>3, <2>4, AddPlaces, ZenonT(60) DEF Placing
    <3>2. i \in DOMAIN d.bank_sets  BY <1>1, <2>1, <2>4
    <3>3. e = d1  BY <1>1 DEF Desk, PlacedIn
    <3> HIDE DEF e, r, i
    <3>10. d.bank_sets[i] \in BankSet  BY <1>1, <3>2
    <3>4. d.bank_sets[i].id \in SetIds  BY <3>10 DEF BankSet
    <3>5. bs \in BankSet /\ Good(bs) /\ Dark(bs)  BY <2>4, <3>4, CreatedGood
    <3> HIDE DEF bs
    <3>6. sets \in Seq(BankSet) /\ DOMAIN sets = DOMAIN d.bank_sets /\ sets[i] = bs
          /\ \A j \in DOMAIN d.bank_sets : j # i => sets[j] = d.bank_sets[j]
      BY <1>1, <3>2, <3>5
    <3> HIDE DEF sets
    <3>7. d1 \in Desk  BY <1>1, <3>6, Setters
    <3>8. d1.bank_sets = sets /\ d1.current = d.current /\ d1.modified = TRUE /\ d1.shown = d.shown
      BY <1>1 DEF Desk
    <3> HIDE DEF d1
    <3>9. Sound(d1)  BY <3>2, <3>5, <3>6, <3>7, <3>8, PlacedSound
    <3> QED  BY <1>2, <3>1, <3>3, <3>8, <3>9 DEF r
  <2> QED  BY <2>2, <2>3, <2>4
<1>4. CASE id \notin DOMAIN d.index_map
  <2> DEFINE i == len + 1
             bs == placed(id)
             sets == Append(d.bank_sets, bs)
             map == [k \in DOMAIN d.index_map \union {id} |-> IF k = id THEN i ELSE d.index_map[k]]
             d1 == [[[d EXCEPT !.bank_sets = sets] EXCEPT !.index_map = map] EXCEPT !.modified = TRUE]
             a == Appended(d, id, i)
             e == PlacedIn(a, i, def, b)
  <2>1. r = IF i > Len(a.bank_sets) THEN Crash(d, "set")
            ELSE IF ~Fits(def) THEN Crash(d, "device")
            ELSE IF Len(e.bank_sets) = 1 THEN SetActiveBankSet(e, 1) ELSE e
    BY <1>4, AddPlaces, Zenon DEF Placing
  <2>2. CASE i > Len(a.bank_sets)
    <3>1. r = Crash(d, "set")  BY <2>1, <2>2
    <3> QED  BY <3>1, CrashSound
  <2>3. CASE ~(i > Len(a.bank_sets)) /\ ~Fits(def)
    <3>1. r = Crash(d, "device")  BY <2>1, <2>3
    <3> QED  BY <3>1, CrashSound
  <2>4. CASE ~(i > Len(a.bank_sets)) /\ Fits(def)
    <3>1. bs \in BankSet /\ Good(bs) /\ Dark(bs)  BY <2>4, CreatedGood
    <3>2. e = d1
      <4> DEFINE ap == Append(d.bank_sets, [id |-> id])
                 setsE == [ap EXCEPT ![i] = placed(ap[i].id)]
      <4>2. e = [[[d EXCEPT !.bank_sets = setsE] EXCEPT !.index_map = map] EXCEPT !.modified = TRUE]
        <5> HIDE DEF map
        <5>1. a = [[d EXCEPT !.bank_sets = ap] EXCEPT !.index_map = map]  BY <1>1 DEF Desk, map, Appended
        <5> HIDE DEF a, ap
        <5> QED  BY <1>1, <5>1 DEF Desk, PlacedIn
      <4>3. ap[i] = [id |-> id]  BY <1>1
      <4>6. ap[i].id = id  BY <4>3
      <4>4. setsE = [ap EXCEPT ![i] = bs]  BY <4>6, Zenon
      <4>5. [ap EXCEPT ![i] = bs] = sets
        <5> HIDE DEF bs
        <5>1. d.bank_sets \in Seq(BankSet \union {[id |-> id]})  BY <1>1
        <5>2. ap \in Seq(BankSet \union {[id |-> id]}) /\ DOMAIN ap = 1..(len + 1)  BY <1>1, <5>1
        <5>3. DOMAIN sets = 1..(len + 1) /\ sets = [j \in 1..(len + 1) |-> IF j = len + 1 THEN bs ELSE d.bank_sets[j]]
          BY <1>1, <3>1 DEF bs
        <5>4. \A j \in 1..(len + 1) : j # len + 1 => ap[j] = d.bank_sets[j]  BY <1>1
        <5>6. i \in 1..(len + 1) /\ i = len + 1  BY <1>1
        <5> HIDE DEF ap, sets, i
        <5>5. [ap EXCEPT ![i] = bs] = [j \in 1..(len + 1) |-> IF j = len + 1 THEN bs ELSE d.bank_sets[j]]
          BY <5>2, <5>4, <5>6
        <5> QED  BY <5>3, <5>5
      <4> HIDE DEF e, setsE, sets, map, ap
      <4> QED  BY <4>2, <4>4, <4>5
    <3> HIDE DEF bs, e, r
    <3>3. sets \in Seq(BankSet) /\ DOMAIN sets = DOMAIN d.bank_sets \union {i} /\ sets[i] = bs
          /\ \A j \in DOMAIN d.bank_sets : sets[j] = d.bank_sets[j]
      BY <1>1, <3>1
    <3>4. map \in IndexMaps  
      <4>1. PICK S \in SUBSET SetIds : d.index_map \in [S -> Nat \ {0}]  BY <1>1 DEF Desk, IndexMaps
      <4>2. map \in [S \union {id} -> Nat \ {0}] /\ S \union {id} \in SUBSET SetIds  BY <1>1, <4>1
      <4> HIDE DEF map
      <4> QED  BY <4>2 DEF IndexMaps
    <3> HIDE DEF sets, map
    <3>5. d1 \in Desk  BY <1>1, <3>3, <3>4, Setters
    <3>6. d1.bank_sets = sets /\ d1.current = d.current /\ d1.modified = TRUE /\ d1.shown = d.shown
      BY <1>1 DEF Desk
    <3> HIDE DEF d1
    <3>7. DOMAIN d.bank_sets # {} \/ i = 1
      <4>1. CASE len = 0  BY <4>1
      <4>2. CASE len # 0
        <5>1. 1 \in 1..len  BY <1>1, <4>2
        <5> QED  BY <1>1, <5>1
      <4> QED  BY <4>1, <4>2
    <3> HIDE DEF i
    <3>8. Sound(d1)  BY <3>1, <3>3, <3>5, <3>6, <3>7, PlacedSound
    <3>9. Sound(e) /\ e.modified  BY <3>2, <3>6, <3>8
    <3>10. r = IF Len(e.bank_sets) = 1 THEN SetActiveBankSet(e, 1) ELSE e  BY <2>1, <2>4
    <3> QED  BY <1>2, <3>9, <3>10 DEF r
  <2> QED  BY <2>2, <2>3, <2>4
<1> QED  BY <1>3, <1>4

-----------------------------------------------------------------------------
(* Ready mode and selection.                                                 *)
ShapedLike(old, new) == new = [b \in DOMAIN old |-> [k \in DOMAIN old[b] |-> new[b][k]]]
SameColumns(old, new) ==
  \A b \in DOMAIN old : \A k \in DOMAIN old[b] :
    new[b][k] \in Column /\ new[b][k].id = old[b][k].id /\ new[b][k].active = old[b][k].active

\* A change column by column reshapes the banks.
LEMMA ReshapedWhen ==
  ASSUME NEW bs \in BankSet, NEW new, ShapedLike(bs.fader_banks, new), SameColumns(bs.fader_banks, new)
  PROVE  Reshaped(bs.fader_banks, new)
<1> DEFINE old == bs.fader_banks
<1>1. old \in Seq(Seq(Column))  BY DEF BankSet, Banks
<1> HIDE DEF old
<1>2. new = [b \in DOMAIN old |-> [k \in DOMAIN old[b] |-> new[b][k]]]
      /\ \A b \in DOMAIN old : \A k \in DOMAIN old[b] : new[b][k] \in Column /\ new[b][k].id = old[b][k].id
  BY DEF old, ShapedLike, SameColumns
<1>3. DOMAIN new = DOMAIN old /\ \A b \in DOMAIN new : DOMAIN new[b] = DOMAIN old[b]  BY <1>2
<1>4. new \in Banks
  <2>1. \A b \in DOMAIN old : new[b] \in Seq(Column)
    <3> SUFFICES ASSUME NEW b \in DOMAIN old PROVE new[b] \in Seq(Column)
      OBVIOUS
    <3>1. old[b] \in Seq(Column)  BY <1>1
    <3>2. new[b] = [k \in DOMAIN old[b] |-> new[b][k]]  BY <1>2
    <3>3. \A k \in DOMAIN old[b] : new[b][k] \in Column  BY <1>2
    <3> QED  BY <3>1, <3>2, <3>3, SeqLike
  <2>2. new = [b \in DOMAIN old |-> new[b]]
    <3>1. \A b \in DOMAIN old : new[b] = [k \in DOMAIN old[b] |-> new[b][k]]  BY <1>2
    <3> QED  BY <1>2, <3>1, Zenon
  <2> QED  BY <1>1, <2>1, <2>2, SeqLike DEF Banks
<1>5. \A b \in DOMAIN new : \A k \in DOMAIN new[b] : new[b][k].id = old[b][k].id
  BY <1>2, <1>3
<1> QED  BY <1>3, <1>4, <1>5 DEF Reshaped, old

\* Columns of the current set change, and none becomes active or inactive.
Relit(d, i, new, r) ==
  /\ i = d.current /\ i \in DOMAIN d.bank_sets
  /\ Reshaped(d.bank_sets[i].fader_banks, new) /\ SameColumns(d.bank_sets[i].fader_banks, new)
  /\ r \in Desk /\ r.current = i /\ r.modified = d.modified /\ r.shown = Put(d, i, new).shown
  /\ DOMAIN r.bank_sets = DOMAIN d.bank_sets
  /\ \A j \in DOMAIN d.bank_sets : j # i => r.bank_sets[j] = d.bank_sets[j]
  /\ r.bank_sets[i].fader_banks = new /\ r.bank_sets[i].active_bank = d.bank_sets[i].active_bank
  /\ \A b \in DOMAIN new : \A k \in DOMAIN new[b] :
       new[b][k].ready => new[b][k].id \in r.bank_sets[i].ready
  /\ \A x \in r.bank_sets[i].ready : \E b \in DOMAIN new : \E k \in DOMAIN new[b] :
       new[b][k].ready /\ new[b][k].id = x

\* Such a change keeps the desk sound if the ready set follows.
LEMMA RelitSound ==
  ASSUME NEW d, Sound(d), NEW i, NEW new, NEW r, Relit(d, i, new, r)
  PROVE  Sound(r)
<1> DEFINE bs == d.bank_sets[i]
           rs == r.bank_sets[i]
<1>0. /\ i = d.current /\ i \in DOMAIN d.bank_sets
      /\ r \in Desk /\ r.current = i /\ r.modified = d.modified /\ r.shown = Put(d, i, new).shown
      /\ DOMAIN r.bank_sets = DOMAIN d.bank_sets
      /\ \A j \in DOMAIN d.bank_sets : j # i => r.bank_sets[j] = d.bank_sets[j]
  BY DEF Relit
<1>1. d \in Desk /\ Good(bs) /\ Lit(bs, d.shown) /\ (d.modified \/ AllOn(bs)) /\ bs \in BankSet
  BY <1>0 DEF Sound, SetsGood, CurrentLit, AllLit, CurrentValid, Current, Desk
<1>2. rs \in BankSet  BY <1>0 DEF Desk
<1>12. rs.fader_banks = new /\ rs.active_bank = bs.active_bank /\ Reshaped(bs.fader_banks, new)
       /\ SameColumns(bs.fader_banks, new)
  BY DEF Relit
<1>3. rs.fader_banks = new /\ rs.active_bank = bs.active_bank /\ Reshaped(bs.fader_banks, new)
      /\ \A b \in DOMAIN new : \A k \in DOMAIN new[b] : new[b][k].active = bs.fader_banks[b][k].active
  <2> HIDE DEF rs, bs
  <2> QED  BY <1>12 DEF Reshaped, SameColumns
<1>4. /\ \A b \in DOMAIN new : \A k \in DOMAIN new[b] : new[b][k].ready => new[b][k].id \in rs.ready
      /\ \A x \in rs.ready : \E b \in DOMAIN new : \E k \in DOMAIN new[b] :
           new[b][k].ready /\ new[b][k].id = x
  BY DEF Relit
<1>5. DOMAIN new = DOMAIN bs.fader_banks /\ \A b \in DOMAIN new : DOMAIN new[b] = DOMAIN bs.fader_banks[b]
  BY <1>3 DEF Reshaped
<1>6. Lit(Put(d, i, new).bank_sets[i], Put(d, i, new).shown)
  <2>1. \A b \in DOMAIN new : \A k \in DOMAIN new[b] : new[b][k].active => b = bs.active_bank
    <3> HIDE DEF bs
    <3> QED  BY <1>1, <1>3, <1>5 DEF Lit
  <2>2. Fitting(bs)  BY <1>1 DEF Good
  <2> QED  BY <1>0, <1>1, <1>3, <2>1, <2>2, PutLights
<1>7. Put(d, i, new).bank_sets[i].fader_banks = new /\ Put(d, i, new).bank_sets[i].active_bank = bs.active_bank
  <2>1. Fitting(bs)  BY <1>1 DEF Good
  <2> QED  BY <1>0, <1>1, <1>3, <2>1, PutFields
<1>8. Lit(rs, r.shown)
  <2> DEFINE ps == Put(d, i, new).bank_sets[i]
             sh == Put(d, i, new).shown
  <2>1. Lit(ps, sh) /\ ps.fader_banks = rs.fader_banks /\ ps.active_bank = rs.active_bank /\ sh = r.shown
    BY <1>0, <1>3, <1>6, <1>7
  <2> HIDE DEF ps, sh, rs
  <2> QED  BY <2>1 DEF Lit
<1> HIDE DEF rs, bs
<1>9. d.modified \/ AllOn(rs)  BY <1>1, <1>3, <1>5 DEF AllOn
<1>10. Fitting(rs) /\ OnceEach(rs)  BY <1>1, <1>2, <1>3, ReshapedKeeps DEF Good
<1>11. ReadyExact(rs)  BY <1>2, <1>3, <1>4, ReadyFlat
<1>13. Good(rs)  BY <1>10, <1>11 DEF Good
<1> QED  BY <1>0, <1>8, <1>9, <1>13, SoundLit DEF rs

Toggled(bs, id, state) ==
  [b \in DOMAIN bs.fader_banks |-> [k \in DOMAIN bs.fader_banks[b] |->
     IF b = bs.active_bank /\ bs.fader_banks[b][k].id = id
     THEN [bs.fader_banks[b][k] EXCEPT !.ready = state] ELSE bs.fader_banks[b][k]]]
Committed(bs) ==
  [b \in DOMAIN bs.fader_banks |-> [k \in DOMAIN bs.fader_banks[b] |->
     IF bs.fader_banks[b][k].id \in bs.ready
     THEN [bs.fader_banks[b][k] EXCEPT !.ready = FALSE] ELSE bs.fader_banks[b][k]]]
Chosen(bs, selected, chosen) ==
  [b \in DOMAIN bs.fader_banks |-> [k \in DOMAIN bs.fader_banks[b] |->
     IF bs.fader_banks[b][k].id \in {selected, chosen}
     THEN [bs.fader_banks[b][k] EXCEPT !.select = (bs.fader_banks[b][k].id = chosen)] ELSE bs.fader_banks[b][k]]]

\* The ready set of the current set follows its columns.
ReadyPut(e, i, R, r) ==
  /\ r \in Desk /\ r.current = e.current /\ r.modified = e.modified /\ r.shown = e.shown
  /\ r.index_map = e.index_map /\ DOMAIN r.bank_sets = DOMAIN e.bank_sets
  /\ \A j \in DOMAIN e.bank_sets : j # i => r.bank_sets[j] = e.bank_sets[j]
  /\ r.bank_sets[i].fader_banks = e.bank_sets[i].fader_banks
  /\ r.bank_sets[i].active_bank = e.bank_sets[i].active_bank
  /\ r.bank_sets[i].id = e.bank_sets[i].id
  /\ r.bank_sets[i].ready = R /\ r.required = e.required /\ r.selected = e.selected
  /\ r.crashed = e.crashed

\* The ready set is one member of one set.
LEMMA WithReady ==
  ASSUME NEW e \in Desk, NEW i \in DOMAIN e.bank_sets, NEW R \in SUBSET ColumnIds
  PROVE  ReadyPut(e, i, R, [e EXCEPT !.bank_sets[i].ready = R])
<1> DEFINE bs == [e.bank_sets[i] EXCEPT !.ready = R]
           sets == [e.bank_sets EXCEPT ![i] = bs]
           r == [e EXCEPT !.bank_sets[i].ready = R]
<1>1. e.bank_sets \in Seq(BankSet) /\ e.bank_sets[i] \in BankSet  BY DEF Desk
<1>2. bs \in BankSet /\ bs.fader_banks = e.bank_sets[i].fader_banks
      /\ bs.active_bank = e.bank_sets[i].active_bank /\ bs.ready = R /\ bs.id = e.bank_sets[i].id
  BY <1>1 DEF BankSet
<1>3. r = [e EXCEPT !.bank_sets = sets]  OBVIOUS
<1> HIDE DEF bs
<1>4. sets \in Seq(BankSet) /\ DOMAIN sets = DOMAIN e.bank_sets /\ sets[i] = bs
      /\ \A j \in DOMAIN e.bank_sets : j # i => sets[j] = e.bank_sets[j]
  BY <1>1, <1>2
<1> HIDE DEF sets, r
<1>5. r \in Desk  BY <1>3, <1>4, Setters
<1>6. r.bank_sets = sets /\ r.current = e.current /\ r.modified = e.modified /\ r.shown = e.shown
      /\ r.index_map = e.index_map
      /\ r.required = e.required /\ r.selected = e.selected /\ r.crashed = e.crashed
  BY <1>3 DEF Desk
<1>7. ReadyPut(e, i, R, r)  BY <1>2, <1>4, <1>5, <1>6 DEF ReadyPut
<1> QED  BY <1>7 DEF r

\* bank_set::commit_readymode.
LEMMA CommitSound ==
  ASSUME NEW d, Sound(d)
  PROVE  Sound(CommitReadymode(d)) /\ Announced(CommitReadymode(d)) = Announced(d)
<1> DEFINE i == d.current
           bs == d.bank_sets[i]
           new == Committed(bs)
           e == Put(d, i, new)
           r == [e EXCEPT !.bank_sets[i].ready = {}]
<1>1. CASE ~CurrentValid(d)  BY <1>1 DEF CommitReadymode
<1>2. CASE CurrentValid(d)
  <2>1. CommitReadymode(d) = r
    BY <1>2, Zenon DEF CommitReadymode, Change, Put, LitAs, Committed, Current
  <2>2. i \in DOMAIN d.bank_sets /\ d \in Desk  BY <1>2 DEF CurrentValid, Sound
  <2>3. bs \in BankSet /\ Good(bs)  BY <2>2 DEF Desk, Sound, SetsGood
  <2>4. ASSUME NEW b \in DOMAIN bs.fader_banks, NEW k \in DOMAIN bs.fader_banks[b]
        PROVE  /\ new[b][k] \in Column /\ new[b][k].id = bs.fader_banks[b][k].id
               /\ new[b][k].active = bs.fader_banks[b][k].active
               /\ ~new[b][k].ready
    <3> DEFINE c == bs.fader_banks[b][k]
    <3>1. c \in Column
      <4> HIDE DEF bs
      <4> QED  BY <2>3, BanksTyped
    <3>2. c.ready => c.id \in bs.ready
      <4> HIDE DEF bs
      <4> QED  BY <2>3, ReadyFlat DEF Good
    <3>3. new[b][k] = IF c.id \in bs.ready THEN [c EXCEPT !.ready = FALSE] ELSE c  BY DEF Committed
    <3> HIDE DEF c, new, bs
    <3> QED  BY <3>1, <3>2, <3>3 DEF Column, c
  <2>5. ShapedLike(bs.fader_banks, new)  BY DEF Committed, ShapedLike
  <2> HIDE DEF new, bs
  <2>6. Reshaped(bs.fader_banks, new) /\ SameColumns(bs.fader_banks, new)
    <3>1. SameColumns(bs.fader_banks, new)  BY <2>4 DEF SameColumns
    <3> QED  BY <2>3, <2>5, <3>1, ReshapedWhen
  <2>7. DOMAIN new = DOMAIN bs.fader_banks /\ \A b \in DOMAIN new : DOMAIN new[b] = DOMAIN bs.fader_banks[b]
    BY <2>6 DEF Reshaped
  <2>8. Fitting(bs)  BY <2>3 DEF Good
  <2>9. SameBut(d, e, i) /\ e.bank_sets[i].fader_banks = new /\ e.bank_sets[i].active_bank = bs.active_bank
    BY <2>2, <2>6, <2>8, PutFields DEF bs
  <2>19. e.bank_sets[i].id = bs.id  BY <2>2, <2>6, <2>8, PutFields DEF bs
  <2>10. e \in Desk /\ i \in DOMAIN e.bank_sets  BY <2>2, <2>9 DEF SameBut
  <2> HIDE DEF e
  <2>11. /\ r \in Desk /\ r.current = e.current /\ r.modified = e.modified /\ r.shown = e.shown
         /\ DOMAIN r.bank_sets = DOMAIN e.bank_sets
         /\ \A j \in DOMAIN e.bank_sets : j # i => r.bank_sets[j] = e.bank_sets[j]
         /\ r.bank_sets[i].fader_banks = e.bank_sets[i].fader_banks
         /\ r.bank_sets[i].active_bank = e.bank_sets[i].active_bank
         /\ r.bank_sets[i].ready = {}
         /\ r.bank_sets[i].id = e.bank_sets[i].id /\ r.selected = e.selected
    <3>1. {} \in SUBSET ColumnIds  OBVIOUS
    <3>2. ReadyPut(e, i, {}, r)  BY <2>10, <3>1, WithReady, Zenon
    <3> HIDE DEF r
    <3> QED  BY <3>2 DEF ReadyPut
  <2> HIDE DEF r
  <2>12. /\ r.current = i /\ r.modified = d.modified /\ DOMAIN r.bank_sets = DOMAIN d.bank_sets
         /\ \A j \in DOMAIN d.bank_sets : j # i => r.bank_sets[j] = d.bank_sets[j]
         /\ r.bank_sets[i].fader_banks = new /\ r.bank_sets[i].active_bank = bs.active_bank
    BY <2>9, <2>11 DEF SameBut
  <2>13. /\ \A b \in DOMAIN new : \A k \in DOMAIN new[b] : new[b][k].ready => new[b][k].id \in r.bank_sets[i].ready
         /\ \A x \in r.bank_sets[i].ready : \E b \in DOMAIN new : \E k \in DOMAIN new[b] :
              new[b][k].ready /\ new[b][k].id = x
    BY <2>4, <2>7, <2>11
  <2>15. r.shown = Put(d, i, new).shown  BY <2>11 DEF e
  <2>16. Relit(d, i, new, r)  BY <2>2, <2>6, <2>11, <2>12, <2>13, <2>15 DEF Relit, bs
  <2>17. Sound(r)  BY <2>16, RelitSound
  <2>18. Announced(r) = Announced(d)
    <3>1. r.bank_sets[i].id = bs.id /\ r.selected = d.selected
      BY <2>9, <2>11, <2>19 DEF SameBut
    <3>2. CurrentValid(r) /\ Current(r) = r.bank_sets[i] /\ Current(d) = bs
      BY <2>2, <2>12 DEF CurrentValid, Current, bs
    <3> QED  BY <1>2, <2>12, <3>1, <3>2 DEF Announced
  <2> QED  BY <2>1, <2>17, <2>18
<1> QED  BY <1>1, <1>2

\* What Change does, for a change column by column.
LEMMA ColumnsChange ==
  ASSUME NEW d, Sound(d), NEW i, i = d.current, i \in DOMAIN d.bank_sets, NEW new,
         ShapedLike(d.bank_sets[i].fader_banks, new), SameColumns(d.bank_sets[i].fader_banks, new)
  PROVE  /\ Reshaped(d.bank_sets[i].fader_banks, new) /\ SameBut(d, Put(d, i, new), i)
         /\ Put(d, i, new).bank_sets[i].fader_banks = new
         /\ Put(d, i, new).bank_sets[i].active_bank = d.bank_sets[i].active_bank
         /\ Put(d, i, new).bank_sets[i].ready = d.bank_sets[i].ready
         /\ Put(d, i, new).bank_sets[i].id = d.bank_sets[i].id
<1> DEFINE bs == d.bank_sets[i]
<1>1. d \in Desk /\ bs \in BankSet /\ Fitting(bs)  BY DEF Sound, SetsGood, Good, Desk
<1>2. Reshaped(bs.fader_banks, new)  BY <1>1, ReshapedWhen
<1> QED  BY <1>1, <1>2, PutFields

\* The ready button: the one column of that id, and the ready set with it.
LEMMA PressSound ==
  ASSUME NEW d, Sound(d), CurrentValid(d), NEW k \in DOMAIN ActiveBank(Current(d))
  PROVE  Sound(PressReady(d, k)) /\ Announced(PressReady(d, k)) = Announced(d)
<1> DEFINE i == d.current
           bs == d.bank_sets[i]
           old == bs.fader_banks
           ab == bs.active_bank
           pressed == ActiveBank(bs)[k]
           state == ~pressed.ready
           new == Toggled(bs, pressed.id, state)
           e == Put(d, i, new)
           R == IF state THEN bs.ready \union {pressed.id} ELSE bs.ready \ {pressed.id}
           r == [e EXCEPT !.bank_sets[i].ready = R]
<1>1. i \in DOMAIN d.bank_sets /\ d \in Desk /\ bs = Current(d)  BY DEF CurrentValid, Sound, Current
<1>2. bs \in BankSet /\ Good(bs)  BY <1>1 DEF Desk, Sound, SetsGood
<1>3. /\ ab \in DOMAIN old /\ k \in DOMAIN old[ab] /\ pressed = old[ab][k]
  <2>1. k \in DOMAIN ActiveBank(bs)  BY <1>1
  <2>2. ab \in DOMAIN old
    <3> SUFFICES ASSUME ab \notin DOMAIN old PROVE FALSE
      OBVIOUS
    <3>1. ActiveBank(bs) = <<>>  BY DEF ActiveBank
    <3>2. Len(<<>>) = 0 /\ <<>> \in Seq({})  OBVIOUS
    <3>3. DOMAIN <<>> = {}  BY <3>2
    <3> QED  BY <2>1, <3>1, <3>3
  <2> QED  BY <2>1, <2>2 DEF ActiveBank
<1>4. pressed \in Column /\ state \in BOOLEAN /\ pressed.id \in ColumnIds
  <2>1. pressed \in Column
    <3> HIDE DEF bs
    <3> QED  BY <1>2, <1>3, BanksTyped
  <2> QED  BY <2>1 DEF Column
<1> HIDE DEF pressed
<1>5. ASSUME NEW b \in DOMAIN old, NEW l \in DOMAIN old[b]
      PROVE  /\ old[b][l] \in Column
             /\ old[b][l].id = pressed.id <=> b = ab /\ l = k
             /\ old[b][l].id = pressed.id => new[b][l] = [old[b][l] EXCEPT !.ready = state]
             /\ old[b][l].id # pressed.id => new[b][l] = old[b][l]
  <2>1. old[b][l] \in Column
    <3> HIDE DEF bs
    <3> QED  BY <1>2, BanksTyped
  <2>2. old[b][l].id = pressed.id <=> b = ab /\ l = k  BY <1>2, <1>3, SMTT(30) DEF Good, OnceEach
  <2>3. new[b][l] = IF b = ab /\ old[b][l].id = pressed.id THEN [old[b][l] EXCEPT !.ready = state] ELSE old[b][l]
    BY DEF Toggled
  <2> HIDE DEF new
  <2> QED  BY <2>1, <2>2, <2>3
<1>6. ShapedLike(old, new)  BY DEF Toggled, ShapedLike
<1>7. PressReady(d, k) = HandleReadyState(e, pressed.id, state)
  BY Zenon DEF PressReady, Change, Put, LitAs, Toggled, Current, pressed
<1> HIDE DEF new, state, bs
<1>8. ASSUME NEW b \in DOMAIN old, NEW l \in DOMAIN old[b]
      PROVE  /\ new[b][l] \in Column /\ new[b][l].id = old[b][l].id /\ new[b][l].active = old[b][l].active
             /\ old[b][l].id = pressed.id => new[b][l].ready = state
             /\ old[b][l].id # pressed.id => new[b][l].ready = old[b][l].ready
  <2> DEFINE c == old[b][l]
             n == new[b][l]
  <2>1. c \in Column /\ (c.id = pressed.id => n = [c EXCEPT !.ready = state]) /\ (c.id # pressed.id => n = c)
        /\ state \in BOOLEAN
    BY <1>4, <1>5
  <2> HIDE DEF c, n, old
  <2>2. n \in Column /\ n.id = c.id /\ n.active = c.active
        /\ (c.id = pressed.id => n.ready = state) /\ (c.id # pressed.id => n.ready = c.ready)
    BY <2>1 DEF Column
  <2> QED  BY <2>2 DEF c, n
<1>9. SameColumns(old, new)  BY <1>8 DEF SameColumns
<1>10. /\ Reshaped(old, new) /\ SameBut(d, e, i) /\ e.bank_sets[i].fader_banks = new
       /\ e.bank_sets[i].active_bank = ab /\ e.bank_sets[i].ready = bs.ready /\ e.bank_sets[i].id = bs.id
  BY <1>1, <1>6, <1>9, ColumnsChange DEF bs
<1>11. DOMAIN new = DOMAIN old /\ \A b \in DOMAIN new : DOMAIN new[b] = DOMAIN old[b]
  BY <1>10 DEF Reshaped
<1>12. e \in Desk /\ i \in DOMAIN e.bank_sets /\ e.current = i  BY <1>1, <1>10 DEF SameBut
<1>13. PressReady(d, k) = r
  <2>1. CurrentValid(e)  BY <1>12 DEF CurrentValid
  <2> HIDE DEF e
  <2> QED  BY <1>7, <1>10, <1>12, <2>1 DEF HandleReadyState
<1>14. R \in SUBSET ColumnIds  BY <1>2, <1>4 DEF BankSet
<1>15. /\ \A b \in DOMAIN new : \A l \in DOMAIN new[b] : new[b][l].ready => new[b][l].id \in R
       /\ \A x \in R : \E b \in DOMAIN new : \E l \in DOMAIN new[b] : new[b][l].ready /\ new[b][l].id = x
  <2>1. /\ \A b \in DOMAIN old : \A l \in DOMAIN old[b] : old[b][l].ready => old[b][l].id \in bs.ready
        /\ \A x \in bs.ready : \E b \in DOMAIN old : \E l \in DOMAIN old[b] :
             old[b][l].ready /\ old[b][l].id = x
    BY <1>2, ReadyFlat DEF Good
  <2>2. ASSUME NEW b \in DOMAIN new, NEW l \in DOMAIN new[b], new[b][l].ready  PROVE new[b][l].id \in R
    <3>1. b \in DOMAIN old /\ l \in DOMAIN old[b]  BY <1>11
    <3>2. CASE old[b][l].id = pressed.id
      <4>1. state  BY <1>8, <2>2, <3>1, <3>2
      <4> QED  BY <1>8, <3>1, <3>2, <4>1
    <3>3. CASE old[b][l].id # pressed.id
      <4>1. old[b][l].ready  BY <1>8, <2>2, <3>1, <3>3
      <4> QED  BY <1>8, <2>1, <3>1, <3>3, <4>1
    <3> QED  BY <3>2, <3>3
  <2>3. ASSUME NEW x \in R
        PROVE  \E b \in DOMAIN new : \E l \in DOMAIN new[b] : new[b][l].ready /\ new[b][l].id = x
    <3>1. CASE x = pressed.id
      <4>1. state  BY <3>1
      <4>2. old[ab][k].id = pressed.id  BY <1>3, <1>5
      <4>3. new[ab][k].ready = state /\ new[ab][k].id = x  BY <1>3, <1>8, <4>2, <3>1
      <4>4. new[ab][k].ready  BY <4>1, <4>3
      <4> QED  BY <1>3, <1>11, <4>3, <4>4
    <3>2. CASE x # pressed.id
      <4>1. x \in bs.ready  BY <3>2
      <4>2. PICK b \in DOMAIN old : \E l \in DOMAIN old[b] : old[b][l].ready /\ old[b][l].id = x  BY <2>1, <4>1
      <4>3. PICK l \in DOMAIN old[b] : old[b][l].ready /\ old[b][l].id = x  BY <4>2
      <4>4. new[b][l].id = x /\ new[b][l].ready  BY <1>8, <3>2, <4>3
      <4> QED  BY <1>11, <4>3, <4>4
    <3> QED  BY <3>1, <3>2
  <2> QED  BY <2>2, <2>3
<1> HIDE DEF R
<1>16. ReadyPut(e, i, R, r)  BY <1>12, <1>14, WithReady
<1> HIDE DEF r, e
<1>17. /\ r \in Desk /\ r.current = e.current /\ r.modified = e.modified /\ r.shown = e.shown
       /\ DOMAIN r.bank_sets = DOMAIN e.bank_sets
       /\ \A j \in DOMAIN e.bank_sets : j # i => r.bank_sets[j] = e.bank_sets[j]
       /\ r.bank_sets[i].fader_banks = e.bank_sets[i].fader_banks
       /\ r.bank_sets[i].active_bank = e.bank_sets[i].active_bank
       /\ r.bank_sets[i].ready = R /\ r.bank_sets[i].id = e.bank_sets[i].id /\ r.selected = e.selected
  BY <1>16 DEF ReadyPut
<1>18. /\ r.current = i /\ r.modified = d.modified /\ DOMAIN r.bank_sets = DOMAIN d.bank_sets
       /\ \A j \in DOMAIN d.bank_sets : j # i => r.bank_sets[j] = d.bank_sets[j]
       /\ r.bank_sets[i].fader_banks = new /\ r.bank_sets[i].active_bank = ab
  BY <1>10, <1>17 DEF SameBut
<1>19. Relit(d, i, new, r)  BY <1>1, <1>9, <1>10, <1>15, <1>17, <1>18 DEF Relit, bs, e
<1>20. Announced(r) = Announced(d)
  <2>1. r.bank_sets[i].id = bs.id /\ r.selected = d.selected  BY <1>10, <1>17 DEF SameBut
  <2>2. CurrentValid(r) /\ Current(r) = r.bank_sets[i] /\ Current(d) = bs
    BY <1>1, <1>18 DEF CurrentValid, Current
  <2> QED  BY <1>18, <2>1, <2>2 DEF Announced
<1> QED  BY <1>13, <1>19, <1>20, RelitSound

\* desk::handle_select_state_update.
LEMMA SelectSound ==
  ASSUME NEW d, Sound(d), NEW id \in ColumnIds \union {NoId}, NEW state
  PROVE  LET r == HandleSelectState(d, id, state)
         IN Sound(r) /\ (r = d \/ r.required)
<1> DEFINE i == d.current
           bs == d.bank_sets[i]
           old == bs.fader_banks
           chosen == IF state /\ \E c \in ColumnsOf(Current(d)) : c.id = id THEN id ELSE NoId
           new == Chosen(bs, d.selected, chosen)
           e == Put(d, i, new)
           r == [[e EXCEPT !.selected = chosen] EXCEPT !.required = TRUE]
<1>1. CASE ~CurrentValid(d)  BY <1>1 DEF HandleSelectState
<1>2. CASE CurrentValid(d)
  <2>1. HandleSelectState(d, id, state) = [e EXCEPT !.selected = chosen, !.required = TRUE]
    BY <1>2, Zenon DEF HandleSelectState, Change, Put, LitAs, Chosen, Current
  <2>2. i \in DOMAIN d.bank_sets /\ d \in Desk  BY <1>2 DEF CurrentValid, Sound
  <2>3. bs \in BankSet /\ Good(bs)  BY <2>2 DEF Desk, Sound, SetsGood
  <2>4. chosen \in ColumnIds \union {NoId}  OBVIOUS
  <2> HIDE DEF chosen
  <2>5. ASSUME NEW b \in DOMAIN old, NEW k \in DOMAIN old[b]
        PROVE  /\ new[b][k] \in Column /\ new[b][k].id = old[b][k].id
               /\ new[b][k].active = old[b][k].active /\ new[b][k].ready = old[b][k].ready
    <3> DEFINE c == old[b][k]
               same == (c.id = chosen)
    <3>1. c \in Column
      <4> HIDE DEF bs
      <4> QED  BY <2>3, BanksTyped
    <3>2. new[b][k] = IF c.id \in {d.selected, chosen} THEN [c EXCEPT !.select = same] ELSE c
      BY DEF Chosen
    <3>3. same \in BOOLEAN  OBVIOUS
    <3> HIDE DEF c, new, bs, same
    <3> QED  BY <3>1, <3>2, <3>3 DEF Column, c
  <2>6. ShapedLike(old, new)  BY DEF Chosen, ShapedLike
  <2> HIDE DEF new, bs
  <2>7. SameColumns(old, new)  BY <2>5 DEF SameColumns
  <2>8. /\ Reshaped(old, new) /\ SameBut(d, e, i) /\ e.bank_sets[i].fader_banks = new
        /\ e.bank_sets[i].active_bank = bs.active_bank /\ e.bank_sets[i].ready = bs.ready
    BY <2>2, <2>6, <2>7, ColumnsChange DEF bs
  <2>9. DOMAIN new = DOMAIN old /\ \A b \in DOMAIN new : DOMAIN new[b] = DOMAIN old[b]
    BY <2>8 DEF Reshaped
  <2>10. e \in Desk  BY <2>8 DEF SameBut
  <2> HIDE DEF e
  <2>11. r \in Desk  BY <2>4, <2>10, Setters
  <2>12. r.bank_sets = e.bank_sets /\ r.current = e.current /\ r.modified = e.modified /\ r.shown = e.shown
         /\ r.required = TRUE
    BY <2>10 DEF Desk
  <2>13. HandleSelectState(d, id, state) = r  BY <2>1, <2>10 DEF Desk
  <2> HIDE DEF r
  <2>14. /\ r.current = i /\ r.modified = d.modified /\ DOMAIN r.bank_sets = DOMAIN d.bank_sets
         /\ \A j \in DOMAIN d.bank_sets : j # i => r.bank_sets[j] = d.bank_sets[j]
         /\ r.bank_sets[i].fader_banks = new /\ r.bank_sets[i].active_bank = bs.active_bank
         /\ r.bank_sets[i].ready = bs.ready
    BY <2>8, <2>12 DEF SameBut
  <2>15. /\ \A b \in DOMAIN new : \A k \in DOMAIN new[b] : new[b][k].ready => new[b][k].id \in bs.ready
         /\ \A x \in bs.ready : \E b \in DOMAIN new : \E k \in DOMAIN new[b] :
              new[b][k].ready /\ new[b][k].id = x
    <3>1. /\ \A b \in DOMAIN old : \A k \in DOMAIN old[b] : old[b][k].ready => old[b][k].id \in bs.ready
          /\ \A x \in bs.ready : \E b \in DOMAIN old : \E k \in DOMAIN old[b] :
              old[b][k].ready /\ old[b][k].id = x
      BY <2>3, ReadyFlat DEF Good
    <3> QED  BY <2>5, <2>9, <3>1
  <2>16. Relit(d, i, new, r)  BY <2>2, <2>7, <2>8, <2>11, <2>12, <2>14, <2>15, SMTT(30) DEF Relit, bs, e
  <2> QED  BY <2>12, <2>13, <2>16, RelitSound
<1> QED  BY <1>1, <1>2

-----------------------------------------------------------------------------
\* A desk starts without sets.
LEMMA InitSound == Init => Sound(desk)
<1> SUFFICES ASSUME Init PROVE Sound(desk)
  OBVIOUS
<1>1. desk = [bank_sets |-> <<>>, index_map |-> <<>>, current |-> 1,
              modified |-> FALSE, required |-> FALSE, selected |-> NoId,
              shown |-> [p \in Positions |-> Off], crashed |-> "no"]
  BY DEF Init
<1>2. <<>> \in IndexMaps
  <2>1. <<>> \in [{} -> Nat \ {0}]  OBVIOUS
  <2>2. {} \in SUBSET SetIds  OBVIOUS
  <2> QED  BY <2>1, <2>2 DEF IndexMaps
<1>3. [p \in Positions |-> Off] \in [Positions -> Lights]
  <2>1. Off \in Lights  BY DEF Off, Lights
  <2> QED  BY <2>1
<1>4. desk \in Desk /\ desk.bank_sets = <<>> /\ desk.current = 1
  <2> DEFINE shown == [p \in Positions |-> Off]
             map == <<>>
  <2>1. desk = [bank_sets |-> <<>>, index_map |-> map, current |-> 1,
                modified |-> FALSE, required |-> FALSE, selected |-> NoId,
                shown |-> shown, crashed |-> "no"]
    BY <1>1
  <2>2. map \in IndexMaps /\ shown \in [Positions -> Lights]  BY <1>2, <1>3
  <2> HIDE DEF map, shown
  <2> QED  BY <2>1, <2>2 DEF Desk
<1>5. DOMAIN desk.bank_sets = {}
  <2>1. Len(<<>>) = 0 /\ <<>> \in Seq({})  OBVIOUS
  <2> QED  BY <1>4, <2>1
<1> HIDE DEF Desk
<1> QED  BY <1>4, <1>5 DEF Sound, SetsGood, OthersDark, CurrentLit, AllLit, HasCurrent, StartsOver, CurrentValid

\* A crash announces nothing.
LEMMA CrashAnnounces ==
  ASSUME NEW d \in Desk, NEW why
  PROVE  Announced(Crash(d, why)) = Announced(d)
<1> DEFINE r == [d EXCEPT !.crashed = why]
<1>1. r.bank_sets = d.bank_sets /\ r.current = d.current /\ r.selected = d.selected  BY DEF Desk
<1> HIDE DEF r
<1>2. Announced(r) = Announced(d)  BY <1>1 DEF Announced, CurrentValid, Current
<1> QED  BY <1>2 DEF Crash, r

\* A step of the desk keeps it sound, and the clients are to be told of what it changes.
Told(d, r) == Announced(r) = Announced(d) \/ Due(r)
Steps(d, r) == Sound(r) /\ Told(d, r)

\* A button belongs to a column of the active bank of the current set.
LEMMA ShownColumns ==
  ASSUME Sound(desk), NEW k \in DOMAIN Shown
  PROVE  CurrentValid(desk) /\ Shown = ActiveBank(Current(desk)) /\ Shown[k] \in Column
<1>1. CurrentValid(desk)
  <2> SUFFICES ASSUME ~CurrentValid(desk) PROVE FALSE
    OBVIOUS
  <2>1. Shown = <<>>  BY DEF Shown
  <2>2. Len(<<>>) = 0 /\ <<>> \in Seq({})  OBVIOUS
  <2> QED  BY <2>1, <2>2
<1>2. Shown = ActiveBank(Current(desk))  BY <1>1 DEF Shown
<1>3. Current(desk) \in BankSet  BY <1>1 DEF Sound, Desk, CurrentValid, Current
<1>4. ActiveBank(Current(desk)) \in Seq(Column)  BY <1>3, ActiveBankTyped
<1> QED  BY <1>1, <1>2, <1>4

\* A message that chooses a set, a bank and a column, each in turn.
LEMMA SelectMessageSteps ==
  ASSUME Sound(desk), SelectMessage
  PROVE  Steps(desk, desk')
<1>1. PICK id \in SetIds, b \in 1..2, c \in ColumnIds \union {NoId} :
       LET d1 == IF id \in DOMAIN desk.index_map
                 THEN SetActiveBankSet([desk EXCEPT !.required = TRUE], desk.index_map[id])
                 ELSE desk
           d2 == SetActiveFaderBank(d1, b)
       IN desk' = (IF c # d2.selected /\ d2.crashed = "no" THEN HandleSelectState(d2, c, TRUE) ELSE d2)
  BY Zenon DEF SelectMessage
<1> DEFINE d0 == [desk EXCEPT !.required = TRUE]
           d1 == IF id \in DOMAIN desk.index_map THEN SetActiveBankSet(d0, desk.index_map[id]) ELSE desk
           d2 == SetActiveFaderBank(d1, b)
           r == IF c # d2.selected /\ d2.crashed = "no" THEN HandleSelectState(d2, c, TRUE) ELSE d2
<1>2. desk' = r  BY <1>1
<1>3. Sound(d0) /\ d0.required
  <2>1. d0.required = TRUE  BY DEF Sound, Desk
  <2>2. Sound(d0)  BY RequiredSound
  <2> HIDE DEF d0
  <2> QED  BY <2>1, <2>2
<1> HIDE DEF d0
<1>4. Sound(d1) /\ (d1 = desk \/ d1.required)  BY <1>3, SwitchSound
<1> HIDE DEF d1
<1>5. Sound(d2) /\ (d2 = d1 \/ d2 = Crash(d1, "bank") \/ d2.required)  BY <1>4, SwitchesBank
<1>6. d2 = Crash(d1, "bank") => d2.required = d1.required /\ Announced(d2) = Announced(d1)
  <2> HIDE DEF d2
  <2>1. d1 \in Desk  BY <1>4 DEF Sound
  <2>2. Announced(Crash(d1, "bank")) = Announced(d1)  BY <2>1, CrashAnnounces
  <2>3. Crash(d1, "bank").required = d1.required  BY <2>1 DEF Desk, Crash
  <2> QED  BY <2>2, <2>3
<1> HIDE DEF d2
<1>7. Told(desk, d2)  BY <1>4, <1>5, <1>6 DEF Told, Due
<1>8. Sound(r) /\ (r = d2 \/ r.required)
  <2>1. ASSUME NEW s  PROVE Sound(HandleSelectState(d2, c, s))
                            /\ (HandleSelectState(d2, c, s) = d2 \/ HandleSelectState(d2, c, s).required)
    BY <1>5, SelectSound
  <2>2. Sound(HandleSelectState(d2, c, TRUE))
        /\ (HandleSelectState(d2, c, TRUE) = d2 \/ HandleSelectState(d2, c, TRUE).required)
    BY <2>1, Zenon
  <2> QED  BY <1>5, <2>2
<1> HIDE DEF r
<1>9. Told(desk, r)  BY <1>7, <1>8 DEF Told, Due
<1> QED  BY <1>2, <1>8, <1>9 DEF Steps

\* A message with a bank set.
LEMMA AddMessageSteps ==
  ASSUME Sound(desk), NEW id \in SetIds, NEW def \in Definitions, NEW b \in 1..2, AddMessage(id, def, b)
  PROVE  Steps(desk, desk')
<1>1. desk' = AddBankSet(desk, id, def, b) /\ b \in Int /\ desk \in Desk  BY DEF AddMessage, Sound
<1>2. Sound(desk') /\ (desk' = Crash(desk, "set") \/ desk' = Crash(desk, "device") \/ Due(desk'))
  BY <1>1, AddSound
<1> QED  BY <1>1, <1>2, CrashAnnounces DEF Steps, Told

\* Every step of either thread.
LEMMA NextSteps ==
  ASSUME Sound(desk), [Next]_vars
  PROVE  Sound(desk') /\ (Announced(desk') # Announced(desk) => desk'.required \/ desk'.modified)
<1> SUFFICES Steps(desk, desk')
  BY DEF Steps, Told, Due
<1>1. ASSUME NEW id \in SetIds, NEW def \in Definitions, NEW b \in 1..2, AddMessage(id, def, b)
      PROVE  Steps(desk, desk')
  BY <1>1, AddMessageSteps
<1>2. ASSUME NEW id \in SetIds, RemoveMessage(id)  PROVE Steps(desk, desk')
  <2>1. desk' = RemoveBankSet(desk, desk.index_map[id]) /\ id \in DOMAIN desk.index_map
    BY <1>2 DEF RemoveMessage
  <2>2. desk.index_map[id] \in Nat \ {0}  BY <2>1 DEF Sound, Desk, IndexMaps
  <2> QED  BY <2>1, <2>2, RemoveSound DEF Steps, Told
<1>3. CASE SelectMessage  BY <1>3, SelectMessageSteps
<1>4. CASE ReadymodeMessage
  <2>1. desk' = CommitReadymode(desk)  BY <1>4 DEF ReadymodeMessage
  <2> QED  BY <2>1, CommitSound DEF Steps, Told
<1>5. CASE StartUpdate
  <2>1. desk' = desk  BY <1>5 DEF StartUpdate
  <2> QED  BY <2>1 DEF Steps, Told
<1>6. CASE ReadyButton
  <2>1. PICK k \in DOMAIN Shown : desk' = PressReady(desk, k)  BY <1>6 DEF ReadyButton
  <2>2. CurrentValid(desk) /\ k \in DOMAIN ActiveBank(Current(desk))  BY ShownColumns
  <2> QED  BY <2>1, <2>2, PressSound DEF Steps, Told
<1>7. CASE SelectButton
  <2>1. PICK k \in DOMAIN Shown : desk' = HandleSelectState(desk, Shown[k].id, ~Shown[k].select)
    BY <1>7, Zenon DEF SelectButton
  <2>2. Shown[k].id \in ColumnIds \union {NoId}  BY ShownColumns DEF Column
  <2> DEFINE id == Shown[k].id
             state == ~Shown[k].select
  <2>3. desk' = HandleSelectState(desk, id, state) /\ id \in ColumnIds \union {NoId}  BY <2>1, <2>2
  <2> HIDE DEF id, state
  <2>4. Sound(desk') /\ (desk' = desk \/ desk'.required)  BY <2>3, SelectSound
  <2> QED  BY <2>4 DEF Steps, Told, Due
<1>8. CASE CommitButton
  <2>1. desk' = CommitReadymode(desk)  BY <1>8 DEF CommitButton
  <2> QED  BY <2>1, CommitSound DEF Steps, Told
<1>9. CASE BankButton
  <2>1. PICK step \in {-1, 1} : desk' = (SetActiveFaderBank(desk, (IF CurrentValid(desk)
                                    THEN desk.bank_sets[desk.current].active_bank ELSE 1) + step))
    BY <1>9, Zenon DEF BankButton
  <2> DEFINE index == (IF CurrentValid(desk) THEN desk.bank_sets[desk.current].active_bank ELSE 1) + step
  <2>2. desk' = SetActiveFaderBank(desk, index)  BY <2>1
  <2> HIDE DEF index
  <2>3. Sound(desk') /\ (desk' = desk \/ desk' = Crash(desk, "bank") \/ desk'.required)
    BY <2>2, SwitchesBank
  <2>4. desk \in Desk  BY DEF Sound
  <2> QED  BY <2>3, <2>4, CrashAnnounces DEF Steps, Told, Due
<1>10. CASE EndUpdate
  <2>1. desk' = IF ~desk.required THEN desk
                ELSE IF updating.valid /\ ~CurrentValid(desk) THEN Crash(desk, "set")
                ELSE [desk EXCEPT !.required = FALSE]
    BY <1>10 DEF EndUpdate
  <2>2. desk \in Desk  BY DEF Sound
  <2>3. Sound(Crash(desk, "set")) /\ Announced(Crash(desk, "set")) = Announced(desk)
    BY <2>2, CrashSound, CrashAnnounces
  <2> DEFINE r == [desk EXCEPT !.required = FALSE]
  <2>4. Sound(r)  BY RequiredSound
  <2>5. r.bank_sets = desk.bank_sets /\ r.current = desk.current /\ r.selected = desk.selected
    BY <2>2 DEF Desk
  <2> HIDE DEF r
  <2>6. Announced(r) = Announced(desk)  BY <2>5 DEF Announced, CurrentValid, Current
  <2>7. desk' = desk \/ desk' = Crash(desk, "set") \/ desk' = r  BY <2>1 DEF r
  <2> QED  BY <2>3, <2>4, <2>6, <2>7 DEF Steps, Told
<1>11. CASE UNCHANGED vars
  <2>1. desk' = desk  BY <1>11 DEF vars
  <2> QED  BY <2>1 DEF Steps, Told
<1> QED  BY <1>1, <1>2, <1>3, <1>4, <1>5, <1>6, <1>7, <1>8, <1>9, <1>10, <1>11 DEF Next

\* What the parts of Sound say together.
LEMMA SoundNow ==
  ASSUME Sound(desk)
  PROVE  DeskSound
<1>1. /\ desk \in Desk /\ SetsGood(desk) /\ OthersDark(desk) /\ CurrentLit(desk) /\ AllLit(desk)
      /\ HasCurrent(desk)
  BY DEF Sound
<1>2. \A i \in DOMAIN desk.bank_sets : desk.bank_sets[i] \in BankSet  BY <1>1 DEF Desk
<1>3. TypeOK
  <2>1. ASSUME NEW i \in DOMAIN desk.bank_sets
        PROVE  /\ desk.bank_sets[i].id \in SetIds /\ desk.bank_sets[i].ready \subseteq ColumnIds
               /\ \A c \in ColumnsOf(desk.bank_sets[i]) :
                    c.id \in ColumnIds /\ {c.active, c.ready, c.select} \subseteq BOOLEAN
    <3> DEFINE bs == desk.bank_sets[i]
    <3>1. bs \in BankSet  BY <1>2
    <3> HIDE DEF bs
    <3>2. bs.id \in SetIds /\ bs.ready \subseteq ColumnIds  BY <3>1 DEF BankSet
    <3>3. ASSUME NEW c \in ColumnsOf(bs)
          PROVE  c.id \in ColumnIds /\ {c.active, c.ready, c.select} \subseteq BOOLEAN
      <4>1. PICK b \in DOMAIN bs.fader_banks : c \in ToSet(bs.fader_banks[b])  BY DEF ColumnsOf
      <4>2. c \in Column  BY <3>1, <4>1, BanksTyped DEF ToSet
      <4> QED  BY <4>2 DEF Column
    <3> QED  BY <3>2, <3>3 DEF bs
  <2>2. desk.bank_sets # <<>> => CurrentValid(desk)
    <3> SUFFICES ASSUME DOMAIN desk.bank_sets = {} PROVE desk.bank_sets = <<>>
      BY <1>1 DEF HasCurrent
    <3>1. desk.bank_sets \in Seq(BankSet)  BY <1>1 DEF Desk
    <3> DEFINE x == desk.bank_sets
    <3>2. x \in Seq(BankSet) /\ DOMAIN x = {}  BY <3>1
    <3> HIDE DEF x
    <3>3. x = <<>>  BY <3>2
    <3> QED  BY <3>3 DEF x
  <2>3. desk.shown \in [Positions -> [ready : BOOLEAN, select : BOOLEAN]]  BY <1>1 DEF Desk, Lights
  <2> QED  BY <2>1, <2>2, <2>3 DEF TypeOK
<1>4. ShowsActiveBank
  <2>1. ASSUME NEW i \in DOMAIN desk.bank_sets, NEW b \in DOMAIN desk.bank_sets[i].fader_banks,
               NEW k \in DOMAIN desk.bank_sets[i].fader_banks[b], desk.bank_sets[i].fader_banks[b][k].active
        PROVE  /\ i = desk.current /\ b = desk.bank_sets[i].active_bank
               /\ desk.shown[k] = Leds(desk.bank_sets[i].fader_banks[b][k])
    <3>1. i = desk.current  BY <1>1, <2>1 DEF OthersDark, Dark
    <3>2. Lit(desk.bank_sets[i], desk.shown)  BY <1>1, <3>1 DEF CurrentLit, CurrentValid, Current
    <3> DEFINE bs == desk.bank_sets[i]
               shown == desk.shown
    <3>3. Lit(bs, shown) /\ b \in DOMAIN bs.fader_banks /\ k \in DOMAIN bs.fader_banks[b]
          /\ bs.fader_banks[b][k].active
      BY <2>1, <3>2
    <3> HIDE DEF bs, shown
    <3>4. b = bs.active_bank /\ shown[k] = Leds(bs.fader_banks[b][k])  BY <3>3 DEF Lit
    <3> QED  BY <3>1, <3>4 DEF bs, shown
  <2>2. desk.modified \/ \A k \in DOMAIN Shown : Shown[k].active
    <3> SUFFICES ASSUME ~desk.modified, NEW k \in DOMAIN Shown PROVE Shown[k].active
      OBVIOUS
    <3>1. CurrentValid(desk) /\ Shown = ActiveBank(Current(desk))  BY ShownColumns
    <3> DEFINE bs == Current(desk)
    <3>2. AllOn(bs) /\ k \in DOMAIN ActiveBank(bs)  BY <1>1, <3>1 DEF AllLit
    <3> HIDE DEF bs
    <3>3. bs.active_bank \in DOMAIN bs.fader_banks
      <4> SUFFICES ASSUME bs.active_bank \notin DOMAIN bs.fader_banks PROVE FALSE
        OBVIOUS
      <4>1. ActiveBank(bs) = <<>>  BY DEF ActiveBank
      <4>2. Len(<<>>) = 0 /\ <<>> \in Seq({})  OBVIOUS
      <4> QED  BY <3>2, <4>1, <4>2
    <3>4. ActiveBank(bs)[k].active  BY <3>2, <3>3 DEF ActiveBank, AllOn
    <3> QED  BY <3>1, <3>4 DEF bs
  <2> QED  BY <2>1, <2>2, Zenon DEF ShowsActiveBank
<1>5. ReadySetExact
  BY <1>1 DEF SetsGood, Good, ReadyExact, ReadySetExact
<1> QED  BY <1>3, <1>4, <1>5 DEF DeskSound

(* The bank sets, the device and the ready mode agree between any two steps  *)
(* of the two threads, for any sets, columns, devices and messages.          *)
THEOREM DeskSoundAlways == Spec => []DeskSound
<1>1. Init => Sound(desk)  BY InitSound
<1>2. Sound(desk) /\ [Next]_vars => Sound(desk')  BY NextSteps
<1>3. Sound(desk) => DeskSound  BY SoundNow
<1>4. Sound(desk) /\ [Next]_vars => Sound(desk)'  BY <1>2
<1> QED  BY <1>1, <1>3, <1>4, PTL DEF Spec

(* The clients are told of the set, the bank and the column that are active  *)
(* when they change.                                                         *)
THEOREM ChangesAreAnnounced == Spec => ChangesAnnounced
<1>1. Init => Sound(desk)  BY InitSound
<1>2. Sound(desk) /\ [Next]_vars => Sound(desk')  BY NextSteps
<1>3. Sound(desk) /\ [Next]_vars => Sound(desk)'  BY <1>2
<1>4. Sound(desk) /\ [Next]_vars =>
        [Announced(desk') # Announced(desk) => desk'.required \/ desk'.modified]_desk
  BY NextSteps
<1> QED  BY <1>1, <1>3, <1>4, PTL DEF Spec, ChangesAnnounced

-----------------------------------------------------------------------------
(* Columns.                                                                  *)
Fields == {"primary", "secondary", "intensity", "HUE", "SATURATION", "AMBER", "UV"}
Flags == {"mode", "active", "ready", "flash", "black", "assignment", "on_primary", "accumulated"}
Parts == {"fader", "ring", "meter", "buttons", "committed"}

(* The records that are changed field by field keep their fields, and an    *)
(* encoder turns a colour value.                                            *)
Shaped ==
  /\ DOMAIN live = Fields /\ DOMAIN draft = Fields
  /\ DOMAIN col = Flags /\ DOMAIN device = Parts

ColumnInv == Shaped /\ ClientsKnow /\ DeviceShowsEdited

(* A column starts unseen and with zeros, of which the clients are told.    *)
LEMMA ColumnInvInit == ColumnInit => ColumnInv
<1> SUFFICES ASSUME ColumnInit  PROVE ColumnInv
  OBVIOUS
<1>1. PICK mode \in Modes :
        col = [mode |-> mode, active |-> FALSE, ready |-> FALSE, flash |-> FALSE, black |-> FALSE,
               assignment |-> "HUE", on_primary |-> TRUE, accumulated |-> 0]
  BY DEF ColumnInit
<1>2. Shaped
  BY <1>1 DEF ColumnInit, Shaped, Fields, Flags, Parts, Zero, Other
<1>3. ClientsKnow
  BY <1>1 DEF ColumnInit, ClientsKnow, Edited
<1>4. DeviceShowsEdited
  BY <1>1 DEF DeviceShowsEdited
<1> QED  BY <1>2, <1>3, <1>4 DEF ColumnInv

-----------------------------------------------------------------------------
(* The update_ functions of the device                                      *)

LEMMA FaderShows ==
  ASSUME NEW dev, DOMAIN dev = Parts, NEW c, NEW l, NEW d
  PROVE  LET x == Fader(dev, c, l, d, FALSE)
         IN /\ DOMAIN x = Parts
            /\ x.ring = dev.ring /\ x.meter = dev.meter /\ x.buttons = dev.buttons
            /\ c.active /\ ~c.ready => x.fader = Edited(c, l, d)[Half(c)]
  BY DEF Fader, Parts

LEMMA FaderActivated ==
  ASSUME NEW dev, DOMAIN dev = Parts, NEW c, c.active, NEW l, NEW d
  PROVE  LET x == Fader(dev, c, l, d, TRUE)
         IN DOMAIN x = Parts /\ x.fader = Edited(c, l, d)[Half(c)]
  BY DEF Fader, Parts

LEMMA RingShows ==
  ASSUME NEW dev, DOMAIN dev = Parts, NEW c, NEW l, NEW d
  PROVE  LET x == Ring(dev, c, l, d)
         IN /\ DOMAIN x = Parts
            /\ x.fader = dev.fader /\ x.meter = dev.meter /\ x.buttons = dev.buttons
            /\ x.committed = dev.committed
            /\ c.active /\ ~Direct(c) => x.ring = Edited(c, l, d).HUE
  BY DEF Ring, Parts

LEMMA MeterShows ==
  ASSUME NEW dev, DOMAIN dev = Parts, NEW c, NEW l, NEW d
  PROVE  LET x == Meter(dev, c, l, d)
         IN /\ DOMAIN x = Parts
            /\ x.fader = dev.fader /\ x.ring = dev.ring /\ x.buttons = dev.buttons
            /\ x.committed = dev.committed
            /\ c.active /\ ~Direct(c) => x.meter = Edited(c, l, d).SATURATION
  BY DEF Meter, Parts

LEMMA RingAndMeterShow ==
  ASSUME NEW dev, DOMAIN dev = Parts, NEW c, NEW l, NEW d
  PROVE  LET x == RingAndMeter(dev, c, l, d)
         IN /\ DOMAIN x = Parts
            /\ x.fader = dev.fader /\ x.buttons = dev.buttons /\ x.committed = dev.committed
            /\ c.active /\ ~Direct(c) => x.ring = Edited(c, l, d).HUE
            /\ c.active /\ ~Direct(c) => x.meter = Edited(c, l, d).SATURATION
<1> DEFINE r == Ring(dev, c, l, d)
<1>1. /\ DOMAIN r = Parts
      /\ r.fader = dev.fader /\ r.buttons = dev.buttons /\ r.committed = dev.committed
      /\ c.active /\ ~Direct(c) => r.ring = Edited(c, l, d).HUE
  BY RingShows
<1> HIDE DEF r
<1>2. LET x == Meter(r, c, l, d)
      IN /\ DOMAIN x = Parts
         /\ x.fader = r.fader /\ x.ring = r.ring /\ x.buttons = r.buttons
         /\ x.committed = r.committed
         /\ c.active /\ ~Direct(c) => x.meter = Edited(c, l, d).SATURATION
  BY <1>1, MeterShows
<1>3. RingAndMeter(dev, c, l, d) = Meter(r, c, l, d)
  BY DEF RingAndMeter, r
<1> QED  BY <1>1, <1>2, <1>3

LEMMA ButtonsShow ==
  ASSUME NEW dev, DOMAIN dev = Parts, NEW c
  PROVE  LET x == Buttons(dev, c)
         IN /\ DOMAIN x = Parts
            /\ x.fader = dev.fader /\ x.ring = dev.ring /\ x.meter = dev.meter
            /\ x.committed = dev.committed
            /\ c.active => x.buttons = <<c.ready, c.flash, c.black>>
  BY DEF Buttons, Parts

LEMMA OtherShaped == DOMAIN Other = Parts
  BY DEF Other, Parts

(* What is to be shown, of a column whose flags, ring and meter are right.  *)
LEMMA ShowsEdited ==
  ASSUME col'.active =>
           LET v == Edited(col', live', draft')
           IN /\ device'.buttons = <<col'.ready, col'.flash, col'.black>>
              /\ ~Direct(col') => device'.ring = v.HUE /\ device'.meter = v.SATURATION
              /\ Direct(col') /\ ~col'.ready /\ ~device'.committed => device'.fader = v[Half(col')]
  PROVE  DeviceShowsEdited'
  BY DEF DeviceShowsEdited

-----------------------------------------------------------------------------
(* Changes of the values                                                    *)

\* The lights stay, and the values that a colour shows on ring and meter.
LEMMA FaderChangeKeeps ==
  ASSUME ColumnInv, NEW p, FaderChange(p)
  PROVE  ColumnInv'
<1>1. /\ DOMAIN live' = Fields /\ DOMAIN draft' = Fields /\ col' = col
      /\ ~Direct(col) => /\ live'.HUE = live.HUE /\ live'.SATURATION = live.SATURATION
                         /\ draft'.HUE = draft.HUE /\ draft'.SATURATION = draft.SATURATION
  BY DEF FaderChange, Edit, ColumnInv, Shaped, Fields
<1>2. clients'.told = Message(col, Edited(col, live', draft'))
  BY DEF FaderChange, Tell
<1> DEFINE base == [device EXCEPT !.fader = p]
<1>3. DOMAIN base = Parts /\ base.ring = device.ring /\ base.meter = device.meter /\ base.buttons = device.buttons
  BY DEF ColumnInv, Shaped, Parts
<1>4. device' = IF col.active THEN Fader(base, col, live', draft', FALSE) ELSE Other
  BY DEF FaderChange
<1> HIDE DEF base
<1>5. CASE col.active
  <2>1. /\ DOMAIN device' = Parts
        /\ device'.ring = device.ring /\ device'.meter = device.meter /\ device'.buttons = device.buttons
        /\ ~col.ready => device'.fader = Edited(col, live', draft')[Half(col)]
    BY <1>3, <1>4, <1>5, FaderShows
  <2>2. DeviceShowsEdited'
    BY <1>1, <1>5, <2>1, ShowsEdited DEF ColumnInv, DeviceShowsEdited, Edited
  <2> QED  BY <1>1, <1>2, <2>1, <2>2 DEF ColumnInv, Shaped, ClientsKnow
<1>6. CASE ~col.active
  <2>1. DOMAIN device' = Parts /\ DeviceShowsEdited'
    BY <1>1, <1>4, <1>6, OtherShaped DEF DeviceShowsEdited
  <2> QED  BY <1>1, <1>2, <2>1 DEF ColumnInv, Shaped, ClientsKnow
<1> QED  BY <1>5, <1>6

LEMMA EncoderChangeKeeps ==
  ASSUME ColumnInv, NEW request, EncoderChange(request)
  PROVE  ColumnInv'
<1> DEFINE acc == IF col.accumulated < MaxAccumulated THEN col.accumulated + 1 ELSE col.accumulated
           shown == RingAndMeter(device, col, live', draft')
<1>1. /\ col' = [col EXCEPT !.accumulated = acc]
      /\ device' = IF Direct(col) THEN Fader(shown, col, live', draft', FALSE) ELSE shown
      /\ Tell(col, live', draft')
  BY DEF EncoderChange
<1>2. DOMAIN live' = Fields /\ DOMAIN draft' = Fields
  BY DEF EncoderChange, Edit, ColumnInv, Shaped
<1>3. /\ DOMAIN shown = Parts
      /\ shown.fader = device.fader /\ shown.buttons = device.buttons /\ shown.committed = device.committed
      /\ col.active /\ ~Direct(col) => shown.ring = Edited(col, live', draft').HUE
      /\ col.active /\ ~Direct(col) => shown.meter = Edited(col, live', draft').SATURATION
  BY RingAndMeterShow DEF ColumnInv, Shaped
<1> HIDE DEF shown, acc
<1>4. /\ DOMAIN col' = Flags /\ col'.mode = col.mode /\ col'.active = col.active /\ col'.ready = col.ready
      /\ col'.flash = col.flash /\ col'.black = col.black /\ col'.on_primary = col.on_primary
  BY <1>1 DEF ColumnInv, Shaped, Flags
<1>5. /\ Edited(col', live', draft') = Edited(col, live', draft')
      /\ Half(col') = Half(col) /\ (Direct(col') <=> Direct(col))
      /\ Message(col', Edited(col, live', draft')) = Message(col, Edited(col, live', draft'))
  BY <1>4 DEF Edited, Half, Direct, Message
<1>6. ClientsKnow'
  BY <1>1, <1>5 DEF Tell, ClientsKnow
<1>7. CASE Direct(col)
  <2>1. /\ DOMAIN device' = Parts /\ device'.buttons = device.buttons
        /\ col.active /\ ~col.ready => device'.fader = Edited(col, live', draft')[Half(col)]
    BY <1>1, <1>3, <1>7 DEF Fader, Parts
  <2>2. DeviceShowsEdited'
    BY <1>4, <1>5, <1>7, <2>1, ShowsEdited DEF ColumnInv, DeviceShowsEdited
  <2> QED  BY <1>2, <1>4, <1>6, <2>1, <2>2 DEF ColumnInv, Shaped
<1>8. CASE ~Direct(col)
  <2>1. DeviceShowsEdited'
    BY <1>1, <1>3, <1>4, <1>5, <1>8, ShowsEdited DEF ColumnInv, DeviceShowsEdited
  <2> QED  BY <1>1, <1>2, <1>3, <1>4, <1>6, <1>8, <2>1 DEF ColumnInv, Shaped
<1> QED  BY <1>7, <1>8

LEMMA SetColorKeeps ==
  ASSUME ColumnInv, NEW h, NEW s, NEW i, SetColor(h, s, i)
  PROVE  ColumnInv'
<1>1. DOMAIN live' = Fields /\ DOMAIN draft' = Fields /\ col' = col /\ ~Direct(col)
  BY DEF SetColor, ColumnInv, Shaped, Direct
<1> DEFINE x == Fader(device, col, live', draft', FALSE)
<1>2. DOMAIN x = Parts /\ x.buttons = device.buttons
  BY FaderShows, ZenonT(60) DEF ColumnInv, Shaped
<1>3. device' = RingAndMeter(x, col, live', draft') /\ Tell(col, live', draft')
  BY DEF SetColor
<1> HIDE DEF x
<1>4. /\ DOMAIN device' = Parts /\ device'.buttons = device.buttons
      /\ col.active => device'.ring = Edited(col, live', draft').HUE
      /\ col.active => device'.meter = Edited(col, live', draft').SATURATION
  BY <1>1, <1>2, <1>3, RingAndMeterShow
<1>5. DeviceShowsEdited'
  BY <1>1, <1>4, ShowsEdited DEF ColumnInv, DeviceShowsEdited
<1>6. ClientsKnow'
  BY <1>1, <1>3 DEF Tell, ClientsKnow
<1> QED  BY <1>1, <1>4, <1>5, <1>6 DEF ColumnInv, Shaped

LEMMA SetUvKeeps ==
  ASSUME ColumnInv, NEW uv, SetUv(uv)
  PROVE  ColumnInv'
<1>1. /\ DOMAIN live' = Fields /\ DOMAIN draft' = Fields /\ col' = col /\ device' = device
      /\ Tell(col, live', draft')
      /\ \A f \in Fields \ {"UV"} : live'[f] = live[f] /\ draft'[f] = draft[f]
  BY DEF SetUv, Edit, ColumnInv, Shaped, Fields
<1>2. /\ Edited(col, live', draft').HUE = Edited(col, live, draft).HUE
      /\ Edited(col, live', draft').SATURATION = Edited(col, live, draft).SATURATION
      /\ Edited(col, live', draft')[Half(col)] = Edited(col, live, draft)[Half(col)]
  BY <1>1 DEF Edited, Half, Fields
<1>3. DeviceShowsEdited'
  BY <1>1, <1>2, ShowsEdited DEF ColumnInv, DeviceShowsEdited
<1> QED  BY <1>1, <1>3 DEF ColumnInv, Shaped, ClientsKnow, Tell

LEMMA SetRawKeeps ==
  ASSUME ColumnInv, NEW p, NEW q, SetRaw(p, q)
  PROVE  ColumnInv'
<1>1. /\ DOMAIN live' = Fields /\ UNCHANGED <<col, draft>> /\ Tell(col, live', draft)
      /\ live'.HUE = live.HUE /\ live'.SATURATION = live.SATURATION
  BY DEF SetRaw, ColumnInv, Shaped, Fields
<1> DEFINE x == Fader(device, col, live', draft, FALSE)
<1>2. /\ DOMAIN x = Parts /\ x.ring = device.ring /\ x.meter = device.meter /\ x.buttons = device.buttons
      /\ col.active /\ ~col.ready => x.fader = Edited(col, live', draft)[Half(col)]
  BY FaderShows, ZenonT(60) DEF ColumnInv, Shaped
<1>3. device' = Ring(x, col, live', draft)
  BY DEF SetRaw
<1> HIDE DEF x
<1>4. /\ DOMAIN device' = Parts /\ device'.fader = x.fader
      /\ device'.meter = device.meter /\ device'.buttons = device.buttons
      /\ col.active /\ ~Direct(col) => device'.ring = Edited(col, live', draft).HUE
  BY <1>2, <1>3, RingShows
<1>5. DeviceShowsEdited'
  BY <1>1, <1>2, <1>4, ShowsEdited DEF ColumnInv, DeviceShowsEdited, Edited
<1> QED  BY <1>1, <1>4, <1>5 DEF ColumnInv, Shaped, ClientsKnow, Tell

-----------------------------------------------------------------------------
(* Changes of the flags                                                     *)

LEMMA RotaryButtonKeeps ==
  ASSUME ColumnInv, RotaryButton
  PROVE  ColumnInv'
<1>1. /\ DOMAIN col' = Flags /\ UNCHANGED <<live, draft, clients>>
      /\ col'.mode = col.mode /\ col'.active = col.active /\ col'.ready = col.ready
      /\ col'.flash = col.flash /\ col'.black = col.black
  BY DEF RotaryButton, ColumnInv, Shaped, Flags
<1>2. /\ Edited(col', live, draft) = Edited(col, live, draft) /\ (Direct(col') <=> Direct(col))
      /\ Message(col', Edited(col, live, draft)) = Message(col, Edited(col, live, draft))
  BY <1>1 DEF Edited, Direct, Message
<1>3. ClientsKnow'
  BY <1>1, <1>2 DEF ColumnInv, ClientsKnow
<1>4. CASE Direct(col)
  <2>1. device' = Fader(device, col', live, draft, FALSE)
    BY <1>4 DEF RotaryButton
  <2>2. /\ DOMAIN device' = Parts /\ device'.buttons = device.buttons
        /\ col.active /\ ~col.ready => device'.fader = Edited(col', live, draft)[Half(col')]
    BY <1>1, <2>1 DEF Fader, ColumnInv, Shaped, Parts
  <2>3. DeviceShowsEdited'
    BY <1>1, <1>2, <1>4, <2>2, ShowsEdited DEF ColumnInv, DeviceShowsEdited
  <2> QED  BY <1>1, <1>3, <2>2, <2>3 DEF ColumnInv, Shaped
<1>5. CASE ~Direct(col)
  <2>1. device' = device
    BY <1>5 DEF RotaryButton
  <2>2. DeviceShowsEdited'
    BY <1>1, <1>2, <1>5, <2>1, ShowsEdited DEF ColumnInv, DeviceShowsEdited
  <2> QED  BY <1>1, <1>3, <2>1, <2>2 DEF ColumnInv, Shaped
<1> QED  BY <1>4, <1>5

LEMMA PressReadyButtonKeeps ==
  ASSUME ColumnInv, PressReadyButton
  PROVE  ColumnInv'
<1> DEFINE dev == Buttons(device, col')
           x == Fader(dev, col', live, draft', FALSE)
<1>1. /\ col' = [col EXCEPT !.ready = ~col.ready]
      /\ draft' = (IF col.ready THEN draft ELSE live) /\ live' = live
      /\ clients' = (IF col.ready THEN Dropped ELSE clients)
      /\ device' = RingAndMeter(x, col', live, draft')
  BY DEF PressReadyButton
<1>2. DOMAIN dev = Parts /\ (col'.active => dev.buttons = <<col'.ready, col'.flash, col'.black>>)
  BY ButtonsShow DEF ColumnInv, Shaped
<1> HIDE DEF dev
<1>3. /\ DOMAIN x = Parts /\ x.buttons = dev.buttons
      /\ col'.active /\ ~col'.ready => x.fader = Edited(col', live, draft')[Half(col')]
  BY <1>2 DEF Fader, Parts
<1> HIDE DEF x
<1>4. /\ DOMAIN device' = Parts /\ device'.fader = x.fader /\ device'.buttons = x.buttons
      /\ col'.active /\ ~Direct(col') => device'.ring = Edited(col', live, draft').HUE
      /\ col'.active /\ ~Direct(col') => device'.meter = Edited(col', live, draft').SATURATION
  BY <1>1, <1>3 DEF RingAndMeter, Ring, Meter, Parts
<1>5. DeviceShowsEdited'
  BY <1>1, <1>2, <1>3, <1>4, ShowsEdited
<1>6. /\ DOMAIN col' = Flags /\ col'.mode = col.mode /\ (col'.ready <=> ~col.ready)
  BY <1>1 DEF ColumnInv, Shaped, Flags
<1>7. ClientsKnow'
  <2>1. CASE col.ready
    BY <1>1, <2>1 DEF ClientsKnow, Dropped
  <2>2. CASE ~col.ready
    <3>1. Edited(col', live', draft') = Edited(col, live, draft)
      BY <1>1, <1>6, <2>2 DEF Edited
    <3>2. Message(col', Edited(col, live, draft)) = Message(col, Edited(col, live, draft))
      BY <1>6 DEF Message
    <3> QED  BY <1>1, <2>2, <3>1, <3>2 DEF ColumnInv, ClientsKnow
  <2> QED  BY <2>1, <2>2
<1> QED  BY <1>1, <1>4, <1>5, <1>6, <1>7 DEF ColumnInv, Shaped

LEMMA LightsKeep ==
  ASSUME ColumnInv, BlackButton \/ \E pressed \in BOOLEAN : FlashButton(pressed)
  PROVE  ColumnInv'
<1>1. /\ UNCHANGED <<live, draft, clients>> /\ device' = Buttons(device, col')
      /\ DOMAIN col' = Flags /\ col'.mode = col.mode /\ col'.active = col.active
      /\ col'.ready = col.ready /\ col'.on_primary = col.on_primary
  BY DEF BlackButton, FlashButton, ColumnInv, Shaped, Flags
<1>2. /\ DOMAIN device' = Parts /\ device'.fader = device.fader /\ device'.ring = device.ring
      /\ device'.meter = device.meter /\ device'.committed = device.committed
      /\ col'.active => device'.buttons = <<col'.ready, col'.flash, col'.black>>
  BY <1>1, ButtonsShow DEF ColumnInv, Shaped
<1>3. /\ Edited(col', live, draft) = Edited(col, live, draft)
      /\ Half(col') = Half(col) /\ (Direct(col') <=> Direct(col))
      /\ Message(col', Edited(col, live, draft)) = Message(col, Edited(col, live, draft))
  BY <1>1 DEF Edited, Half, Direct, Message
<1>4. DeviceShowsEdited'
  BY <1>1, <1>2, <1>3, ShowsEdited DEF ColumnInv, DeviceShowsEdited
<1> QED  BY <1>1, <1>2, <1>3, <1>4 DEF ColumnInv, Shaped, ClientsKnow

LEMMA ActivateColumnKeeps ==
  ASSUME ColumnInv, NEW state \in BOOLEAN, ActivateColumn(state)
  PROVE  ColumnInv'
<1>1. /\ UNCHANGED <<live, draft, clients>> /\ DOMAIN col' = Flags
      /\ col'.mode = col.mode /\ col'.active = state /\ col'.ready = col.ready
  BY DEF ActivateColumn, ColumnInv, Shaped, Flags
<1>2. /\ Edited(col', live, draft) = Edited(col, live, draft)
      /\ Message(col', Edited(col, live, draft)) = Message(col, Edited(col, live, draft))
  BY <1>1 DEF Edited, Message
<1>3. ClientsKnow'
  BY <1>1, <1>2 DEF ColumnInv, ClientsKnow
<1>4. CASE state
  <2> DEFINE x == Fader(device, col', live, draft, TRUE)
             y == RingAndMeter(x, col', live, draft)
  <2>1. DOMAIN x = Parts /\ x.fader = Edited(col', live, draft)[Half(col')]
    BY <1>1, <1>4, FaderActivated DEF ColumnInv, Shaped
  <2> HIDE DEF x
  <2>2. /\ DOMAIN y = Parts /\ y.fader = x.fader
        /\ ~Direct(col') => y.ring = Edited(col', live, draft).HUE
        /\ ~Direct(col') => y.meter = Edited(col', live, draft).SATURATION
    BY <1>1, <1>4, <2>1, RingAndMeterShow
  <2>3. device' = Buttons(y, col')
    BY <1>4 DEF ActivateColumn, x
  <2> HIDE DEF y
  <2>4. /\ DOMAIN device' = Parts /\ device'.fader = y.fader
        /\ device'.ring = y.ring /\ device'.meter = y.meter
        /\ device'.buttons = <<col'.ready, col'.flash, col'.black>>
    BY <1>1, <1>4, <2>2, <2>3, ButtonsShow
  <2>5. DeviceShowsEdited'
    BY <1>1, <2>1, <2>2, <2>4, ShowsEdited
  <2> QED  BY <1>1, <1>3, <2>4, <2>5 DEF ColumnInv, Shaped
<1>5. CASE ~state
  <2>1. device' = Other
    BY <1>5 DEF ActivateColumn
  <2>2. DeviceShowsEdited'
    BY <1>1, <1>5 DEF DeviceShowsEdited
  <2> QED  BY <1>1, <1>3, <2>1, <2>2, OtherShaped DEF ColumnInv, Shaped
<1> QED  BY <1>4, <1>5

LEMMA CommitKeeps ==
  ASSUME ColumnInv, Commit
  PROVE  ColumnInv'
<1> DEFINE b == Buttons(device, col')
           x == Meter(b, col', live', draft')
<1>1. /\ col' = [col EXCEPT !.ready = FALSE] /\ live' = draft /\ draft' = draft /\ col.ready
      /\ device' = [x EXCEPT !.committed = col.active]
      /\ Tell(col', live', draft)
  BY DEF Commit
<1>2. /\ DOMAIN col' = Flags /\ col'.mode = col.mode /\ col'.active = col.active /\ ~col'.ready
  BY <1>1 DEF ColumnInv, Shaped, Flags
<1>3. /\ DOMAIN b = Parts /\ b.ring = device.ring
      /\ col.active => b.buttons = <<col'.ready, col'.flash, col'.black>>
  BY <1>2, ButtonsShow DEF ColumnInv, Shaped
<1> HIDE DEF b
<1>4. /\ DOMAIN x = Parts /\ x.ring = b.ring /\ x.buttons = b.buttons
      /\ col.active /\ ~Direct(col') => x.meter = Edited(col', live', draft').SATURATION
  BY <1>2, <1>3, MeterShows
<1> HIDE DEF x
<1>5. /\ DOMAIN device' = Parts /\ device'.ring = device.ring /\ device'.buttons = x.buttons
      /\ device'.meter = x.meter /\ device'.committed = col.active
  BY <1>1, <1>3, <1>4 DEF Parts
<1>6. Edited(col', live', draft') = Edited(col, live, draft) /\ (Direct(col') <=> Direct(col))
  BY <1>1, <1>2 DEF Edited, Direct
<1>7. DeviceShowsEdited'
  BY <1>2, <1>3, <1>4, <1>5, <1>6, ShowsEdited DEF ColumnInv, DeviceShowsEdited
<1>8. ClientsKnow'
  BY <1>1 DEF Tell, ClientsKnow
<1> QED  BY <1>1, <1>2, <1>5, <1>7, <1>8 DEF ColumnInv, Shaped

LEMMA UpdateKeeps ==
  ASSUME ColumnInv, Update
  PROVE  ColumnInv'
<1>1. /\ UNCHANGED <<live, draft, device, clients>>
      /\ DOMAIN col' = Flags /\ col'.mode = col.mode /\ col'.active = col.active
      /\ col'.ready = col.ready /\ col'.on_primary = col.on_primary
      /\ col'.flash = col.flash /\ col'.black = col.black
  BY DEF Update, ColumnInv, Shaped, Flags
<1>2. /\ Edited(col', live, draft) = Edited(col, live, draft)
      /\ Half(col') = Half(col) /\ (Direct(col') <=> Direct(col))
      /\ Message(col', Edited(col, live, draft)) = Message(col, Edited(col, live, draft))
  BY <1>1 DEF Edited, Half, Direct, Message
<1>3. DeviceShowsEdited'
  BY <1>1, <1>2, ShowsEdited DEF ColumnInv, DeviceShowsEdited
<1> QED  BY <1>1, <1>2, <1>3 DEF ColumnInv, Shaped, ClientsKnow

-----------------------------------------------------------------------------
LEMMA ColumnInvStep == ColumnInv /\ [ColumnNext]_columnVars => ColumnInv'
<1> SUFFICES ASSUME ColumnInv, [ColumnNext]_columnVars  PROVE ColumnInv'
  OBVIOUS
<1>1. CASE DeviceInput
  BY <1>1, FaderChangeKeeps, EncoderChangeKeeps, RotaryButtonKeeps, PressReadyButtonKeeps, LightsKeep
  DEF DeviceInput
<1>2. CASE ClientMessage
  BY <1>2, SetColorKeeps, SetUvKeeps, SetRawKeeps DEF ClientMessage, ClientColour
<1>3. CASE Commit \/ Update \/ \E state \in BOOLEAN : ActivateColumn(state)
  BY <1>3, CommitKeeps, UpdateKeeps, ActivateColumnKeeps
<1>4. CASE UNCHANGED columnVars
  BY <1>4 DEF columnVars, ColumnInv, Shaped, ClientsKnow, DeviceShowsEdited
<1> QED  BY <1>1, <1>2, <1>3, <1>4 DEF ColumnNext

(* Whoever edits a column, on the device, in a client or by a commit, the   *)
(* clients know the values that are edited, until a draft is dropped        *)
(* (bank_column.cpp:118-136, 144-215, 533-540, 584-610).                    *)
THEOREM ClientsAlwaysKnow == ColumnSpec => []ClientsKnow
<1>1. ColumnInv => ClientsKnow
  BY DEF ColumnInv
<1> QED  BY <1>1, ColumnInvInit, ColumnInvStep, PTL DEF ColumnSpec

(* A column that is on the device shows what is edited there, in ready mode *)
(* and out of it, also after it was taken off the device and put back       *)
(* (bank_column.cpp:38-64, 244-290, 449-519).                               *)
THEOREM DeviceAlwaysShowsEdited == ColumnSpec => []DeviceShowsEdited
<1>1. ColumnInv => DeviceShowsEdited
  BY DEF ColumnInv
<1> QED  BY <1>1, ColumnInvInit, ColumnInvStep, PTL DEF ColumnSpec

(* What is done on the device to a column in ready mode does not reach the  *)
(* values that filters read (bank_column.cpp:118-262).                      *)
THEOREM DraftsAlwaysPrivate == ColumnSpec => DraftsStayPrivate
<1>1. ASSUME DeviceInput, col.ready  PROVE live' = live
  BY <1>1 DEF DeviceInput, FaderChange, EncoderChange, Edit, RotaryButton, PressReadyButton,
     BlackButton, FlashButton
<1>2. [ColumnNext]_columnVars => [col.ready /\ live' # live => ~DeviceInput]_columnVars
  BY <1>1
<1> QED  BY <1>2, PTL DEF ColumnSpec, DraftsStayPrivate
-----------------------------------------------------------------------------
(* The ranges of the values.  What the encoder is assigned to is a colour   *)
(* value, and its steps add up to a whole number.                           *)

FaderRange == 0 .. FaderPositions - 1
Colours == {"HUE", "SATURATION", "AMBER", "UV"}

RangeInv ==
  /\ ValuesInRange
  /\ DOMAIN col = Flags /\ col.accumulated \in Nat /\ col.assignment \in Colours

LEMMA FaderBounds ==
  /\ FaderPositions \in Nat \ {0} /\ HueTop \in Nat \ {0} /\ Top \in Nat \ {0}
  /\ MaxAccumulated \in Nat \ {0} /\ HueBound \in Nat \ {0} /\ HueTop <= HueBound
  BY ColumnAssumption DEF ColumnAssumption

LEMMA RangeInvInit == ColumnInit => RangeInv
<1> SUFFICES ASSUME ColumnInit  PROVE RangeInv
  OBVIOUS
<1>1. Zero \in Values
  BY FaderBounds DEF Zero, Values
<1> QED  BY <1>1 DEF ColumnInit, RangeInv, ValuesInRange, Flags, Colours

(* A position is set, of one half or of a colour.                           *)
LEMMA PositionsSet ==
  ASSUME NEW l \in Values, NEW p \in FaderRange
  PROVE  /\ \A h \in {"primary", "secondary"} : [l EXCEPT ![h] = p] \in Values
         /\ [l EXCEPT !.primary = p, !.intensity = p] \in Values
<1>1. p \in Int /\ p \in 0..(FaderPositions - 1)
  BY FaderBounds DEF FaderRange
<1> QED  BY <1>1 DEF Values

LEMMA PositionTurned ==
  ASSUME NEW l \in Values, NEW h \in {"primary", "secondary"}, NEW change \in Int
  PROVE  [l EXCEPT ![h] = (l[h] + change) % FaderPositions] \in Values
<1>1. l[h] \in Int
  BY FaderBounds DEF Values
<1>2. (l[h] + change) % FaderPositions \in FaderRange
  BY <1>1, FaderBounds DEF FaderRange
<1> QED  BY <1>2, PositionsSet

(* One turn of the encoder in a mode of a colour; the hue is bounded.       *)
LEMMA ColourTurned ==
  ASSUME NEW l \in Values, NEW a \in Colours, NEW change \in Int,
         NEW w, w = [l EXCEPT ![a] = IF a = "HUE" THEN WrappedOnce(l[a] + change)
                                     ELSE Clamped(l[a] + change)],
         w.HUE \in -HueBound..HueBound
  PROVE  w \in Values
<1>1. CASE a = "HUE"
  <2>1. w = [l EXCEPT !.HUE = w.HUE]
    BY <1>1 DEF Values
  <2> QED  BY <2>1 DEF Values
<1>2. CASE a # "HUE"
  <2>1. l[a] \in Int
    BY <1>2, FaderBounds DEF Values, Colours
  <2>2. Clamped(l[a] + change) \in 0..Top
    BY <2>1, FaderBounds DEF Clamped
  <2> DEFINE y == Clamped(l[a] + change)
  <2>3. w = [l EXCEPT ![a] = y]
    BY <1>2
  <2> HIDE DEF y
  <2>4. a \in {"SATURATION", "AMBER", "UV"} /\ y \in 0..Top
    BY <1>2, <2>2 DEF Colours, y
  <2> QED  BY <2>3, <2>4 DEF Values
<1> QED  BY <1>1, <1>2

LEMMA FaderChangeRange ==
  ASSUME RangeInv, NEW p \in FaderRange, FaderChange(p)
  PROVE  RangeInv'
<1>1. live \in Values /\ draft \in Values /\ Half(col) \in {"primary", "secondary"} /\ col' = col
  BY DEF RangeInv, ValuesInRange, Half, FaderChange
<1>2. \A v \in Values : (IF Direct(col) THEN [v EXCEPT ![Half(col)] = p]
                         ELSE [v EXCEPT !.primary = p, !.intensity = p]) \in Values
  BY <1>1, PositionsSet
<1>3. live' \in Values /\ draft' \in Values
  BY <1>1, <1>2 DEF FaderChange, Edit
<1> QED  BY <1>1, <1>3 DEF RangeInv, ValuesInRange

LEMMA EncoderChangeRange ==
  ASSUME RangeInv, NEW request \in {-1, 1}, EncoderChange(request)
  PROVE  RangeInv'
<1> DEFINE acc == IF col.accumulated < MaxAccumulated THEN col.accumulated + 1 ELSE col.accumulated
           change == request * acc
           raw(v) == [v EXCEPT ![Half(col)] = (v[Half(col)] + change) % FaderPositions]
           Turned(v) == IF Direct(col) THEN raw(v)
                        ELSE [raw(v) EXCEPT ![col.assignment] =
                               IF col.assignment = "HUE" THEN WrappedOnce(raw(v)[col.assignment] + change)
                               ELSE Clamped(raw(v)[col.assignment] + change)]
<1>1. /\ live \in Values /\ draft \in Values /\ Half(col) \in {"primary", "secondary"}
      /\ col.assignment \in Colours /\ DOMAIN col = Flags
  BY DEF RangeInv, ValuesInRange, Half
<1>2. acc \in Nat /\ change \in Int
  BY FaderBounds DEF RangeInv
<1>3. /\ col' = [col EXCEPT !.accumulated = acc]
      /\ IF col.ready THEN draft' = Turned(draft) /\ UNCHANGED live
         ELSE live' = Turned(live) /\ UNCHANGED draft
      /\ live'.HUE \in -HueBound..HueBound /\ draft'.HUE \in -HueBound..HueBound
  BY DEF EncoderChange, Edit
<1> HIDE DEF acc, change
<1>4. \A v \in Values : raw(v) \in Values
  BY <1>1, <1>2, PositionTurned
<1>5. ASSUME NEW v \in Values, Turned(v).HUE \in -HueBound..HueBound  PROVE Turned(v) \in Values
  <2>1. raw(v) \in Values
    BY <1>4
  <2> HIDE DEF raw
  <2>2. CASE Direct(col)
    BY <2>1, <2>2
  <2>3. CASE ~Direct(col)
    <3>1. Turned(v) = [raw(v) EXCEPT ![col.assignment] =
                         IF col.assignment = "HUE" THEN WrappedOnce(raw(v)[col.assignment] + change)
                         ELSE Clamped(raw(v)[col.assignment] + change)]
      BY <2>3
    <3> HIDE DEF Turned
    <3> QED  BY <1>1, <1>2, <1>5, <2>1, <3>1, ColourTurned
  <2> QED  BY <2>2, <2>3
<1> HIDE DEF Turned
<1>6. live' \in Values /\ draft' \in Values
  BY <1>1, <1>3, <1>5
<1>7. DOMAIN col' = Flags /\ col'.accumulated \in Nat /\ col'.assignment \in Colours
  BY <1>1, <1>2, <1>3 DEF Flags
<1> QED  BY <1>6, <1>7 DEF RangeInv, ValuesInRange

LEMMA FlagsRange ==
  ASSUME RangeInv,
         \/ RotaryButton \/ PressReadyButton \/ BlackButton \/ Commit \/ Update
         \/ \E pressed \in BOOLEAN : FlashButton(pressed)
         \/ \E state \in BOOLEAN : ActivateColumn(state)
  PROVE  RangeInv'
<1>1. live' \in Values /\ draft' \in Values
  BY DEF RangeInv, ValuesInRange, RotaryButton, PressReadyButton, BlackButton, FlashButton,
     Commit, Update, ActivateColumn
<1> DEFINE Kept == DOMAIN col' = Flags /\ col'.accumulated \in Nat /\ col'.assignment \in Colours
<1>a. DOMAIN col = Flags /\ col.accumulated \in Nat /\ col.assignment \in Colours
  BY DEF RangeInv
<1>b. NextAssignment(col) \in Colours
  <2>1. CASE col.assignment = "HUE"
    BY <2>1 DEF NextAssignment, Colours
  <2>2. CASE col.assignment = "SATURATION" /\ col.mode \in {"amber", "amber_uv"}
    BY <2>2 DEF NextAssignment, Colours
  <2>3. CASE col.assignment = "SATURATION" /\ col.mode = "uv"
    BY <2>3 DEF NextAssignment, Colours
  <2>4. CASE col.assignment = "AMBER" /\ col.mode = "amber_uv"
    BY <2>4 DEF NextAssignment, Colours
  <2>5. CASE /\ col.assignment # "HUE"
             /\ ~(col.assignment = "SATURATION" /\ col.mode \in {"amber", "amber_uv"})
             /\ ~(col.assignment = "SATURATION" /\ col.mode = "uv")
             /\ ~(col.assignment = "AMBER" /\ col.mode = "amber_uv")
    BY <2>5 DEF NextAssignment, Colours
  <2> QED  BY <2>1, <2>2, <2>3, <2>4, <2>5
<1>c. ASSUME RotaryButton  PROVE Kept
  <2>1. CASE Direct(col)
    <3>1. col' = [col EXCEPT !.on_primary = ~col.on_primary]
      BY <1>c, <2>1 DEF RotaryButton
    <3> QED  BY <1>a, <3>1 DEF Flags
  <2>2. CASE ~Direct(col)
    <3>1. col' = [col EXCEPT !.assignment = NextAssignment(col)]
      BY <1>c, <2>2 DEF RotaryButton
    <3> QED  BY <1>a, <1>b, <3>1 DEF Flags
  <2> QED  BY <2>1, <2>2
<1>d. ASSUME PressReadyButton  PROVE Kept
  BY <1>a, <1>d DEF PressReadyButton, Flags
<1>e. ASSUME BlackButton  PROVE Kept
  BY <1>a, <1>e DEF BlackButton, Flags
<1>f. ASSUME Commit  PROVE Kept
  BY <1>a, <1>f DEF Commit, Flags
<1>g. ASSUME Update  PROVE Kept
  BY <1>a, <1>g, 0 \in Nat DEF Update, Flags
<1>h. ASSUME NEW pressed \in BOOLEAN, FlashButton(pressed)  PROVE Kept
  BY <1>a, <1>h DEF FlashButton, Flags
<1>i. ASSUME NEW state \in BOOLEAN, ActivateColumn(state)  PROVE Kept
  BY <1>a, <1>i DEF ActivateColumn, Flags
<1>2. Kept
  BY <1>c, <1>d, <1>e, <1>f, <1>g, <1>h, <1>i
<1> QED  BY <1>1, <1>2 DEF RangeInv, ValuesInRange

LEMMA MessageRange ==
  ASSUME RangeInv, ClientMessage
  PROVE  RangeInv'
<1>0. live \in Values /\ draft \in Values
  BY DEF RangeInv, ValuesInRange
<1>1. ASSUME NEW h \in -HueBound..HueBound, NEW s \in Int, NEW i \in Int, SetColor(h, s, i)
      PROVE  RangeInv'
  <2>1. PositionsOf(i) \subseteq FaderRange
    BY DEF PositionsOf, FaderRange
  <2>2. PICK p \in PositionsOf(i) :
          /\ live' = [live EXCEPT !.HUE = h, !.SATURATION = s, !.intensity = i,
                                  !.primary = IF col.ready THEN live.primary ELSE p]
          /\ draft' = [draft EXCEPT !.primary = IF col.ready THEN p ELSE draft.primary]
          /\ col' = col
    BY <1>1 DEF SetColor
  <2>3. live' \in Values /\ draft' \in Values
    BY <1>0, <2>1, <2>2 DEF Values, FaderRange
  <2> QED  BY <2>2, <2>3 DEF RangeInv, ValuesInRange
<1>2. ASSUME NEW uv \in 0..Top, SetUv(uv)  PROVE RangeInv'
  <2>1. \A v \in Values : [v EXCEPT !.UV = uv] \in Values
    BY DEF Values
  <2>2. live' \in Values /\ draft' \in Values /\ col' = col
    BY <1>0, <1>2, <2>1 DEF SetUv, Edit
  <2> QED  BY <2>2 DEF RangeInv, ValuesInRange
<1>3. ASSUME NEW p \in FaderRange, NEW q \in FaderRange, SetRaw(p, q)  PROVE RangeInv'
  <2>1. live' = [live EXCEPT !.primary = p, !.secondary = q] /\ draft' = draft /\ col' = col
    BY <1>3 DEF SetRaw
  <2>2. live' \in Values
    BY <1>0, <2>1 DEF Values, FaderRange
  <2> QED  BY <1>0, <2>1, <2>2 DEF RangeInv, ValuesInRange
<1>4. /\ \A c \in ClientColours : c[1] \in -HueBound..HueBound /\ c[2] \in Int /\ c[3] \in Int
      /\ \A c \in ClientPositions : c[1] \in FaderRange /\ c[2] \in FaderRange
  BY ColumnAssumption DEF ColumnAssumption, FaderRange
<1> QED  BY <1>1, <1>2, <1>3, <1>4 DEF ClientMessage, ClientColour

LEMMA RangeInvStep == RangeInv /\ [ColumnNext]_columnVars => RangeInv'
<1> SUFFICES ASSUME RangeInv, [ColumnNext]_columnVars  PROVE RangeInv'
  OBVIOUS
<1>1. CASE DeviceInput
  BY <1>1, FaderChangeRange, EncoderChangeRange, FlagsRange DEF DeviceInput, FaderRange
<1>2. CASE ClientMessage
  BY <1>2, MessageRange
<1>3. CASE Commit \/ Update \/ \E state \in BOOLEAN : ActivateColumn(state)
  BY <1>3, FlagsRange
<1>4. CASE UNCHANGED columnVars
  BY <1>4 DEF columnVars, RangeInv, ValuesInRange
<1> QED  BY <1>1, <1>2, <1>3, <1>4 DEF ColumnNext

(* Only a client's colour takes saturation or intensity out of its range.   *)
LEMMA ColoursKept ==
  ASSUME RangeInv, ColumnNext, ~ClientColour,
         NEW v \in {live', draft'}, NEW m \in DOMAIN ColourRanges
  PROVE  v[m] \in ColourRanges[m] \cup {live[m], draft[m]}
<1>a. m \in {"SATURATION", "intensity"} /\ live \in Values /\ draft \in Values
  BY DEF ColourRanges, RangeInv, ValuesInRange
<1>b. ColourRanges["SATURATION"] = 0..Top /\ ColourRanges["intensity"] = FaderRange
  BY DEF ColourRanges, FaderRange
<1>c. Half(col) \in {"primary", "secondary"}
  BY DEF Half
<1>1. ASSUME NEW p \in FaderRange, FaderChange(p)
      PROVE  v[m] \in ColourRanges[m] \cup {live[m], draft[m]}
  <2> DEFINE New(l) == IF Direct(col) THEN [l EXCEPT ![Half(col)] = p]
                       ELSE [l EXCEPT !.primary = p, !.intensity = p]
  <2>1. \A l \in Values : New(l)[m] \in ColourRanges[m] \cup {l[m]}
    <3> SUFFICES ASSUME NEW l \in Values
                 PROVE  /\ [l EXCEPT ![Half(col)] = p][m] = l[m]
                        /\ [l EXCEPT !.primary = p, !.intensity = p][m]
                              \in ColourRanges[m] \cup {l[m]}
      OBVIOUS
    <3>1. [l EXCEPT ![Half(col)] = p][m] = l[m]
      BY <1>a, <1>c DEF Values
    <3>2. CASE m = "intensity"
      <4>1. [l EXCEPT !.primary = p, !.intensity = p].intensity = p
        BY DEF Values
      <4> QED  BY <1>b, <3>1, <3>2, <4>1
    <3>3. CASE m = "SATURATION"
      <4>1. [l EXCEPT !.primary = p, !.intensity = p].SATURATION = l.SATURATION
        BY DEF Values
      <4> QED  BY <3>1, <3>3, <4>1
    <3> QED  BY <1>a, <3>1, <3>2, <3>3
  <2>2. \/ draft' = New(draft) /\ live' = live
        \/ live' = New(live) /\ draft' = draft
    BY <1>1 DEF FaderChange, Edit
  <2> HIDE DEF New
  <2> QED  BY <1>a, <2>1, <2>2
<1>2. ASSUME NEW request \in {-1, 1}, EncoderChange(request)
      PROVE  v[m] \in ColourRanges[m] \cup {live[m], draft[m]}
  <2> DEFINE acc == IF col.accumulated < MaxAccumulated THEN col.accumulated + 1
                    ELSE col.accumulated
             change == request * acc
             raw(l) == [l EXCEPT ![Half(col)] = (l[Half(col)] + change) % FaderPositions]
             Turned(l) == IF Direct(col) THEN raw(l)
                          ELSE [raw(l) EXCEPT ![col.assignment] =
                                 IF col.assignment = "HUE" THEN WrappedOnce(raw(l)[col.assignment] + change)
                                 ELSE Clamped(raw(l)[col.assignment] + change)]
  <2>1. change \in Int /\ col.assignment \in Colours
    BY FaderBounds DEF RangeInv
  <2>2. IF col.ready THEN draft' = Turned(draft) /\ UNCHANGED live
        ELSE live' = Turned(live) /\ UNCHANGED draft
    BY <1>2 DEF EncoderChange, Edit
  <2> HIDE DEF acc, change
  <2>3. ASSUME NEW l \in Values  PROVE Turned(l)[m] \in ColourRanges[m] \cup {l[m]}
    <3>1. raw(l) \in Values /\ raw(l)[m] = l[m]
      <4>1. raw(l) \in Values
        BY <1>c, <2>1, PositionTurned
      <4> QED  BY <1>a, <1>c, <4>1 DEF Values
    <3> HIDE DEF raw
    <3>2. CASE Direct(col) \/ col.assignment # m
      BY <1>a, <3>1, <3>2 DEF Values
    <3>3. CASE ~Direct(col) /\ col.assignment = m
      <4>1. m = "SATURATION"
        BY <1>a, <2>1, <3>3 DEF Colours
      <4>2. Clamped(l[m] + change) \in 0..Top
        <5>1. l[m] + change \in Int
          BY <2>1, <4>1 DEF Values
        <5> QED  BY <5>1, FaderBounds DEF Clamped
      <4>3. Turned(l) = [raw(l) EXCEPT !.SATURATION = Clamped(raw(l).SATURATION + change)]
        BY <3>3, <4>1
      <4>4. DOMAIN raw(l) = Fields
        BY <3>1 DEF Values, Fields
      <4> QED  BY <1>b, <3>1, <4>1, <4>2, <4>3, <4>4 DEF Fields
    <3> QED  BY <3>2, <3>3
  <2> HIDE DEF Turned
  <2> QED  BY <1>a, <2>2, <2>3
<1>3. CASE \/ RotaryButton \/ PressReadyButton \/ BlackButton \/ Commit \/ Update
           \/ \E pressed \in BOOLEAN : FlashButton(pressed)
           \/ \E state \in BOOLEAN : ActivateColumn(state)
  BY <1>3 DEF RotaryButton, PressReadyButton, BlackButton, FlashButton, Commit, Update,
              ActivateColumn
<1>4. CASE \E uv \in 0..Top : SetUv(uv)
  BY <1>4, <1>a DEF SetUv, Edit, Values
<1>5. CASE \E c \in ClientPositions : SetRaw(c[1], c[2])
  BY <1>5, <1>a DEF SetRaw, Values
<1> QED
  BY <1>1, <1>2, <1>3, <1>4, <1>5 DEF ColumnNext, DeviceInput, ClientMessage, FaderRange

(* However far the encoder is turned and whatever clients send: positions,  *)
(* amber and uv stay in their ranges, a saturation or an intensity leaves   *)
(* its range only by a client's message, and the device shows the values    *)
(* that are edited (bank_column.cpp:38-290, 449-531).                       *)
THEOREM ColumnAlwaysSound == ColumnSpec => ColumnSound
<1>1. ColumnInv /\ RangeInv => ValuesInRange /\ DeviceShowsEdited
  BY DEF ColumnInv, RangeInv
<1>2. RangeInv /\ [ColumnNext]_columnVars =>
        [\/ \A v \in {live', draft'}, m \in DOMAIN ColourRanges :
              v[m] \in ColourRanges[m] \cup {live[m], draft[m]}
         \/ ClientColour]_columnVars
  BY ColoursKept
<1> QED
  BY <1>1, <1>2, ColumnInvInit, ColumnInvStep, RangeInvInit, RangeInvStep, PTL
  DEF ColumnSpec, ColumnSound, ColoursInRange
=============================================================================
