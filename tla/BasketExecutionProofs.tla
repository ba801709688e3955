------------------------ MODULE BasketExecutionProofs ------------------------
(***************************************************************************)
(* Proofs about BasketExecution, for any baskets, legs, venues, calls,     *)
(* crashes and faults: what is reported was executed, no leg is placed     *)
(* twice, until a crash a leg's number names its own order, outcomes are   *)
(* final, and what the table and the venues hold of a basket is as its     *)
(* status in memory says.                                                  *)
(***************************************************************************)
EXTENDS BasketExecution, FiniteSetTheorems, WellFoundedInduction, TLAPS

(* Which call is where. *)
CallsInv ==
  \A p \in Procs :
    /\ call[p].pc # "idle" => call[p].basket \in Baskets
    /\ p \in Baskets /\ call[p].pc # "idle" => call[p].basket = p
    /\ p \in Cancellers => call[p].pc \in {"idle", "walk", "leg", "status"}
    /\ call[p].pc = "save" => call[p].n = 0
    /\ call[p].pc = "leg" => call[p].n \in Legs
    /\ call[p].pc \in {"placing", "placed"} =>
         /\ call[p].n \in LegsOf(p)
         /\ call[p].order \in DOMAIN manager[VenueOf[p][call[p].n]]

TypeInv == TypeOK /\ CallsInv

LEMMA LegsTyped ==
  ASSUME NEW b \in Baskets
  PROVE  /\ LegsOf(b) \subseteq Legs
         /\ \A n \in LegsOf(b) : VenueOf[b][n] \in Venues
  BY VenuesAssumption DEF LegsOf, Legs

LEMMA ConstantsTyped ==
  /\ MaxLegs \in Nat /\ 0 \in 0..(MaxLegs + 1)
  /\ Fresh \in LegType /\ FreshLegs \in [Legs -> LegType]
  /\ NoRow \in RowType
  /\ Baskets \subseteq Procs /\ Cancellers \subseteq Procs
<1>1. Fresh \in LegType
  BY DEF Fresh, LegType
<1>2. FreshLegs \in [Legs -> LegType]
  BY <1>1 DEF FreshLegs
<1>3. NoRow \in RowType
  BY <1>2 DEF NoRow, RowType
<1> QED
  BY <1>1, <1>2, <1>3, VenuesAssumption DEF Procs

(* A call that waits, or is done. *)
LEMMA IdleTyped ==
  /\ Idle \in CallType /\ Idle.pc = "idle"
  /\ \A b \in Baskets : [Idle EXCEPT !.pc = "save", !.basket = b] \in CallType
  /\ \A b \in Baskets, n \in 0..(MaxLegs + 1) :
       [Idle EXCEPT !.pc = "walk", !.basket = b, !.n = n] \in CallType
  /\ \A b \in Baskets, n \in 0..(MaxLegs + 1), l \in LegType :
       [Idle EXCEPT !.pc = "leg", !.basket = b, !.n = n, !.leg = l] \in CallType
  /\ \A b \in Baskets :
       [Idle EXCEPT !.pc = "status", !.basket = b, !.text = "cancelled"] \in CallType
  BY ConstantsTyped, Zenon DEF Idle, CallType, BasketText

LEMMA CallFields ==
  ASSUME TypeOK, NEW p \in Procs
  PROVE  /\ call[p] \in CallType
         /\ call[p].pc \in {"idle", "save", "walk", "placing", "placed", "leg", "status"}
         /\ call[p].basket \in Baskets \cup {None} /\ call[p].n \in 0..(MaxLegs + 1)
         /\ call[p].leg \in LegType /\ call[p].text \in BasketText /\ call[p].order \in Nat
  BY DEF TypeOK, CallType

(* The types of what a step may leave in a variable. *)
LEMMA PlacedTyped ==
  ASSUME TypeOK, NEW b \in Baskets, NEW n \in Legs
  PROVE  Placed(b, n) \in [Baskets -> [Legs -> [placed : Nat, open : BOOLEAN]]]
<1> DEFINE w == [placed |-> venue[b][n].placed + 1, open |-> TRUE]
<1>1. venue[b] \in [Legs -> [placed : Nat, open : BOOLEAN]]
  BY DEF TypeOK
<1>2. w \in [placed : Nat, open : BOOLEAN]
  BY <1>1
<1>3. [venue[b] EXCEPT ![n] = w] \in [Legs -> [placed : Nat, open : BOOLEAN]]
  BY <1>1, <1>2
<1> QED
  BY <1>3 DEF TypeOK, Placed

LEMMA FaultTyped ==
  ASSUME TypeOK, NEW kind \in {"reads", "writes", "raised", "refused"}, Fault(kind)
  PROVE  faults' \in FaultType /\ faults'.crashes = faults.crashes
<1>1. faults \in FaultType /\ faults' = [faults EXCEPT ![kind] = @ + 1]
  BY DEF TypeOK, Fault
<1>2. CASE kind = "reads"   BY <1>1, <1>2 DEF FaultType
<1>3. CASE kind = "writes"  BY <1>1, <1>3 DEF FaultType
<1>4. CASE kind = "raised"  BY <1>1, <1>4 DEF FaultType
<1>5. CASE kind = "refused" BY <1>1, <1>5 DEF FaultType
<1> QED
  BY <1>2, <1>3, <1>4, <1>5

LEMMA DeriveTyped == \A b : Derive(b) \in BasketText
  BY DEF Derive, BasketText

(* The outcome of a leg. *)
LEMMA OutcomeTyped ==
  ASSUME TypeOK, NEW b \in Baskets, call[b].n \in Legs, NEW l \in LegType, Outcome(b, l)
  PROVE  /\ leg' \in [Baskets -> [Legs -> LegType]]
         /\ leg'[b][call[b].n] = l
         /\ \A c \in Baskets, n \in Legs :
              c # b \/ n # call[b].n => leg'[c][n] = leg[c][n]
         /\ call' \in [Procs -> CallType]
         /\ \A p \in Procs \ {b} : call'[p] = call[p]
         /\ call'[b].pc = "leg" /\ call'[b].leg = l /\ call'[b].n = call[b].n
         /\ call'[b].basket = call[b].basket
<1>1. leg[b] \in [Legs -> LegType] /\ leg' = [leg EXCEPT ![b] = [leg[b] EXCEPT ![call[b].n] = l]]
  BY DEF TypeOK, Outcome
<1>2. b \in Procs /\ call[b] \in CallType
  BY ConstantsTyped, CallFields
<1> DEFINE q == [call[b] EXCEPT !.pc = "leg", !.leg = l, !.order = 0]
<1>3. /\ q \in CallType /\ q.pc = "leg" /\ q.leg = l /\ q.n = call[b].n
      /\ q.basket = call[b].basket
  BY <1>2, Zenon DEF CallType
<1>4. call' = [call EXCEPT ![b] = q]
  BY DEF Outcome
<1> HIDE DEF q
<1> QED
  BY <1>1, <1>2, <1>3, <1>4 DEF TypeOK

-----------------------------------------------------------------------------
(* What cancelling an order leaves alone: the numbers, the owners of the   *)
(* orders, and how often each leg was placed.                              *)
SameOrders ==
  \A v \in Venues :
    /\ DOMAIN manager'[v] = DOMAIN manager[v]
    /\ \A o \in DOMAIN manager[v] : manager'[v][o].ref = manager[v][o].ref
SamePlaced == \A b \in Baskets, n \in Legs : venue'[b][n].placed = venue[b][n].placed

LEMMA ManagerExcept ==
  ASSUME NEW s \in Seq(ManagerType), NEW o \in DOMAIN s
  PROVE  /\ s[o] \in ManagerType
         /\ \A w \in ManagerType : /\ [s EXCEPT ![o] = w] \in Seq(ManagerType)
                                   /\ DOMAIN [s EXCEPT ![o] = w] = DOMAIN s
  OBVIOUS

LEMMA TradeTyped ==
  ASSUME TypeOK, NEW b \in Baskets, NEW n \in LegsOf(b), CancelTrade(b, n)
  PROVE  /\ manager' \in [Venues -> Seq(ManagerType)]
         /\ venue' \in [Baskets -> [Legs -> [placed : Nat, open : BOOLEAN]]]
         /\ faults' \in FaultType /\ faults'.crashes = faults.crashes
         /\ SameOrders /\ SamePlaced
<1> DEFINE v    == VenueOf[b][n]
           o    == leg[b][n].order
           ref  == manager[v][o].ref
           gone == [venue EXCEPT ![ref[1]][ref[2]].open = FALSE]
<1>1. v \in Venues /\ manager[v] \in Seq(ManagerType)
  BY LegsTyped DEF TypeOK
<1>2. manager = manager' \/ (/\ o \in DOMAIN manager[v]
                             /\ manager' = [manager EXCEPT ![v][o].status = "cancelled"])
  BY Zenon DEF CancelTrade
<1>3. venue' = venue \/ (/\ o \in DOMAIN manager[v] /\ ref # None
                         /\ venue' = gone)
  BY Zenon DEF CancelTrade
<1>4. manager' \in [Venues -> Seq(ManagerType)] /\ SameOrders
  <2>1. CASE manager' = manager
    BY <2>1 DEF TypeOK, SameOrders
  <2>2. CASE o \in DOMAIN manager[v] /\ manager' = [manager EXCEPT ![v][o].status = "cancelled"]
    <3> DEFINE w == [manager[v][o] EXCEPT !.status = "cancelled"]
               s == [manager[v] EXCEPT ![o] = w]
    <3>1. manager[v][o] \in ManagerType
      BY <1>1, <2>2, ManagerExcept
    <3>2. w \in ManagerType /\ w.ref = manager[v][o].ref
      BY <3>1, Zenon DEF ManagerType
    <3> HIDE DEF w
    <3>3. s \in Seq(ManagerType) /\ DOMAIN s = DOMAIN manager[v]
      BY <1>1, <2>2, <3>2, ManagerExcept, Zenon
    <3>4. \A i \in DOMAIN manager[v] : s[i].ref = manager[v][i].ref
      BY <2>2, <3>2, Zenon
    <3>5. manager' = [manager EXCEPT ![v] = s]
      BY <2>2 DEF w
    <3> HIDE DEF s
    <3> QED
      BY <1>1, <3>3, <3>4, <3>5 DEF TypeOK, SameOrders
  <2> QED
    BY <1>2, <2>1, <2>2
<1>5. venue' \in [Baskets -> [Legs -> [placed : Nat, open : BOOLEAN]]] /\ SamePlaced
  <2>1. CASE venue' = venue
    BY <2>1 DEF TypeOK, SamePlaced
  <2>2. CASE o \in DOMAIN manager[v] /\ ref # None /\ venue' = gone
    <3>1. ref \in Baskets \X Legs
      <4>0. o \in DOMAIN manager[v] /\ manager[v][o].ref # None
        BY <2>2, Zenon
      <4>1. manager[v][o] \in ManagerType
        BY <1>1, <4>0
      <4> QED
        BY <4>0, <4>1 DEF ManagerType
    <3> DEFINE x == ref[1]
               m == ref[2]
               w == [venue[x][m] EXCEPT !.open = FALSE]
               f == [venue[x] EXCEPT ![m] = w]
    <3>2. x \in Baskets /\ m \in Legs
      BY <3>1
    <3>3. venue[x] \in [Legs -> [placed : Nat, open : BOOLEAN]]
      BY <3>2, Zenon DEF TypeOK
    <3>4. w \in [placed : Nat, open : BOOLEAN] /\ w.placed = venue[x][m].placed
      BY <3>2, <3>3, Zenon
    <3>5. venue' = [venue EXCEPT ![x] = f]
      BY <2>2, Zenon
    <3> HIDE DEF w
    <3>6. f \in [Legs -> [placed : Nat, open : BOOLEAN]]
      BY <3>3, <3>4, Zenon
    <3>7. \A i \in Legs : f[i].placed = venue[x][i].placed
      BY <3>2, <3>3, <3>4, Zenon
    <3> HIDE DEF x, m, f
    <3> QED
      BY <3>2, <3>5, <3>6, <3>7 DEF TypeOK, SamePlaced
  <2> QED
    BY <1>3, <2>1, <2>2, Zenon
<1>6. faults' \in FaultType /\ faults'.crashes = faults.crashes
  BY FaultTyped, Zenon DEF CancelTrade, TypeOK
<1> QED
  BY <1>4, <1>5, <1>6

(* Placing an order. *)
LEMMA PlacedCounts ==
  ASSUME TypeOK, NEW b \in Baskets, NEW n \in Legs
  PROVE  /\ Placed(b, n)[b][n].placed = venue[b][n].placed + 1
         /\ \A c \in Baskets, m \in Legs :
              c # b \/ m # n => Placed(b, n)[c][m].placed = venue[c][m].placed
<1> DEFINE w == [placed |-> venue[b][n].placed + 1, open |-> TRUE]
           f == [venue[b] EXCEPT ![n] = w]
<1>1. venue[b] \in [Legs -> [placed : Nat, open : BOOLEAN]]
  BY DEF TypeOK
<1>2. f[n] = w /\ \A m \in Legs \ {n} : f[m] = venue[b][m]
  BY <1>1
<1>3. Placed(b, n) = [venue EXCEPT ![b] = f]
  BY DEF Placed
<1>4. Placed(b, n)[b] = f /\ \A c \in Baskets \ {b} : Placed(b, n)[c] = venue[c]
  BY <1>3 DEF TypeOK
<1>5. w.placed = venue[b][n].placed + 1
  OBVIOUS
<1> QED
  BY <1>2, <1>4, <1>5

(* A new order gets the next number. *)
LEMMA AppendTyped ==
  ASSUME TypeOK, NEW v \in Venues, NEW w \in ManagerType,
         manager' = [manager EXCEPT ![v] = Append(@, w)]
  PROVE  /\ manager' \in [Venues -> Seq(ManagerType)]
         /\ Len(manager[v]) + 1 \in DOMAIN manager'[v] /\ Len(manager[v]) + 1 \in Nat \ {0}
         /\ Len(manager[v]) + 1 \notin DOMAIN manager[v]
         /\ manager'[v][Len(manager[v]) + 1] = w
         /\ \A u \in Venues : DOMAIN manager[u] \subseteq DOMAIN manager'[u]
         /\ \A u \in Venues : \A o \in DOMAIN manager[u] : manager'[u][o] = manager[u][o]
<1>1. manager[v] \in Seq(ManagerType)
  BY DEF TypeOK
<1>2. Append(manager[v], w) \in Seq(ManagerType)
  BY <1>1
<1>3. /\ manager'[v] = Append(manager[v], w)
      /\ \A u \in Venues \ {v} : manager'[u] = manager[u]
  BY DEF TypeOK
<1>4. manager' \in [Venues -> Seq(ManagerType)]
  BY <1>2 DEF TypeOK
<1> QED
  BY <1>1, <1>3, <1>4

-----------------------------------------------------------------------------
LEMMA TypeInit == Init => TypeInv
<1> SUFFICES ASSUME Init PROVE TypeInv
  OBVIOUS
<1>1. faults \in FaultType
  BY DEF Init, FaultType
<1>2. manager \in [Venues -> Seq(ManagerType)]
  BY DEF Init
<1>3. TypeOK
  BY <1>1, <1>2, ConstantsTyped, IdleTyped, Zenon DEF Init, TypeOK
<1>4. CallsInv
  BY IdleTyped, Zenon DEF Init, CallsInv
<1> QED
  BY <1>3, <1>4 DEF TypeInv

(* A call is put down, or taken to another await. *)
LEMMA CallMoves ==
  ASSUME TypeInv, NEW p \in Procs, NEW q \in CallType, call' = [call EXCEPT ![p] = q],
         q.pc # "idle" => q.basket \in Baskets,
         p \in Baskets /\ q.pc # "idle" => q.basket = p,
         p \in Cancellers => q.pc \in {"idle", "walk", "leg", "status"},
         q.pc = "save" => q.n = 0,
         q.pc = "leg" => q.n \in Legs,
         q.pc \in {"placing", "placed"} =>
           q.n \in LegsOf(p) /\ q.order \in DOMAIN manager'[VenueOf[p][q.n]],
         \A v \in Venues : DOMAIN manager[v] \subseteq DOMAIN manager'[v]
  PROVE  call' \in [Procs -> CallType] /\ CallsInv'
<1>1. call' \in [Procs -> CallType] /\ call'[p] = q /\ \A r \in Procs \ {p} : call'[r] = call[r]
  BY DEF TypeInv, TypeOK
<1>2. ASSUME NEW r \in Procs \ {p}, call[r].pc \in {"placing", "placed"}
      PROVE  /\ call[r].n \in LegsOf(r)
             /\ call[r].order \in DOMAIN manager'[VenueOf[r][call[r].n]]
  <2>1. r \in Baskets
    BY <1>2 DEF TypeInv, CallsInv, Procs
  <2> QED
    BY <1>2, <2>1, LegsTyped DEF TypeInv, CallsInv
<1>3. CallsInv'
  BY <1>1, <1>2 DEF TypeInv, CallsInv
<1> QED
  BY <1>1, <1>3

LEMMA SubmitTyped == ASSUME TypeInv, NEW b \in Baskets, SubmitBasket(b) PROVE TypeInv'
<1> DEFINE q == [Idle EXCEPT !.pc = "save", !.basket = b]
<1>1. q \in CallType /\ q.pc = "save" /\ q.basket = b /\ q.n = 0
  BY IdleTyped, Zenon DEF Idle
<1>2. b \in Procs /\ b \notin Cancellers
  BY BasketsAssumption DEF Procs
<1>3. call' = [call EXCEPT ![b] = q] /\ manager' = manager
  BY DEF SubmitBasket
<1> HIDE DEF q
<1>4. call' \in [Procs -> CallType] /\ CallsInv'
  BY <1>1, <1>2, <1>3, CallMoves
<1>5. "submitting" \in BasketText
  BY DEF BasketText
<1> QED
  BY <1>4, <1>5 DEF SubmitBasket, TypeInv, TypeOK

LEMMA OutcomeKeepsType ==
  ASSUME TypeInv, NEW b \in Baskets, call[b].pc # "idle", call[b].n \in LegsOf(b),
         NEW l \in LegType, Outcome(b, l),
         manager' \in [Venues -> Seq(ManagerType)],
         \A v \in Venues : DOMAIN manager[v] \subseteq DOMAIN manager'[v],
         venue' \in [Baskets -> [Legs -> [placed : Nat, open : BOOLEAN]]],
         UNCHANGED <<status, row, up, past, faults>>
  PROVE  TypeInv'
<1>1. b \in Procs /\ b \notin Cancellers /\ call[b].n \in Legs
  BY BasketsAssumption, LegsTyped DEF Procs
<1> DEFINE q == [call[b] EXCEPT !.pc = "leg", !.leg = l, !.order = 0]
<1>2. call[b] \in CallType /\ call[b].basket = b
  BY <1>1, CallFields DEF TypeInv, CallsInv
<1>3. q \in CallType /\ q.pc = "leg" /\ q.n = call[b].n /\ q.basket = b
  BY <1>2 DEF CallType
<1>4. call' = [call EXCEPT ![b] = q]
  BY DEF Outcome
<1> HIDE DEF q
<1>5. call' \in [Procs -> CallType] /\ CallsInv'
  BY <1>1, <1>3, <1>4, CallMoves
<1>6. leg' \in [Baskets -> [Legs -> LegType]]
  BY <1>1, OutcomeTyped DEF TypeInv
<1> QED
  BY <1>5, <1>6 DEF TypeInv, TypeOK

LEMMA NoOrderTyped ==
  ASSUME TypeInv, NEW b \in Baskets, RejectLeg(b) \/ UnavailableLeg(b)
  PROVE  TypeInv'
<1>1. /\ call[b].pc = "walk" /\ call[b].n \in LegsOf(b)
      /\ UNCHANGED <<status, manager, row, up, venue, past, faults>>
  BY DEF RejectLeg, UnavailableLeg, AtLeg
<1>2. PICK l \in LegType : Outcome(b, l)
  BY DEF RejectLeg, UnavailableLeg, LegType
<1> QED
  BY <1>1, <1>2, OutcomeKeepsType DEF TypeInv, TypeOK

LEMMA PaperTyped == ASSUME TypeInv, NEW b \in Baskets, PaperLeg(b) PROVE TypeInv'
<1> DEFINE n == call[b].n
           v == VenueOf[b][n]
           w == [status |-> "submitted", ref |-> <<b, n>>]
           l == [status |-> "submitted", order |-> Len(manager[v]) + 1]
<1>1. call[b].pc = "walk" /\ n \in LegsOf(b) /\ n \in Legs /\ v \in Venues
  BY LegsTyped DEF PaperLeg, AtLeg
<1>2. w \in ManagerType
  BY <1>1 DEF ManagerType
<1>3. manager' = [manager EXCEPT ![v] = Append(@, w)]
  BY DEF PaperLeg
<1>4. /\ manager' \in [Venues -> Seq(ManagerType)] /\ l \in LegType
      /\ \A u \in Venues : DOMAIN manager[u] \subseteq DOMAIN manager'[u]
  BY <1>1, <1>2, <1>3, AppendTyped DEF LegType, TypeInv
<1>5. Outcome(b, l) /\ UNCHANGED <<status, row, up, past, faults>>
  BY DEF PaperLeg
<1>6. venue' \in [Baskets -> [Legs -> [placed : Nat, open : BOOLEAN]]]
  BY <1>1, PlacedTyped DEF PaperLeg, TypeInv
<1> HIDE DEF l, n
<1> QED
  BY <1>1, <1>4, <1>5, <1>6, OutcomeKeepsType DEF n

LEMMA LiveStartsTyped == ASSUME TypeInv, NEW b \in Baskets, LiveLegStarts(b) PROVE TypeInv'
<1> DEFINE n == call[b].n
           v == VenueOf[b][n]
           w == [status |-> "pending", ref |-> None]
           q == [call[b] EXCEPT !.pc = "placing", !.order = Len(manager[v]) + 1]
<1>1. call[b].pc = "walk" /\ n \in LegsOf(b) /\ n \in Legs /\ v \in Venues
  BY LegsTyped DEF LiveLegStarts, AtLeg
<1>2. w \in ManagerType
  BY DEF ManagerType
<1>3. manager' = [manager EXCEPT ![v] = Append(@, w)]
  BY DEF LiveLegStarts
<1>4. /\ manager' \in [Venues -> Seq(ManagerType)]
      /\ Len(manager[v]) + 1 \in DOMAIN manager'[v] /\ Len(manager[v]) + 1 \in Nat
      /\ \A u \in Venues : DOMAIN manager[u] \subseteq DOMAIN manager'[u]
  BY <1>1, <1>2, <1>3, AppendTyped, Zenon DEF TypeInv
<1>5. b \in Procs /\ b \notin Cancellers /\ call[b] \in CallType /\ call[b].basket = b
  BY <1>1, BasketsAssumption, CallFields DEF Procs, TypeInv, CallsInv
<1>6. /\ q \in CallType /\ q.pc = "placing" /\ q.n = n /\ q.basket = b
      /\ q.order = Len(manager[v]) + 1
  BY <1>4, <1>5 DEF CallType
<1>7. call' = [call EXCEPT ![b] = q]
  BY DEF LiveLegStarts
<1> HIDE DEF q
<1>8. call' \in [Procs -> CallType] /\ CallsInv'
  BY <1>1, <1>4, <1>5, <1>6, <1>7, CallMoves
<1> QED
  BY <1>4, <1>8 DEF LiveLegStarts, TypeInv, TypeOK

LEMMA AcceptedTyped ==
  ASSUME TypeInv, NEW b \in Baskets, LegAccepted(b)
  PROVE  /\ TypeInv'
         /\ \A v \in Venues : DOMAIN manager'[v] = DOMAIN manager[v]
         /\ \A v \in Venues : \A o \in DOMAIN manager[v] :
              v # VenueOf[b][call[b].n] \/ o # call[b].order =>
                manager'[v][o] = manager[v][o]
         /\ manager'[VenueOf[b][call[b].n]][call[b].order].ref = <<b, call[b].n>>
<1> DEFINE n == call[b].n
           v == VenueOf[b][n]
           o == call[b].order
           w == [status |-> "submitted", ref |-> <<b, n>>]
           s == [manager[v] EXCEPT ![o] = w]
           q == [call[b] EXCEPT !.pc = "placed"]
<1>1. b \in Procs /\ b \notin Cancellers /\ call[b].pc = "placing"
  BY BasketsAssumption DEF Procs, LegAccepted
<1>2. n \in LegsOf(b) /\ n \in Legs /\ v \in Venues /\ o \in DOMAIN manager[v]
  BY <1>1, LegsTyped DEF TypeInv, CallsInv
<1>3. w \in ManagerType /\ w.ref = <<b, n>> /\ manager[v] \in Seq(ManagerType)
  BY <1>2 DEF ManagerType, TypeInv, TypeOK
<1>4. manager' = [manager EXCEPT ![v] = s]
  BY DEF LegAccepted
<1> HIDE DEF w
<1>5. s \in Seq(ManagerType) /\ DOMAIN s = DOMAIN manager[v]
  BY <1>2, <1>3
<1>6. s[o] = w /\ \A i \in DOMAIN manager[v] \ {o} : s[i] = manager[v][i]
  BY <1>2, <1>3
<1> HIDE DEF s
<1>7. manager' \in [Venues -> Seq(ManagerType)] /\ manager'[v] = s
      /\ \A u \in Venues \ {v} : manager'[u] = manager[u]
  BY <1>2, <1>4, <1>5 DEF TypeInv, TypeOK
<1>8. call[b] \in CallType /\ call[b].basket = b
  BY <1>1, CallFields DEF TypeInv, CallsInv
<1>9. q \in CallType /\ q.pc = "placed" /\ q.n = n /\ q.basket = b /\ q.order = o
  BY <1>8 DEF CallType
<1>10. call' = [call EXCEPT ![b] = q]
  BY DEF LegAccepted
<1> HIDE DEF q
<1>11. \A u \in Venues : DOMAIN manager'[u] = DOMAIN manager[u]
  BY <1>5, <1>7
<1>12. call' \in [Procs -> CallType] /\ CallsInv'
  <2> HIDE DEF v, n, o
  <2>1. o \in DOMAIN manager'[VenueOf[b][n]] /\ n \in LegsOf(b)
    BY <1>2, <1>11 DEF v
  <2>2. \A u \in Venues : DOMAIN manager[u] \subseteq DOMAIN manager'[u]
    BY <1>11
  <2> QED
    BY <1>1, <1>9, <1>10, <2>1, <2>2, CallMoves
<1>13. venue' \in [Baskets -> [Legs -> [placed : Nat, open : BOOLEAN]]]
  BY <1>2, PlacedTyped DEF LegAccepted, TypeInv
<1>14. TypeInv'
  BY <1>7, <1>12, <1>13 DEF LegAccepted, TypeInv, TypeOK
<1> QED
  BY <1>3, <1>6, <1>7, <1>11, <1>14

LEMMA RaisesTyped == ASSUME TypeInv, NEW b \in Baskets, LegRaises(b) PROVE TypeInv'
<1>1. b \in Procs /\ b \notin Cancellers /\ call[b].pc = "placing"
  BY BasketsAssumption DEF Procs, LegRaises
<1>2. call[b].n \in Legs
  BY <1>1, LegsTyped DEF TypeInv, CallsInv
<1>3. venue' \in [Baskets -> [Legs -> [placed : Nat, open : BOOLEAN]]]
  BY <1>2, PlacedTyped DEF LegRaises, TypeInv, TypeOK
<1>4. call' = [call EXCEPT ![b] = Idle] /\ UNCHANGED <<memory, row, up, past>>
  BY DEF LegRaises
<1>5. call' \in [Procs -> CallType] /\ CallsInv'
  BY <1>1, <1>4, IdleTyped, CallMoves, Zenon DEF memory
<1>6. faults' \in FaultType
  BY FaultTyped DEF LegRaises, TypeInv
<1> QED
  BY <1>3, <1>4, <1>5, <1>6 DEF TypeInv, TypeOK, memory

LEMMA RecordedTyped ==
  ASSUME TypeInv, NEW b \in Baskets, LegRecorded(b)
  PROVE  /\ TypeInv'
         /\ \E l \in LegType : Outcome(b, l) /\ l.order = call[b].order
<1> DEFINE v == VenueOf[b][call[b].n]
           o == call[b].order
           l == [status |-> manager[v][o].status, order |-> o]
<1>1. call[b].pc = "placed" /\ b \in Procs
  BY DEF LegRecorded, Procs
<1>2. call[b].n \in LegsOf(b) /\ v \in Venues /\ o \in DOMAIN manager[v] /\ o \in Nat
  BY <1>1, LegsTyped, CallFields DEF TypeInv, CallsInv
<1>3. manager[v][o] \in ManagerType
  <2>1. manager[v] \in Seq(ManagerType)
    BY <1>2 DEF TypeInv, TypeOK
  <2> QED
    BY <1>2, <2>1
<1>4. l \in LegType /\ l.order = o
  BY <1>2, <1>3 DEF ManagerType, LegType
<1>5. Outcome(b, l) /\ UNCHANGED <<status, manager, row, up, venue, past, faults>>
  BY DEF LegRecorded, OrderId
<1> HIDE DEF l
<1>6. TypeInv'
  BY <1>1, <1>2, <1>4, <1>5, OutcomeKeepsType DEF TypeInv, TypeOK
<1> QED
  BY <1>4, <1>5, <1>6

LEMMA FinishTyped == ASSUME TypeInv, NEW b \in Baskets, Finish(b) PROVE TypeInv'
<1> DEFINE q == [call[b] EXCEPT !.pc = "status", !.text = Derive(b)]
<1>1. b \in Procs /\ b \notin Cancellers /\ call[b] \in CallType /\ call[b].basket = b
  BY BasketsAssumption, CallFields DEF Procs, TypeInv, CallsInv, Finish
<1>2. q \in CallType /\ q.pc = "status" /\ q.basket = b
  BY <1>1, DeriveTyped DEF CallType
<1>3. call' = [call EXCEPT ![b] = q] /\ manager' = manager
  BY DEF Finish
<1> HIDE DEF q
<1>4. call' \in [Procs -> CallType] /\ CallsInv'
  BY <1>1, <1>2, <1>3, CallMoves
<1> QED
  BY <1>4, DeriveTyped DEF Finish, TypeInv, TypeOK

(* Only a leg of the basket has an order. *)
OrdersInv == \A b \in Baskets, n \in Legs : leg[b][n].order # 0 => n \in LegsOf(b)

LEMMA CancelTyped ==
  ASSUME TypeInv, OrdersInv, NEW c \in Cancellers, NEW b \in Baskets, NEW from \in Nat,
         CancelFrom(c, b, from),
         past' \in [Baskets -> {"unborn", "alone", "overlapped"}]
  PROVE  TypeInv'
<1>1. c \in Procs /\ c \notin Baskets
  BY BasketsAssumption DEF Procs
<1>2. CASE \E n \in NextOrder(b, from) : CancelTrade(b, n) /\ MarkCancelled(c, b, n)
  <2>1. PICK n \in NextOrder(b, from) : CancelTrade(b, n) /\ MarkCancelled(c, b, n)
    BY <1>2
  <2> DEFINE l == [leg[b][n] EXCEPT !.status = "cancelled"]
             q == [Idle EXCEPT !.pc = "leg", !.basket = b, !.n = n, !.leg = l]
  <2>2. n \in Legs /\ n \in LegsOf(b) /\ n \in 0..(MaxLegs + 1)
    BY VenuesAssumption DEF NextOrder, OrdersInv, Legs
  <2>3. leg[b] \in [Legs -> LegType] /\ leg[b][n] \in LegType
    BY <2>2 DEF TypeInv, TypeOK
  <2>4. l \in LegType
    BY <2>3 DEF LegType
  <2>5. leg' = [leg EXCEPT ![b] = [leg[b] EXCEPT ![n] = l]] /\ call' = [call EXCEPT ![c] = q]
    BY <2>1 DEF MarkCancelled
  <2> HIDE DEF l
  <2>6. q \in CallType /\ q.pc = "leg" /\ q.basket = b /\ q.n = n
    BY <2>2, <2>4, IdleTyped, Zenon DEF Idle
  <2> HIDE DEF q
  <2>7. leg' \in [Baskets -> [Legs -> LegType]]
    BY <2>3, <2>4, <2>5 DEF TypeInv, TypeOK
  <2>8. /\ manager' \in [Venues -> Seq(ManagerType)]
        /\ venue' \in [Baskets -> [Legs -> [placed : Nat, open : BOOLEAN]]]
        /\ faults' \in FaultType /\ SameOrders
    BY <2>1, <2>2, TradeTyped DEF TypeInv
  <2>9. call' \in [Procs -> CallType] /\ CallsInv'
    BY <1>1, <2>2, <2>5, <2>6, <2>8, CallMoves DEF SameOrders
  <2>10. UNCHANGED <<status, row, up>>
    BY <1>2, <2>2, <2>1 DEF CancelFrom, NextOrder
  <2> QED
    BY <2>7, <2>8, <2>9, <2>10 DEF TypeInv, TypeOK
<1>3. CASE /\ status' = [status EXCEPT ![b] = "cancelled"]
           /\ call' = [call EXCEPT ![c] =
                [Idle EXCEPT !.pc = "status", !.basket = b, !.text = "cancelled"]]
           /\ UNCHANGED <<leg, manager, row, up, venue, faults>>
  <2> DEFINE q == [Idle EXCEPT !.pc = "status", !.basket = b, !.text = "cancelled"]
  <2>1. q \in CallType /\ q.pc = "status" /\ q.basket = b
    BY IdleTyped, Zenon DEF Idle
  <2>2. call' = [call EXCEPT ![c] = q] /\ manager' = manager
    BY <1>3
  <2> HIDE DEF q
  <2>3. call' \in [Procs -> CallType] /\ CallsInv'
    BY <1>1, <2>1, <2>2, CallMoves
  <2>4. "cancelled" \in BasketText
    BY DEF BasketText
  <2> QED
    BY <1>3, <2>3, <2>4 DEF TypeInv, TypeOK
<1> QED
  BY <1>2, <1>3 DEF CancelFrom

(* The end of a write. *)
LEMMA AfterWriteTyped ==
  ASSUME TypeInv, NEW p \in Procs, call[p].pc \in {"save", "leg", "status"}
  PROVE  /\ AfterWrite(p) \in CallType
         /\ call[p].pc = "status" => AfterWrite(p) = Idle
         /\ call[p].pc # "status" =>
              /\ AfterWrite(p).pc = "walk" /\ AfterWrite(p).basket = call[p].basket
              /\ AfterWrite(p).n = call[p].n + 1
<1>1. /\ call[p].basket \in Baskets
      /\ call[p].pc = "save" => call[p].n = 0
      /\ call[p].pc = "leg" => call[p].n \in Legs
  BY DEF TypeInv, CallsInv
<1>2. call[p].pc # "status" => call[p].n + 1 \in 0..(MaxLegs + 1)
  BY <1>1, VenuesAssumption DEF Legs
<1>3. ASSUME call[p].pc # "status"
      PROVE  [Idle EXCEPT !.pc = "walk", !.basket = call[p].basket, !.n = call[p].n + 1]
               \in CallType
  BY <1>1, <1>2, <1>3, IdleTyped, Zenon
<1> QED
  BY <1>3, IdleTyped, Zenon DEF AfterWrite, Idle

LEMMA WriteKeepsCalls ==
  ASSUME TypeInv, NEW p \in Procs, call[p].pc \in {"save", "leg", "status"},
         call' = [call EXCEPT ![p] = AfterWrite(p)], manager' = manager
  PROVE  call' \in [Procs -> CallType] /\ CallsInv'
<1>1. /\ AfterWrite(p) \in CallType /\ AfterWrite(p).pc \in {"idle", "walk"}
      /\ AfterWrite(p).pc = "walk" => AfterWrite(p).basket = call[p].basket
  BY AfterWriteTyped, IdleTyped, Zenon
<1>2. call[p].basket \in Baskets /\ (p \in Baskets => call[p].basket = p)
  BY DEF TypeInv, CallsInv
<1> QED
  BY <1>1, <1>2, CallMoves

(* A committed write changes one row: all of it, one leg, or its status. *)
LEMMA WrittenTyped ==
  ASSUME TypeInv, NEW p \in Procs, Commits(p)
  PROVE  LET b == call[p].basket IN
         /\ b \in Baskets
         /\ row' \in [Baskets -> RowType]
         /\ \A a \in Baskets \ {b} : row'[a] = row[a]
         /\ \A n \in Legs :
              \/ row'[b].legs[n] \in {row[b].legs[n], Fresh}
              \/ call[p].pc = "leg" /\ n = call[p].n /\ row'[b].legs[n] = call[p].leg
         /\ \/ row'[b].status \in {row[b].status, "submitting"}
            \/ call[p].pc = "status" /\ row'[b].status = call[p].text
<1> DEFINE b == call[p].basket
<1>1. b \in Baskets /\ row[b] \in RowType
  BY DEF TypeInv, TypeOK, CallsInv, Commits
<1>2. CASE row' = row
  BY <1>1, <1>2 DEF TypeInv, TypeOK
<1>3. CASE row' = [row EXCEPT ![b] = Written(b, p)]
  <2>1. /\ Written(b, p) \in RowType
        /\ \A n \in Legs :
             \/ Written(b, p).legs[n] \in {row[b].legs[n], Fresh}
             \/ call[p].pc = "leg" /\ n = call[p].n /\ Written(b, p).legs[n] = call[p].leg
        /\ \/ Written(b, p).status \in {row[b].status, "submitting"}
           \/ call[p].pc = "status" /\ Written(b, p).status = call[p].text
    <3>1. CASE call[p].pc = "save"
      <4>1. Written(b, p) = [status |-> "submitting", legs |-> FreshLegs]
        BY <3>1 DEF Written
      <4> QED
        BY <4>1, ConstantsTyped DEF RowType, BasketText, FreshLegs
    <3>2. CASE call[p].pc = "leg"
      <4>1. Written(b, p) = [row[b] EXCEPT !.legs[call[p].n] = call[p].leg]
        BY <3>2 DEF Written
      <4>2. call[p].n \in Legs /\ call[p].leg \in LegType
        BY <3>2, CallFields DEF TypeInv, CallsInv
      <4> DEFINE f == [row[b].legs EXCEPT ![call[p].n] = call[p].leg]
      <4>3. f \in [Legs -> LegType]
        BY <1>1, <4>2 DEF RowType
      <4>4. \A n \in Legs : f[n] = row[b].legs[n] \/ (n = call[p].n /\ f[n] = call[p].leg)
        BY <1>1, <4>2 DEF RowType
      <4>5. Written(b, p) = [row[b] EXCEPT !.legs = f]
        BY <4>1
      <4> HIDE DEF f
      <4> QED
        BY <1>1, <3>2, <4>3, <4>4, <4>5 DEF RowType
    <3>3. CASE call[p].pc = "status"
      <4>1. Written(b, p) = [row[b] EXCEPT !.status = call[p].text]
        BY <3>3 DEF Written
      <4>2. call[p].text \in BasketText
        BY CallFields DEF TypeInv
      <4> QED
        BY <1>1, <3>3, <4>1, <4>2 DEF RowType
    <3> QED
      BY <3>1, <3>2, <3>3 DEF Commits
  <2> HIDE DEF b
  <2> QED
    BY <1>1, <1>3, <2>1 DEF b, TypeInv, TypeOK
<1> QED
  BY <1>2, <1>3 DEF Commits

LEMMA WritesTyped ==
  ASSUME TypeInv, NEW p \in Procs, Commits(p) \/ WriteFails(p)
  PROVE  TypeInv'
<1>1. /\ call[p].pc \in {"save", "leg", "status"} /\ call' = [call EXCEPT ![p] = AfterWrite(p)]
      /\ UNCHANGED <<status, leg, manager, up, venue, past>>
  BY DEF Commits, WriteFails, memory
<1>2. call' \in [Procs -> CallType] /\ CallsInv'
  BY <1>1, WriteKeepsCalls
<1>3. row' \in [Baskets -> RowType]
  BY WrittenTyped DEF WriteFails, TypeInv, TypeOK
<1>4. faults' \in FaultType
  BY FaultTyped DEF Commits, WriteFails, TypeInv, TypeOK
<1> QED
  BY <1>1, <1>2, <1>3, <1>4 DEF TypeInv, TypeOK

LEMMA CrashTyped == ASSUME TypeInv, Crash PROVE TypeInv' /\ SamePlaced
<1>1. faults \in FaultType /\ faults' = [faults EXCEPT !.crashes = @ + 1]
  BY DEF TypeInv, TypeOK, Crash
<1>2. faults' \in FaultType
  BY <1>1 DEF FaultType
<1>3. \A b \in Baskets, n \in Legs :
        /\ [venue[b][n] EXCEPT !.open = @ /\ Kind[VenueOf[b][n]] # "paper"]
             \in [placed : Nat, open : BOOLEAN]
        /\ [venue[b][n] EXCEPT !.open = @ /\ Kind[VenueOf[b][n]] # "paper"].placed
             = venue[b][n].placed
  <2> SUFFICES ASSUME NEW b \in Baskets, NEW n \in Legs
               PROVE  LET r == venue[b][n]
                          w == [r EXCEPT !.open = r.open /\ Kind[VenueOf[b][n]] # "paper"]
                      IN  w \in [placed : Nat, open : BOOLEAN] /\ w.placed = r.placed
    OBVIOUS
  <2>1. venue[b][n] \in [placed : Nat, open : BOOLEAN]
    BY DEF TypeInv, TypeOK
  <2> DEFINE k == venue[b][n].open /\ Kind[VenueOf[b][n]] # "paper"
  <2>2. k \in BOOLEAN
    BY Zenon
  <2> HIDE DEF k
  <2>3. [venue[b][n] EXCEPT !.open = k] \in [placed : Nat, open : BOOLEAN]
    BY <2>1, <2>2, Zenon
  <2>4. [venue[b][n] EXCEPT !.open = k].placed = venue[b][n].placed
    BY <2>1, Zenon
  <2> QED
    BY <2>3, <2>4 DEF k
<1>4. venue' \in [Baskets -> [Legs -> [placed : Nat, open : BOOLEAN]]] /\ SamePlaced
  BY <1>3 DEF Crash, SamePlaced
<1>5. call' \in [Procs -> CallType] /\ CallsInv'
  BY IdleTyped, Zenon DEF Crash, CallsInv
<1>6. manager' \in [Venues -> Seq(ManagerType)]
  BY DEF Crash
<1> QED
  BY <1>2, <1>4, <1>5, <1>6, ConstantsTyped DEF Crash, TypeInv, TypeOK

LEMMA RestoreTyped == ASSUME TypeInv, Restore \/ RestoreFails PROVE TypeInv'
<1>1. \A b \in Baskets : row[b].status \in BasketText \cup {"absent"}
                         /\ row[b].legs \in [Legs -> LegType]
  BY DEF TypeInv, TypeOK, RowType
<1>2. faults' \in FaultType
  BY FaultTyped DEF Restore, RestoreFails, TypeInv, TypeOK
<1>3. CallsInv'
  BY DEF Restore, RestoreFails, memory, TypeInv, CallsInv
<1> QED
  BY <1>1, <1>2, <1>3 DEF Restore, RestoreFails, memory, TypeInv, TypeOK

-----------------------------------------------------------------------------
(* What is known about a leg, wherever it is kept, and about the status of *)
(* a basket.                                                               *)
Real(b, n, l) ==
  /\ l.order # 0 => n \in LegsOf(b) /\ HasOrder(b, n)
  /\ l.status \in {"submitted", "cancelled"} => HasOrder(b, n)
RealText(b, t) == t = "submitted" => \A n \in LegsOf(b) : HasOrder(b, n)

LegsReal == \A b \in Baskets, n \in Legs : Real(b, n, leg[b][n])
RowsReal ==
  \A b \in Baskets :
    /\ \A n \in Legs : Real(b, n, row[b].legs[n])
    /\ RealText(b, row[b].status)
TextsReal == \A b \in Baskets : RealText(b, status[b])
CallsReal ==
  \A p \in Procs :
    /\ call[p].pc = "leg" => Real(call[p].basket, call[p].n, call[p].leg)
    /\ call[p].pc = "status" => RealText(call[p].basket, call[p].text)
    /\ call[p].pc = "placed" => HasOrder(p, call[p].n)
RealInv == LegsReal /\ RowsReal /\ TextsReal /\ CallsReal

Grows == \A b \in Baskets, n \in Legs : HasOrder(b, n) => venue'[b][n].placed > 0

LEMMA SamePlacedGrows == SamePlaced => Grows
  BY DEF SamePlaced, Grows, HasOrder

LEMMA PlacedGrows ==
  ASSUME TypeOK, NEW b \in Baskets, NEW n \in Legs, venue' = Placed(b, n)
  PROVE  Grows /\ venue'[b][n].placed > 0
<1>1. \A c \in Baskets, m \in Legs : venue[c][m].placed \in Nat
  BY DEF TypeOK
<1> QED
  BY <1>1, PlacedCounts DEF Grows, HasOrder

LEMMA RealGrows ==
  ASSUME Grows, NEW b \in Baskets
  PROVE  /\ \A n \in Legs : \A l : Real(b, n, l) =>
              /\ l.order # 0 => n \in LegsOf(b) /\ venue'[b][n].placed > 0
              /\ l.status \in {"submitted", "cancelled"} => venue'[b][n].placed > 0
         /\ \A t : RealText(b, t) =>
              (t = "submitted" => \A n \in LegsOf(b) : venue'[b][n].placed > 0)
  BY LegsTyped DEF Grows, Real, RealText

(* Orders do not go away: what is left alone stays as real as it was. *)
LEMMA LegsStayReal == ASSUME RealInv, Grows, leg' = leg PROVE LegsReal'
  BY RealGrows DEF RealInv, LegsReal, Real, HasOrder
LEMMA RowsStayReal == ASSUME RealInv, Grows, row' = row PROVE RowsReal'
  BY RealGrows DEF RealInv, RowsReal, Real, RealText, HasOrder
LEMMA TextsStayReal == ASSUME RealInv, Grows, status' = status PROVE TextsReal'
  BY RealGrows DEF RealInv, TextsReal, RealText, HasOrder

LEMMA CallsStayReal ==
  ASSUME TypeInv, RealInv, Grows, NEW p \in Procs,
         \A r \in Procs \ {p} : call'[r] = call[r],
         call'[p].pc = "leg" => Real(call[p].basket, call[p].n, call[p].leg)',
         call'[p].pc = "status" => RealText(call[p].basket, call[p].text)',
         call'[p].pc = "placed" => HasOrder(p, call[p].n)'
  PROVE  CallsReal'
<1> SUFFICES ASSUME NEW r \in Procs \ {p}
             PROVE  /\ call'[r].pc = "leg" => Real(call[r].basket, call[r].n, call[r].leg)'
                    /\ call'[r].pc = "status" => RealText(call[r].basket, call[r].text)'
                    /\ call'[r].pc = "placed" => HasOrder(r, call[r].n)'
  BY DEF CallsReal
<1>1. call'[r] = call[r] /\ (call[r].pc # "idle" => call[r].basket \in Baskets)
  BY DEF TypeInv, CallsInv
<1>2. CASE call[r].pc = "leg"
  <2>1. call[r].n \in Legs /\ Real(call[r].basket, call[r].n, call[r].leg)
    BY <1>2 DEF TypeInv, CallsInv, RealInv, CallsReal
  <2> QED
    BY <1>1, <1>2, <2>1, RealGrows DEF Real, HasOrder
<1>3. CASE call[r].pc = "status"
  <2>1. RealText(call[r].basket, call[r].text)
    BY <1>3 DEF RealInv, CallsReal
  <2> QED
    BY <1>1, <1>3, <2>1, RealGrows DEF RealText, HasOrder
<1>4. CASE call[r].pc = "placed"
  <2>1. r \in Baskets /\ call[r].n \in Legs /\ HasOrder(r, call[r].n)
    BY <1>4, LegsTyped DEF TypeInv, CallsInv, RealInv, CallsReal, Procs
  <2> QED
    BY <1>1, <1>4, <2>1 DEF Grows, HasOrder
<1> QED
  BY <1>1, <1>2, <1>3, <1>4

(* A leg gets a real outcome. *)
LEMMA OutcomeReal ==
  ASSUME TypeInv, RealInv, Grows, NEW b \in Baskets, call[b].n \in LegsOf(b),
         call[b].pc # "idle", NEW l \in LegType, Outcome(b, l),
         l.order # 0 => venue'[b][call[b].n].placed > 0,
         l.status \in {"submitted", "cancelled"} => venue'[b][call[b].n].placed > 0,
         UNCHANGED <<status, row>>
  PROVE  RealInv'
<1>1. call[b].n \in Legs /\ b \in Procs /\ call[b].basket = b
  BY LegsTyped, ConstantsTyped DEF TypeInv, CallsInv
<1>2. /\ leg'[b][call[b].n] = l
      /\ \A c \in Baskets, n \in Legs : c # b \/ n # call[b].n => leg'[c][n] = leg[c][n]
      /\ \A p \in Procs \ {b} : call'[p] = call[p]
      /\ call'[b].pc = "leg" /\ call'[b].leg = l /\ call'[b].n = call[b].n
      /\ call'[b].basket = call[b].basket
  BY <1>1, OutcomeTyped DEF TypeInv
<1>3. LegsReal'
  BY <1>2, RealGrows DEF RealInv, LegsReal, Real, HasOrder
<1>4. CallsReal'
  BY <1>1, <1>2, CallsStayReal DEF Real, HasOrder
<1> QED
  BY <1>3, <1>4, RowsStayReal, TextsStayReal DEF RealInv

LEMMA RealInit == Init => RealInv
  BY DEF Init, RealInv, LegsReal, RowsReal, TextsReal, CallsReal, Real, RealText, FreshLegs,
         Fresh, NoRow, Idle

LEMMA RealLeg ==
  ASSUME TypeInv, RealInv, NEW b \in Baskets,
         RejectLeg(b) \/ UnavailableLeg(b) \/ PaperLeg(b) \/ LegRecorded(b)
  PROVE  RealInv'
<1>1. CASE RejectLeg(b) \/ UnavailableLeg(b)
  <2>1. PICK l \in LegType : Outcome(b, l) /\ l.order = 0 /\ l.status \in {"rejected", "unavailable"}
    BY <1>1 DEF RejectLeg, UnavailableLeg, LegType
  <2>2. call[b].pc = "walk" /\ call[b].n \in LegsOf(b) /\ UNCHANGED <<status, row, venue>>
    BY <1>1 DEF RejectLeg, UnavailableLeg, AtLeg
  <2>3. Grows
    BY <2>2 DEF Grows, HasOrder
  <2> QED
    BY <2>1, <2>2, <2>3, OutcomeReal
<1>2. CASE PaperLeg(b)
  <2>1. call[b].pc = "walk" /\ call[b].n \in LegsOf(b) /\ UNCHANGED <<status, row>>
    BY <1>2 DEF PaperLeg, AtLeg
  <2>2. Grows /\ venue'[b][call[b].n].placed > 0
    BY <1>2, <2>1, LegsTyped, PlacedGrows DEF PaperLeg, TypeInv
  <2>3. manager[VenueOf[b][call[b].n]] \in Seq(ManagerType)
    BY <2>1, LegsTyped DEF TypeInv, TypeOK
  <2>4. PICK l \in LegType : Outcome(b, l)
    <3>1. Len(manager[VenueOf[b][call[b].n]]) + 1 \in Nat
      BY <2>3
    <3>2. [status |-> "submitted", order |-> Len(manager[VenueOf[b][call[b].n]]) + 1] \in LegType
      BY <3>1 DEF LegType
    <3> QED
      BY <1>2, <3>2 DEF PaperLeg
  <2> QED
    BY <2>1, <2>2, <2>4, OutcomeReal
<1>3. CASE LegRecorded(b)
  <2>1. call[b].pc = "placed" /\ UNCHANGED <<status, row, venue>>
    BY <1>3 DEF LegRecorded
  <2>2. call[b].n \in LegsOf(b) /\ HasOrder(b, call[b].n) /\ Grows
    BY <2>1, ConstantsTyped DEF TypeInv, CallsInv, RealInv, CallsReal, Grows, HasOrder
  <2>3. PICK l \in LegType : Outcome(b, l)
    BY <1>3, RecordedTyped
  <2> QED
    BY <2>1, <2>2, <2>3, OutcomeReal DEF HasOrder
<1> QED
  BY <1>1, <1>2, <1>3

LEMMA RealPlacing ==
  ASSUME TypeInv, RealInv, NEW b \in Baskets,
         SubmitBasket(b) \/ LiveLegStarts(b) \/ LegAccepted(b) \/ LegRaises(b)
  PROVE  RealInv'
<1>1. b \in Procs
  BY ConstantsTyped
<1>2. leg' = leg /\ row' = row
  BY Zenon DEF SubmitBasket, LiveLegStarts, LegAccepted, LegRaises, memory
<1>3. Grows /\ (LegAccepted(b) => HasOrder(b, call[b].n)')
  <2>1. CASE SubmitBasket(b) \/ LiveLegStarts(b)
    <3>1. venue' = venue /\ ~LegAccepted(b)
      BY <2>1, <1>1, CallFields, IdleTyped, Zenon DEF SubmitBasket, LiveLegStarts, LegAccepted, AtLeg,
            TypeInv, TypeOK
    <3> QED
      BY <3>1 DEF Grows, HasOrder
  <2>2. CASE LegAccepted(b) \/ LegRaises(b)
    <3>1. call[b].pc = "placing" /\ venue' \in {venue, Placed(b, call[b].n)}
      BY <2>2 DEF LegAccepted, LegRaises
    <3>2. call[b].n \in Legs
      BY <1>1, <3>1, LegsTyped DEF TypeInv, CallsInv
    <3>3. LegAccepted(b) => venue' = Placed(b, call[b].n) /\ call' = [call EXCEPT ![b].pc = "placed"]
      BY DEF LegAccepted
    <3>4. LegAccepted(b) => call'[b].n = call[b].n
      BY <1>1, <3>3, CallFields DEF TypeInv, TypeOK, CallType
    <3>5. venue' = venue => Grows
      BY DEF Grows, HasOrder
    <3> QED
      BY <3>1, <3>2, <3>3, <3>4, <3>5, PlacedGrows DEF HasOrder, TypeInv
  <2> QED
    BY <2>1, <2>2
<1>4. /\ \A r \in Procs \ {b} : call'[r] = call[r]
      /\ call'[b].pc \in {"idle", "save", "placing", "placed"}
      /\ call'[b].pc = "placed" => LegAccepted(b)
  <2>1. call \in [Procs -> CallType] /\ call[b] \in CallType
    BY <1>1, CallFields DEF TypeInv, TypeOK
  <2>2. CASE SubmitBasket(b)
    BY <1>1, <2>1, <2>2 DEF SubmitBasket, Idle
  <2>3. CASE LiveLegStarts(b)
    BY <1>1, <2>1, <2>3 DEF LiveLegStarts, CallType
  <2>4. CASE LegAccepted(b)
    BY <1>1, <2>1, <2>4 DEF LegAccepted, CallType
  <2>5. CASE LegRaises(b)
    BY <1>1, <2>1, <2>5 DEF LegRaises, Idle
  <2> QED
    BY <2>2, <2>3, <2>4, <2>5
<1>5. CallsReal'
  BY <1>1, <1>3, <1>4, CallsStayReal
<1>6. TextsReal'
  <2>1. \A a \in Baskets : status'[a] = status[a] \/ status'[a] = "submitting"
    BY Zenon DEF SubmitBasket, LiveLegStarts, LegAccepted, LegRaises, memory, TypeInv, TypeOK
  <2> QED
    BY <1>3, <2>1, RealGrows DEF RealInv, TextsReal, RealText, HasOrder
<1> QED
  BY <1>2, <1>3, <1>5, <1>6, LegsStayReal, RowsStayReal DEF RealInv

(* The status of a basket is derived from its legs. *)
LEMMA DeriveReal == ASSUME RealInv, NEW b \in Baskets PROVE RealText(b, Derive(b))
<1>1. Derive(b) = "submitted" => \A n \in LegsOf(b) : leg[b][n].status = "submitted"
  BY DEF Derive
<1> QED
  BY <1>1, LegsTyped DEF RealInv, LegsReal, Real, RealText

LEMMA RealFinish == ASSUME TypeInv, RealInv, NEW b \in Baskets, Finish(b) PROVE RealInv'
<1>1. b \in Procs /\ call[b] \in CallType /\ call[b].basket = b
  BY ConstantsTyped, CallFields DEF TypeInv, CallsInv, Finish
<1>2. SamePlaced /\ Grows
  BY SamePlacedGrows DEF SamePlaced, Finish
<1>3. /\ \A r \in Procs \ {b} : call'[r] = call[r]
      /\ call'[b].pc = "status" /\ call'[b].basket = b /\ call'[b].text = Derive(b)
  BY <1>1 DEF Finish, TypeInv, TypeOK, CallType
<1>4. RealText(b, Derive(b)) /\ venue' = venue
  BY DeriveReal DEF Finish
<1>5. CallsReal'
  BY <1>1, <1>2, <1>3, <1>4, CallsStayReal DEF RealText, HasOrder
<1>6. TextsReal'
  BY <1>4 DEF Finish, RealInv, TextsReal, RealText, HasOrder, TypeInv, TypeOK
<1> QED
  BY <1>2, <1>5, <1>6, LegsStayReal, RowsStayReal DEF RealInv, Finish

LEMMA RealOrders == ASSUME RealInv PROVE OrdersInv
  BY DEF RealInv, LegsReal, Real, OrdersInv

LEMMA RealCancel ==
  ASSUME TypeInv, RealInv, NEW c \in Cancellers, NEW b \in Baskets, NEW from \in Nat,
         CancelFrom(c, b, from)
  PROVE  RealInv' /\ SamePlaced
<1>1. c \in Procs /\ OrdersInv
  BY ConstantsTyped, RealOrders
<1>2. CASE \E n \in NextOrder(b, from) : CancelTrade(b, n) /\ MarkCancelled(c, b, n)
  <2>1. PICK n \in NextOrder(b, from) : CancelTrade(b, n) /\ MarkCancelled(c, b, n)
    BY <1>2
  <2> DEFINE l == [leg[b][n] EXCEPT !.status = "cancelled"]
  <2>2. n \in Legs /\ n \in LegsOf(b) /\ leg[b][n].order # 0
    BY <1>1 DEF NextOrder, OrdersInv
  <2>3. leg[b] \in [Legs -> LegType] /\ leg[b][n] \in LegType
    BY <2>2 DEF TypeInv, TypeOK
  <2>4. l.order = leg[b][n].order
    BY <2>3 DEF LegType
  <2>5. HasOrder(b, n)
    BY <2>2 DEF RealInv, LegsReal, Real
  <2>6. SamePlaced /\ Grows
    BY <2>1, <2>2, TradeTyped, SamePlacedGrows DEF TypeInv
  <2>7. Real(b, n, l) /\ venue'[b][n].placed > 0
    BY <2>2, <2>5, <2>6 DEF Real, Grows
  <2>8. leg' = [leg EXCEPT ![b] = [leg[b] EXCEPT ![n] = l]]
    BY <2>1 DEF MarkCancelled
  <2>9. call' = [call EXCEPT ![c] = [Idle EXCEPT !.pc = "leg", !.basket = b, !.n = n, !.leg = l]]
    BY <2>1 DEF MarkCancelled
  <2> HIDE DEF l
  <2>10. /\ leg'[b][n] = l
         /\ \A a \in Baskets, m \in Legs : a # b \/ m # n => leg'[a][m] = leg[a][m]
    BY <2>2, <2>3, <2>8 DEF TypeInv, TypeOK
  <2>11. LegsReal'
    BY <2>6, <2>7, <2>10, RealGrows DEF RealInv, LegsReal, Real, HasOrder
  <2>12. /\ \A r \in Procs \ {c} : call'[r] = call[r]
         /\ call'[c].pc = "leg" /\ call'[c].basket = b /\ call'[c].n = n /\ call'[c].leg = l
    BY <1>1, <2>9 DEF TypeInv, TypeOK, Idle
  <2>13. CallsReal'
    BY <1>1, <2>6, <2>7, <2>12, CallsStayReal DEF Real, HasOrder
  <2>14. UNCHANGED <<status, row>>
    BY <2>1, <2>2, <1>2 DEF CancelFrom, NextOrder
  <2> QED
    BY <2>6, <2>11, <2>13, <2>14, RowsStayReal, TextsStayReal DEF RealInv
<1>3. CASE /\ status' = [status EXCEPT ![b] = "cancelled"]
           /\ call' = [call EXCEPT ![c] =
                [Idle EXCEPT !.pc = "status", !.basket = b, !.text = "cancelled"]]
           /\ UNCHANGED <<leg, manager, row, up, venue, faults>>
  <2>1. SamePlaced /\ Grows
    BY <1>3, SamePlacedGrows DEF SamePlaced
  <2>2. /\ \A r \in Procs \ {c} : call'[r] = call[r]
        /\ call'[c].pc = "status" /\ call'[c].text = "cancelled"
    BY <1>1, <1>3 DEF TypeInv, TypeOK, Idle
  <2>3. CallsReal'
    BY <1>1, <2>1, <2>2, CallsStayReal DEF RealText
  <2>4. TextsReal'
    BY <1>3, <2>1, RealGrows DEF RealInv, TextsReal, RealText, HasOrder, TypeInv, TypeOK
  <2> QED
    BY <1>3, <2>1, <2>3, <2>4, LegsStayReal, RowsStayReal DEF RealInv
<1> QED
  BY <1>2, <1>3 DEF CancelFrom

LEMMA RealWrites ==
  ASSUME TypeInv, RealInv, NEW p \in Procs, Commits(p) \/ WriteFails(p)
  PROVE  RealInv'
<1> DEFINE b == call[p].basket
<1>1. /\ call[p].pc \in {"save", "leg", "status"} /\ call' = [call EXCEPT ![p] = AfterWrite(p)]
      /\ UNCHANGED <<status, leg, venue>>
  BY DEF Commits, WriteFails, memory
<1>2. Grows
  BY <1>1 DEF Grows, HasOrder
<1>3. /\ \A r \in Procs \ {p} : call'[r] = call[r]
      /\ call'[p].pc \in {"idle", "walk"}
  BY <1>1, AfterWriteTyped, IdleTyped, Zenon DEF TypeInv, TypeOK
<1>4. CallsReal'
  BY <1>2, <1>3, CallsStayReal
<1>5. RowsReal'
  <2>1. CASE row' = row
    BY <1>2, <2>1, RowsStayReal
  <2>2. CASE Commits(p)
    <3> SUFFICES ASSUME NEW a \in Baskets
                 PROVE  /\ \A n \in Legs : Real(a, n, row[a].legs[n])'
                        /\ RealText(a, row[a].status)'
      BY DEF RowsReal
    <3>1. b \in Baskets
      BY <2>2, WrittenTyped
    <3>2. ASSUME NEW n \in Legs PROVE Real(a, n, row'[a].legs[n])
      <4>1. \/ row'[a].legs[n] \in {row[a].legs[n], Fresh}
            \/ call[p].pc = "leg" /\ a = b /\ n = call[p].n /\ row'[a].legs[n] = call[p].leg
        BY <2>2, <3>2, WrittenTyped
      <4>2. Real(a, n, Fresh) /\ Real(a, n, row[a].legs[n])
        BY DEF Real, Fresh, RealInv, RowsReal
      <4> QED
        BY <4>1, <4>2 DEF RealInv, CallsReal
    <3>3. RealText(a, row'[a].status)
      <4>1. \/ row'[a].status \in {row[a].status, "submitting"}
            \/ call[p].pc = "status" /\ a = b /\ row'[a].status = call[p].text
        BY <2>2, WrittenTyped
      <4>2. RealText(a, "submitting") /\ RealText(a, row[a].status)
        BY DEF RealText, RealInv, RowsReal
      <4> QED
        BY <4>1, <4>2 DEF RealInv, CallsReal
    <3> QED
      BY <1>1, <3>2, <3>3 DEF Real, RealText, HasOrder
  <2> QED
    BY <2>1, <2>2 DEF WriteFails
<1> QED
  BY <1>1, <1>2, <1>4, <1>5, LegsStayReal, TextsStayReal DEF RealInv

LEMMA RealRestart ==
  ASSUME TypeInv, RealInv, Crash \/ Restore \/ RestoreFails
  PROVE  RealInv'
<1>1. Grows /\ row' = row
  <2>1. CASE Crash
    BY <2>1, CrashTyped, SamePlacedGrows DEF Crash
  <2>2. CASE Restore \/ RestoreFails
    BY <2>2 DEF Restore, RestoreFails, Grows, HasOrder
  <2> QED
    BY <2>1, <2>2
<1>2. CallsReal'
  <2>1. CASE Crash
    BY <2>1, IdleTyped, Zenon DEF Crash, CallsReal
  <2>2. CASE Restore \/ RestoreFails
    BY <2>2 DEF Restore, RestoreFails, RealInv, CallsReal, Real, RealText, HasOrder
  <2> QED
    BY <2>1, <2>2
<1>3. ASSUME NEW b \in Baskets, NEW n \in Legs PROVE Real(b, n, leg[b][n])'
  <2>1. leg'[b][n] \in {Fresh, leg[b][n], row[b].legs[n]}
    BY DEF Crash, Restore, RestoreFails, memory, FreshLegs
  <2>2. Real(b, n, Fresh) /\ Real(b, n, leg[b][n]) /\ Real(b, n, row[b].legs[n])
    BY DEF Real, Fresh, RealInv, LegsReal, RowsReal
  <2> QED
    BY <1>1, <2>1, <2>2, RealGrows DEF Real, HasOrder
<1>4. ASSUME NEW b \in Baskets PROVE RealText(b, status[b])'
  <2>1. status'[b] \in {"absent", status[b], row[b].status}
    BY DEF Crash, Restore, RestoreFails, memory
  <2>2. RealText(b, "absent") /\ RealText(b, status[b]) /\ RealText(b, row[b].status)
    BY DEF RealText, RealInv, TextsReal, RowsReal
  <2> QED
    BY <1>1, <2>1, <2>2, RealGrows DEF RealText, HasOrder
<1> QED
  BY <1>1, <1>2, <1>3, <1>4, RowsStayReal DEF RealInv, LegsReal, TextsReal

-----------------------------------------------------------------------------
(* submit_basket is called once for a basket and walks its legs upwards,   *)
(* so the legs ahead of it have not been placed.                           *)
Clear(b, n) == \A m \in Legs : m >= n => venue[b][m].placed = 0
AheadOf(b) ==
  /\ \A n \in Legs : venue[b][n].placed <= 1
  /\ past[b] = "unborn" => call[b].pc = "idle" /\ Clear(b, 1)
  /\ call[b].pc \in {"save", "walk", "placing"} => Clear(b, call[b].n)
  /\ call[b].pc \in {"placed", "leg"} => Clear(b, call[b].n + 1)
AheadInv == \A b \in Baskets : AheadOf(b)

LEMMA AheadInit == Init => AheadInv
<1> SUFFICES ASSUME Init, NEW b \in Baskets PROVE AheadOf(b)
  BY DEF AheadInv
<1>1. call[b].pc = "idle"
  BY ConstantsTyped, IdleTyped, Zenon DEF Init
<1>2. \A n \in Legs : venue[b][n].placed = 0
  BY DEF Init
<1> QED
  BY <1>1, <1>2 DEF AheadOf, Clear

(* The other baskets. *)
LEMMA AheadFrame ==
  ASSUME TypeInv, AheadInv, NEW b \in Baskets,
         call'[b] = call[b], past'[b] = "unborn" => past[b] = "unborn",
         \A n \in Legs : venue'[b][n].placed = venue[b][n].placed
  PROVE  AheadOf(b)'
  BY DEF AheadInv, AheadOf, Clear

LEMMA AheadSubmit == ASSUME TypeInv, AheadInv, NEW b \in Baskets, SubmitBasket(b) PROVE AheadInv'
<1>1. b \in Procs /\ venue' = venue /\ past[b] = "unborn"
  BY ConstantsTyped DEF SubmitBasket
<1>2. /\ \A a \in Procs \ {b} : call'[a] = call[a]
      /\ call'[b].pc = "save" /\ call'[b].n = 0
      /\ \A a \in Baskets \ {b} : past'[a] = past[a]
      /\ past'[b] # "unborn"
  BY <1>1 DEF SubmitBasket, TypeInv, TypeOK, Idle
<1>3. Clear(b, 0)
  <2>1. Clear(b, 1)
    BY <1>1 DEF AheadInv, AheadOf
  <2> QED
    BY <2>1, VenuesAssumption DEF Clear, Legs
<1>4. AheadOf(b)'
  BY <1>1, <1>2, <1>3 DEF AheadInv, AheadOf, Clear
<1>5. ASSUME NEW a \in Baskets \ {b} PROVE AheadOf(a)'
  BY <1>1, <1>2, AheadFrame, ConstantsTyped
<1> QED
  BY <1>4, <1>5 DEF AheadInv

(* A step within submit_basket that stays at its leg. *)
LEMMA AheadAtLeg ==
  ASSUME TypeInv, AheadInv, NEW b \in Baskets, past' = past,
         \A a \in Procs \ {b} : call'[a] = call[a],
         \A a \in Baskets, n \in Legs :
           a # b \/ n # call[b].n => venue'[a][n].placed = venue[a][n].placed,
         call[b].pc \in {"walk", "placing", "placed"}, call[b].n \in Legs,
         call'[b].pc \in {"placing", "placed", "leg"} => call'[b].n = call[b].n,
         call'[b].pc \in {"idle", "placing", "placed", "leg", "status"},
         \/ /\ venue'[b][call[b].n].placed = venue[b][call[b].n].placed
            /\ call[b].pc = "placed" => call'[b].pc # "placing"
         \/ /\ call[b].pc # "placed" /\ call'[b].pc # "placing"
            /\ venue'[b][call[b].n].placed = venue[b][call[b].n].placed + 1
  PROVE  AheadInv'
<1> DEFINE n == call[b].n
<1>1. n \in Nat /\ b \in Procs /\ \A m \in Legs : m \in Nat /\ venue[b][m].placed \in Nat
  BY ConstantsTyped, CallFields DEF Legs, TypeInv, TypeOK
<1>2. \A m \in Legs : m >= n + 1 => venue'[b][m].placed = 0
  BY <1>1 DEF AheadInv, AheadOf, Clear
<1>3. call[b].pc # "placed" => venue[b][n].placed = 0
  BY <1>1 DEF AheadInv, AheadOf, Clear
<1>4. \A m \in Legs : venue'[b][m].placed <= 1
  BY <1>1, <1>3 DEF AheadInv, AheadOf
<1>5. call'[b].pc = "placing" => \A m \in Legs : m >= n => venue'[b][m].placed = 0
  BY <1>1, <1>2, <1>3
<1>6. past[b] # "unborn"
  BY DEF AheadInv, AheadOf
<1>7. AheadOf(b)'
  BY <1>2, <1>4, <1>5, <1>6 DEF AheadOf, Clear
<1>8. ASSUME NEW a \in Baskets \ {b} PROVE AheadOf(a)'
  BY AheadFrame, ConstantsTyped
<1> QED
  BY <1>7, <1>8 DEF AheadInv

LEMMA AheadLeg ==
  ASSUME TypeInv, AheadInv, NEW b \in Baskets,
         \/ RejectLeg(b) \/ UnavailableLeg(b) \/ PaperLeg(b) \/ LiveLegStarts(b)
         \/ LegAccepted(b) \/ LegRaises(b) \/ LegRecorded(b)
  PROVE  AheadInv'
<1>1. /\ call[b].pc \in {"walk", "placing", "placed"} /\ past' = past /\ b \in Procs
      /\ call[b] \in CallType /\ call \in [Procs -> CallType]
  BY CallFields, ConstantsTyped, Zenon DEF RejectLeg, UnavailableLeg, PaperLeg, LiveLegStarts,
       LegAccepted, LegRaises, LegRecorded, AtLeg, TypeInv, TypeOK
<1>2. call[b].n \in Legs
  BY <1>1, LegsTyped, Zenon DEF RejectLeg, UnavailableLeg, PaperLeg, LiveLegStarts, LegAccepted,
       LegRaises, LegRecorded, AtLeg, TypeInv, CallsInv
<1>3. \/ venue' = venue
      \/ venue' = Placed(b, call[b].n) /\ call[b].pc # "placed" /\ ~LiveLegStarts(b)
  BY Zenon DEF RejectLeg, UnavailableLeg, PaperLeg, LiveLegStarts, LegAccepted,
       LegRaises, LegRecorded, AtLeg
<1>4. \A a \in Baskets, n \in Legs :
        a # b \/ n # call[b].n => venue'[a][n].placed = venue[a][n].placed
  BY <1>2, <1>3, PlacedCounts DEF TypeInv
<1>5. \/ venue' = venue
      \/ venue'[b][call[b].n].placed = venue[b][call[b].n].placed + 1
  BY <1>2, <1>3, PlacedCounts DEF TypeInv
<1>6. CASE LiveLegStarts(b)
  <2>1. /\ \A a \in Procs \ {b} : call'[a] = call[a]
        /\ call'[b].pc = "placing" /\ call'[b].n = call[b].n
        /\ venue' = venue /\ call[b].pc = "walk"
    BY <1>1, <1>6 DEF LiveLegStarts, AtLeg, CallType
  <2> QED
    BY <1>1, <1>2, <1>4, <2>1, AheadAtLeg
<1>7. CASE LegAccepted(b)
  <2>1. /\ \A a \in Procs \ {b} : call'[a] = call[a]
        /\ call'[b].pc = "placed" /\ call'[b].n = call[b].n
        /\ call[b].pc = "placing"
    BY <1>1, <1>7 DEF LegAccepted, CallType
  <2> QED
    BY <1>1, <1>2, <1>4, <1>5, <2>1, AheadAtLeg
<1>8. CASE LegRaises(b)
  <2>1. /\ \A a \in Procs \ {b} : call'[a] = call[a]
        /\ call'[b].pc = "idle" /\ call[b].pc = "placing"
    BY <1>1, <1>8 DEF LegRaises, Idle
  <2> QED
    BY <1>1, <1>2, <1>4, <1>5, <2>1, AheadAtLeg
<1>9. CASE RejectLeg(b) \/ UnavailableLeg(b) \/ PaperLeg(b) \/ LegRecorded(b)
  <2>1. \E l : Outcome(b, l)
    BY <1>9, Zenon DEF RejectLeg, UnavailableLeg, PaperLeg, LegRecorded
  <2>2. /\ \A a \in Procs \ {b} : call'[a] = call[a]
        /\ call'[b].pc = "leg" /\ call'[b].n = call[b].n
    BY <1>1, <2>1 DEF Outcome, CallType
  <2>3. venue' = venue \/ call[b].pc # "placed"
    BY <1>3
  <2> QED
    BY <1>1, <1>2, <1>4, <1>5, <2>2, <2>3, AheadAtLeg
<1> QED
  BY <1>6, <1>7, <1>8, <1>9

LEMMA AheadFinish == ASSUME TypeInv, AheadInv, NEW b \in Baskets, Finish(b) PROVE AheadInv'
<1>1. /\ b \in Procs /\ call[b] \in CallType /\ call[b].pc = "walk"
      /\ UNCHANGED <<venue, past>>
  BY CallFields, ConstantsTyped DEF Finish, TypeInv
<1>2. /\ \A a \in Procs \ {b} : call'[a] = call[a]
      /\ call'[b].pc = "status"
  BY <1>1 DEF Finish, CallType, TypeInv, TypeOK
<1>3. AheadOf(b)'
  BY <1>1, <1>2 DEF AheadInv, AheadOf
<1>4. ASSUME NEW a \in Baskets \ {b} PROVE AheadOf(a)'
  BY <1>1, <1>2, AheadFrame, ConstantsTyped
<1> QED
  BY <1>3, <1>4 DEF AheadInv

(* A cancellation places nothing. *)
LEMMA AheadCancel ==
  ASSUME TypeInv, AheadInv, SamePlaced, NEW c \in Cancellers, NEW b \in Baskets,
         NEW from \in Nat, CancelFrom(c, b, from),
         \A a \in Baskets : past'[a] = "unborn" => past[a] = "unborn"
  PROVE  AheadInv'
<1>1. c \in Procs /\ c \notin Baskets
  BY BasketsAssumption, ConstantsTyped
<1>2. \A a \in Procs \ {c} : call'[a] = call[a]
  BY <1>1, Zenon DEF CancelFrom, MarkCancelled, TypeInv, TypeOK
<1> QED
  BY <1>1, <1>2, AheadFrame, ConstantsTyped DEF AheadInv, SamePlaced

LEMMA AheadWrites ==
  ASSUME TypeInv, AheadInv, NEW p \in Procs, Commits(p) \/ WriteFails(p)
  PROVE  AheadInv'
<1>1. /\ call[p].pc \in {"save", "leg", "status"} /\ call' = [call EXCEPT ![p] = AfterWrite(p)]
      /\ UNCHANGED <<venue, past>>
  BY DEF Commits, WriteFails
<1>2. /\ \A a \in Procs \ {p} : call'[a] = call[a]
      /\ call'[p] = AfterWrite(p)
  BY <1>1 DEF TypeInv, TypeOK
<1>3. ASSUME NEW b \in Baskets \ {p} PROVE AheadOf(b)'
  BY <1>1, <1>2, AheadFrame, ConstantsTyped
<1>4. ASSUME p \in Baskets PROVE AheadOf(p)'
  <2>1. past[p] # "unborn" /\ call[p].n \in Nat /\ \A m \in Legs : m \in Nat
    BY <1>1, <1>4, CallFields DEF AheadInv, AheadOf, Legs, TypeInv
  <2>2. CASE call[p].pc = "status"
    BY <1>1, <1>2, <1>4, <2>1, <2>2, AfterWriteTyped, IdleTyped, Zenon DEF AheadInv, AheadOf
  <2>3. CASE call[p].pc # "status"
    <3>1. AfterWrite(p).pc = "walk" /\ AfterWrite(p).n = call[p].n + 1
      BY <1>1, <2>3, AfterWriteTyped
    <3>2. Clear(p, call[p].n + 1)
      BY <1>1, <1>4, <2>1, <2>3 DEF AheadInv, AheadOf, Clear
    <3> QED
      BY <1>1, <1>2, <1>4, <2>1, <3>1, <3>2 DEF AheadInv, AheadOf, Clear
  <2> QED
    BY <2>2, <2>3
<1> QED
  BY <1>3, <1>4 DEF AheadInv

LEMMA AheadRestart ==
  ASSUME TypeInv, AheadInv, Crash \/ Restore \/ RestoreFails
  PROVE  AheadInv'
<1>1. CASE Crash
  <2>1. SamePlaced /\ past' = past /\ \A b \in Baskets : call'[b].pc = "idle"
    BY <1>1, CrashTyped, IdleTyped, ConstantsTyped, Zenon DEF Crash
  <2> QED
    BY <2>1 DEF AheadInv, AheadOf, Clear, SamePlaced
<1>2. CASE Restore \/ RestoreFails
  BY <1>2 DEF Restore, RestoreFails, AheadInv, AheadOf, Clear
<1> QED
  BY <1>1, <1>2

-----------------------------------------------------------------------------
(* Before the first crash the numbers that legs and calls hold name their  *)
(* own orders; one that is being placed has no owner yet.                  *)
OwnLegs ==
  \A b \in Baskets, n \in Legs :
    leg[b][n].order # 0 =>
      /\ leg[b][n].order \in DOMAIN manager[VenueOf[b][n]]
      /\ manager[VenueOf[b][n]][leg[b][n].order].ref = <<b, n>>
OwnCalls ==
  \A b \in Baskets :
    LET v == VenueOf[b][call[b].n]
        o == call[b].order
    IN  /\ call[b].pc = "placed" => manager[v][o].ref = <<b, call[b].n>>
        /\ call[b].pc = "placing" => manager[v][o].ref = None
Apart ==
  \A a, b \in Baskets :
    call[a].pc = "placing" /\ call[b].pc = "placing" /\ a # b =>
      \/ VenueOf[a][call[a].n] # VenueOf[b][call[b].n]
      \/ call[a].order # call[b].order
OwnInv ==
  /\ ~up => faults.crashes > 0
  /\ faults.crashes = 0 => OwnLegs /\ OwnCalls /\ Apart

LEMMA OwnInit == Init => OwnInv
<1> SUFFICES ASSUME Init PROVE OwnInv
  OBVIOUS
<1>1. \A b \in Baskets : call[b].pc = "idle"
  BY ConstantsTyped, IdleTyped, Zenon DEF Init
<1>2. \A b \in Baskets, n \in Legs : leg[b][n].order = 0
  BY DEF Init, FreshLegs, Fresh
<1> QED
  BY <1>1, <1>2 DEF Init, OwnInv, OwnLegs, OwnCalls, Apart

LEMMA KeptOrder ==
  ASSUME SameOrders, NEW v \in Venues, NEW o \in DOMAIN manager[v]
  PROVE  o \in DOMAIN manager'[v] /\ manager'[v][o].ref = manager[v][o].ref
  BY DEF SameOrders

(* Steps that leave the owners of the orders alone. *)
LEMMA OwnFrame ==
  ASSUME TypeInv, RealInv, OwnInv, SameOrders, up' = up, faults'.crashes = faults.crashes,
         \A b \in Baskets, n \in Legs :
           leg'[b][n].order = leg[b][n].order
           \/ /\ leg'[b][n].order = call[b].order
              /\ call[b].pc = "placed" /\ call[b].n = n,
         \A b \in Baskets :
           call'[b].pc \in {"placing", "placed"} =>
             call'[b].pc = call[b].pc /\ call'[b].n = call[b].n /\ call'[b].order = call[b].order
  PROVE  OwnInv'
<1> SUFFICES ASSUME faults.crashes = 0 PROVE OwnLegs' /\ OwnCalls' /\ Apart'
  BY DEF OwnInv
<1>1. OwnLegs /\ OwnCalls /\ Apart
  BY DEF OwnInv
<1>2. \A b \in Baskets :
        call[b].pc \in {"placing", "placed"} =>
          /\ call[b].n \in LegsOf(b) /\ VenueOf[b][call[b].n] \in Venues
          /\ call[b].order \in DOMAIN manager[VenueOf[b][call[b].n]]
  BY LegsTyped, ConstantsTyped DEF TypeInv, CallsInv
<1>3. OwnLegs'
  <2> SUFFICES ASSUME NEW b \in Baskets, NEW n \in Legs, leg'[b][n].order # 0
               PROVE  /\ leg'[b][n].order \in DOMAIN manager'[VenueOf[b][n]]
                      /\ manager'[VenueOf[b][n]][leg'[b][n].order].ref = <<b, n>>
    BY DEF OwnLegs
  <2>1. CASE leg'[b][n].order = leg[b][n].order
    <3>1. VenueOf[b][n] \in Venues
      BY <2>1, LegsTyped DEF RealInv, LegsReal, Real
    <3>2. /\ leg[b][n].order \in DOMAIN manager[VenueOf[b][n]]
          /\ manager[VenueOf[b][n]][leg[b][n].order].ref = <<b, n>>
      BY <1>1, <2>1 DEF OwnLegs
    <3>3. /\ leg[b][n].order \in DOMAIN manager'[VenueOf[b][n]]
          /\ manager'[VenueOf[b][n]][leg[b][n].order].ref = <<b, n>>
      BY <3>1, <3>2, Zenon DEF SameOrders
    <3> QED
      BY <2>1, <3>3, Zenon
  <2>2. CASE leg'[b][n].order = call[b].order /\ call[b].pc = "placed" /\ call[b].n = n
    <3>1. manager[VenueOf[b][n]][call[b].order].ref = <<b, n>>
      BY <1>1, <2>2 DEF OwnCalls
    <3>2. VenueOf[b][n] \in Venues /\ call[b].order \in DOMAIN manager[VenueOf[b][n]]
      BY <1>2, <2>2
    <3>3. /\ call[b].order \in DOMAIN manager'[VenueOf[b][n]]
          /\ manager'[VenueOf[b][n]][call[b].order].ref = <<b, n>>
      BY <3>1, <3>2, Zenon DEF SameOrders
    <3> QED
      BY <2>2, <3>3
  <2> QED
    BY <2>1, <2>2
<1>4. OwnCalls'
  <2> SUFFICES ASSUME NEW b \in Baskets, call'[b].pc \in {"placing", "placed"}
               PROVE  LET o == manager'[VenueOf[b][call[b].n]][call[b].order]
                      IN  /\ call[b].pc = "placed" => o.ref = <<b, call[b].n>>
                          /\ call[b].pc = "placing" => o.ref = None
    BY DEF OwnCalls
  <2>1. call[b].pc \in {"placing", "placed"}
    OBVIOUS
  <2>2. manager'[VenueOf[b][call[b].n]][call[b].order].ref
          = manager[VenueOf[b][call[b].n]][call[b].order].ref
    BY <1>2, <2>1, KeptOrder
  <2> QED
    BY <1>1, <2>2, Zenon DEF OwnCalls
<1>5. Apart'
  BY <1>1 DEF Apart
<1> QED
  BY <1>3, <1>4, <1>5

LEMMA OwnPaper ==
  ASSUME TypeInv, RealInv, OwnInv, NEW b \in Baskets, PaperLeg(b)
  PROVE  OwnInv'
<1> DEFINE n == call[b].n
           v == VenueOf[b][n]
           o == Len(manager[v]) + 1
           w == [status |-> "submitted", ref |-> <<b, n>>]
           l == [status |-> "submitted", order |-> o]
<1> SUFFICES ASSUME faults.crashes = 0 PROVE OwnLegs' /\ OwnCalls' /\ Apart'
  BY DEF OwnInv, PaperLeg
<1>1. call[b].pc = "walk" /\ n \in LegsOf(b) /\ n \in Legs /\ v \in Venues /\ b \in Procs
  BY LegsTyped, ConstantsTyped DEF PaperLeg, AtLeg
<1>2. w \in ManagerType /\ w.ref = <<b, n>>
  BY <1>1 DEF ManagerType
<1>3. manager' = [manager EXCEPT ![v] = Append(@, w)] /\ Outcome(b, l)
  BY DEF PaperLeg
<1> HIDE DEF w
<1>4. /\ o \in DOMAIN manager'[v] /\ o \in Nat \ {0}
      /\ manager'[v][o] = w
      /\ \A u \in Venues : DOMAIN manager[u] \subseteq DOMAIN manager'[u]
      /\ \A u \in Venues : \A i \in DOMAIN manager[u] : manager'[u][i] = manager[u][i]
  BY <1>1, <1>2, <1>3, AppendTyped, Zenon DEF TypeInv
<1>5. l \in LegType /\ l.order = o
  BY <1>4 DEF LegType
<1> HIDE DEF l, o
<1>6. /\ leg'[b][n] = l
      /\ \A a \in Baskets, m \in Legs : a # b \/ m # n => leg'[a][m] = leg[a][m]
      /\ \A p \in Procs \ {b} : call'[p] = call[p]
      /\ call'[b].pc = "leg"
  BY <1>1, <1>3, <1>5, OutcomeTyped DEF TypeInv
<1>7. OwnLegs /\ OwnCalls /\ Apart
  BY DEF OwnInv
<1>8. ASSUME NEW a \in Baskets, NEW m \in Legs, leg'[a][m].order # 0
      PROVE  /\ leg'[a][m].order \in DOMAIN manager'[VenueOf[a][m]]
             /\ manager'[VenueOf[a][m]][leg'[a][m].order].ref = <<a, m>>
  <2>1. CASE a = b /\ m = n
    BY <1>2, <1>4, <1>5, <1>6, <2>1, Zenon
  <2>2. CASE a # b \/ m # n
    <3>1. leg'[a][m] = leg[a][m]
      BY <1>6, <2>2
    <3>2. VenueOf[a][m] \in Venues
      BY <1>8, <3>1, LegsTyped DEF RealInv, LegsReal, Real
    <3>3. /\ leg[a][m].order \in DOMAIN manager[VenueOf[a][m]]
          /\ manager[VenueOf[a][m]][leg[a][m].order].ref = <<a, m>>
      BY <1>7, <1>8, <3>1 DEF OwnLegs
    <3> QED
      BY <1>4, <3>1, <3>2, <3>3, Zenon
  <2> QED
    BY <2>1, <2>2
<1>9. ASSUME NEW a \in Baskets, call'[a].pc \in {"placing", "placed"}
      PROVE  /\ call'[a] = call[a] /\ VenueOf[a][call[a].n] \in Venues
             /\ call[a].order \in DOMAIN manager[VenueOf[a][call[a].n]]
  BY <1>6, <1>9, LegsTyped, ConstantsTyped DEF TypeInv, CallsInv
<1>10. OwnCalls'
  <2> SUFFICES ASSUME NEW a \in Baskets, call'[a].pc \in {"placing", "placed"}
               PROVE  LET x == manager'[VenueOf[a][call[a].n]][call[a].order]
                      IN  /\ call[a].pc = "placed" => x.ref = <<a, call[a].n>>
                          /\ call[a].pc = "placing" => x.ref = None
    BY <1>9 DEF OwnCalls
  <2>1. manager'[VenueOf[a][call[a].n]][call[a].order]
          = manager[VenueOf[a][call[a].n]][call[a].order]
    BY <1>4, <1>9
  <2> QED
    BY <1>7, <2>1, Zenon DEF OwnCalls
<1>11. Apart'
  BY <1>7, <1>9 DEF Apart
<1> QED
  BY <1>8, <1>10, <1>11 DEF OwnLegs

LEMMA OwnLiveStarts ==
  ASSUME TypeInv, RealInv, OwnInv, NEW b \in Baskets, LiveLegStarts(b)
  PROVE  OwnInv'
<1> DEFINE n == call[b].n
           v == VenueOf[b][n]
           o == Len(manager[v]) + 1
           w == [status |-> "pending", ref |-> None]
<1> SUFFICES ASSUME faults.crashes = 0 PROVE OwnLegs' /\ OwnCalls' /\ Apart'
  BY DEF OwnInv, LiveLegStarts
<1>1. n \in LegsOf(b) /\ v \in Venues /\ b \in Procs /\ call[b] \in CallType
  BY LegsTyped, ConstantsTyped, CallFields DEF LiveLegStarts, AtLeg, TypeInv
<1>2. w \in ManagerType /\ w.ref = None
  BY DEF ManagerType
<1>3. manager' = [manager EXCEPT ![v] = Append(@, w)] /\ leg' = leg
  BY DEF LiveLegStarts
<1> HIDE DEF w
<1>4. /\ o \notin DOMAIN manager[v] /\ manager'[v][o] = w
      /\ \A u \in Venues : DOMAIN manager[u] \subseteq DOMAIN manager'[u]
      /\ \A u \in Venues : \A i \in DOMAIN manager[u] : manager'[u][i] = manager[u][i]
  BY <1>1, <1>2, <1>3, AppendTyped, Zenon DEF TypeInv
<1>5. /\ \A p \in Procs \ {b} : call'[p] = call[p]
      /\ call'[b].pc = "placing" /\ call'[b].order = o /\ call'[b].n = n
  BY <1>1 DEF LiveLegStarts, CallType, TypeInv, TypeOK
<1> HIDE DEF o
<1>6. OwnLegs /\ OwnCalls /\ Apart
  BY DEF OwnInv
<1>7. OwnLegs'
  <2>1. \A a \in Baskets, m \in Legs : leg[a][m].order # 0 => VenueOf[a][m] \in Venues
    BY LegsTyped DEF RealInv, LegsReal, Real
  <2>2. ASSUME NEW a \in Baskets, NEW m \in Legs, leg[a][m].order # 0
        PROVE  /\ leg[a][m].order \in DOMAIN manager'[VenueOf[a][m]]
               /\ manager'[VenueOf[a][m]][leg[a][m].order].ref = <<a, m>>
    <3>1. /\ leg[a][m].order \in DOMAIN manager[VenueOf[a][m]]
          /\ manager[VenueOf[a][m]][leg[a][m].order].ref = <<a, m>>
      BY <1>6, <2>2 DEF OwnLegs
    <3> QED
      BY <1>4, <2>1, <2>2, <3>1, Zenon
  <2> QED
    BY <1>3, <2>2, Zenon DEF OwnLegs
<1>8. ASSUME NEW a \in Baskets \ {b}, call'[a].pc \in {"placing", "placed"}
      PROVE  /\ call'[a] = call[a] /\ VenueOf[a][call[a].n] \in Venues
             /\ call[a].order \in DOMAIN manager[VenueOf[a][call[a].n]]
  BY <1>5, <1>8, LegsTyped, ConstantsTyped DEF TypeInv, CallsInv
<1>9. OwnCalls'
  <2> SUFFICES ASSUME NEW a \in Baskets
               PROVE  LET x == manager'[VenueOf[a][call'[a].n]][call'[a].order]
                      IN  /\ call'[a].pc = "placed" => x.ref = <<a, call'[a].n>>
                          /\ call'[a].pc = "placing" => x.ref = None
    BY DEF OwnCalls
  <2>1. CASE a = b
    BY <1>2, <1>4, <1>5, <2>1
  <2>2. CASE a # b /\ call'[a].pc \in {"placing", "placed"}
    <3>1. manager'[VenueOf[a][call[a].n]][call[a].order]
            = manager[VenueOf[a][call[a].n]][call[a].order]
      BY <1>4, <1>8, <2>2
    <3> QED
      BY <1>6, <1>8, <2>2, <3>1, Zenon DEF OwnCalls
  <2> QED
    BY <2>1, <2>2, Zenon
<1>10. Apart'
  BY <1>4, <1>5, <1>6, <1>8 DEF Apart
<1> QED
  BY <1>7, <1>9, <1>10

LEMMA OwnAccepted ==
  ASSUME TypeInv, RealInv, OwnInv, NEW b \in Baskets, LegAccepted(b)
  PROVE  OwnInv'
<1> DEFINE n == call[b].n
           v == VenueOf[b][n]
           o == call[b].order
<1> SUFFICES ASSUME faults.crashes = 0 PROVE OwnLegs' /\ OwnCalls' /\ Apart'
  BY DEF OwnInv, LegAccepted
<1>1. OwnLegs /\ OwnCalls /\ Apart
  BY DEF OwnInv
<1>2. call[b].pc = "placing" /\ b \in Procs /\ call[b] \in CallType /\ leg' = leg
  BY ConstantsTyped, CallFields DEF LegAccepted, TypeInv
<1>3. /\ n \in Legs /\ v \in Venues /\ o \in DOMAIN manager[v]
      /\ manager[v][o].ref = None
  BY <1>1, <1>2, LegsTyped DEF TypeInv, CallsInv, OwnCalls
<1>4. /\ \A p \in Procs \ {b} : call'[p] = call[p]
      /\ call'[b].pc = "placed" /\ call'[b].order = o /\ call'[b].n = n
  BY <1>2 DEF LegAccepted, CallType, TypeInv, TypeOK
<1>5. /\ \A u \in Venues : DOMAIN manager'[u] = DOMAIN manager[u]
      /\ \A u \in Venues : \A i \in DOMAIN manager[u] :
           u # v \/ i # o => manager'[u][i] = manager[u][i]
      /\ manager'[v][o].ref = <<b, n>>
  BY AcceptedTyped
<1> HIDE DEF n, v, o
<1>6. \A a \in Baskets, m \in Legs : <<a, m>> # None
  BY BasketsAssumption
<1>7. OwnLegs'
  <2> SUFFICES ASSUME NEW a \in Baskets, NEW m \in Legs, leg[a][m].order # 0
               PROVE  /\ leg[a][m].order \in DOMAIN manager'[VenueOf[a][m]]
                      /\ manager'[VenueOf[a][m]][leg[a][m].order].ref = <<a, m>>
    BY <1>2 DEF OwnLegs
  <2>1. VenueOf[a][m] \in Venues
    BY LegsTyped DEF RealInv, LegsReal, Real
  <2>2. /\ leg[a][m].order \in DOMAIN manager[VenueOf[a][m]]
        /\ manager[VenueOf[a][m]][leg[a][m].order].ref = <<a, m>>
    BY <1>1 DEF OwnLegs
  <2>3. VenueOf[a][m] # v \/ leg[a][m].order # o
    BY <1>3, <1>6, <2>2, Zenon
  <2> QED
    BY <1>5, <2>1, <2>2, <2>3, Zenon
<1>8. ASSUME NEW a \in Baskets \ {b}, call'[a].pc \in {"placing", "placed"}
      PROVE  /\ call'[a] = call[a] /\ VenueOf[a][call[a].n] \in Venues /\ call[a].n \in Legs
             /\ call[a].order \in DOMAIN manager[VenueOf[a][call[a].n]]
             /\ VenueOf[a][call[a].n] # v \/ call[a].order # o
  <2>1. /\ call'[a] = call[a] /\ VenueOf[a][call[a].n] \in Venues /\ call[a].n \in Legs
        /\ call[a].order \in DOMAIN manager[VenueOf[a][call[a].n]]
    BY <1>4, <1>8, LegsTyped, ConstantsTyped DEF TypeInv, CallsInv
  <2>2. CASE call[a].pc = "placing"
    BY <1>1, <1>2, <2>1, <2>2 DEF Apart, n, v, o
  <2>3. CASE call[a].pc = "placed"
    <3>1. manager[VenueOf[a][call[a].n]][call[a].order].ref = <<a, call[a].n>>
      BY <1>1, <2>3 DEF OwnCalls
    <3> QED
      BY <1>3, <1>6, <2>1, <3>1, Zenon
  <2> QED
    BY <1>8, <2>1, <2>2, <2>3
<1>9. OwnCalls'
  <2> SUFFICES ASSUME NEW a \in Baskets
               PROVE  /\ call'[a].pc = "placed" =>
                           manager'[VenueOf[a][call'[a].n]][call'[a].order].ref = <<a, call'[a].n>>
                      /\ call'[a].pc = "placing" =>
                           manager'[VenueOf[a][call'[a].n]][call'[a].order].ref = None
    BY DEF OwnCalls
  <2>1. CASE a = b
    BY <1>4, <1>5, <2>1 DEF v
  <2>2. CASE a # b /\ call'[a].pc \in {"placing", "placed"}
    <3>1. manager'[VenueOf[a][call[a].n]][call[a].order]
            = manager[VenueOf[a][call[a].n]][call[a].order]
      BY <1>5, <1>8, <2>2
    <3> QED
      BY <1>1, <1>8, <2>2, <3>1, Zenon DEF OwnCalls
  <2> QED
    BY <2>1, <2>2, Zenon
<1>10. Apart'
  BY <1>1, <1>4, <1>8 DEF Apart
<1> QED
  BY <1>7, <1>9, <1>10

LEMMA OwnOutcome ==
  ASSUME TypeInv, RealInv, OwnInv, NEW b \in Baskets,
         RejectLeg(b) \/ UnavailableLeg(b) \/ LegRecorded(b)
  PROVE  OwnInv'
<1>1. /\ call[b].n \in Legs /\ UNCHANGED <<manager, up, faults>>
      /\ SameOrders
  BY LegsTyped, ConstantsTyped DEF RejectLeg, UnavailableLeg, LegRecorded, AtLeg, TypeInv,
       CallsInv, SameOrders
<1>2. PICK l \in LegType :
        /\ Outcome(b, l)
        /\ l.order = 0 \/ (call[b].pc = "placed" /\ l.order = call[b].order)
  <2>1. CASE RejectLeg(b) \/ UnavailableLeg(b)
    BY <2>1 DEF RejectLeg, UnavailableLeg, LegType
  <2>2. CASE LegRecorded(b)
    BY <2>2, RecordedTyped, Zenon DEF LegRecorded
  <2> QED
    BY <2>1, <2>2
<1>3. /\ leg'[b][call[b].n] = l
      /\ \A a \in Baskets, m \in Legs : a # b \/ m # call[b].n => leg'[a][m] = leg[a][m]
      /\ \A p \in Procs \ {b} : call'[p] = call[p]
      /\ call'[b].pc = "leg"
  BY <1>1, <1>2, OutcomeTyped DEF TypeInv
<1> SUFFICES ASSUME faults.crashes = 0 PROVE OwnInv'
  BY <1>1 DEF OwnInv
<1>4. CASE l.order # 0
  BY <1>1, <1>2, <1>3, <1>4, OwnFrame, ConstantsTyped
<1>5. CASE l.order = 0
  <2>1. OwnLegs /\ OwnCalls /\ Apart
    BY DEF OwnInv
  <2>2. OwnLegs'
    <3> SUFFICES ASSUME NEW a \in Baskets, NEW m \in Legs, leg'[a][m].order # 0
                 PROVE  /\ leg'[a][m].order \in DOMAIN manager'[VenueOf[a][m]]
                        /\ manager'[VenueOf[a][m]][leg'[a][m].order].ref = <<a, m>>
      BY DEF OwnLegs
    <3>1. leg'[a][m] = leg[a][m]
      BY <1>3, <1>5
    <3> QED
      BY <1>1, <2>1, <3>1 DEF OwnLegs
  <2>3. \A a \in Baskets : call'[a].pc \in {"placing", "placed"} => call'[a] = call[a]
    BY <1>3, ConstantsTyped
  <2>4. manager' = manager
    BY <1>1
  <2>5. OwnCalls'
    BY <2>1, <2>3, <2>4, Zenon DEF OwnCalls
  <2>6. Apart'
    BY <2>1, <2>3 DEF Apart
  <2> QED
    BY <1>1, <2>2, <2>5, <2>6 DEF OwnInv
<1> QED
  BY <1>4, <1>5

LEMMA OwnRest ==
  ASSUME TypeInv, RealInv, OwnInv, NEW b \in Baskets,
         SubmitBasket(b) \/ LegRaises(b) \/ Finish(b)
  PROVE  OwnInv'
<1>1. /\ leg' = leg /\ manager' = manager /\ up' = up
      /\ b \in Procs /\ call \in [Procs -> CallType] /\ call[b] \in CallType
  BY ConstantsTyped, CallFields
     DEF SubmitBasket, LegRaises, Finish, memory, TypeInv, TypeOK
<1>2. faults'.crashes = faults.crashes /\ SameOrders
  BY <1>1, FaultTyped DEF SubmitBasket, LegRaises, Finish, TypeInv, SameOrders
<1>3. /\ \A p \in Procs \ {b} : call'[p] = call[p]
      /\ call'[b].pc \in {"save", "idle", "status"}
  <2>1. CASE SubmitBasket(b)
    BY <1>1, <2>1 DEF SubmitBasket, Idle
  <2>2. CASE LegRaises(b)
    BY <1>1, <2>2 DEF LegRaises, Idle
  <2>3. CASE Finish(b)
    BY <1>1, <2>3 DEF Finish, CallType
  <2> QED
    BY <2>1, <2>2, <2>3
<1> QED
  BY <1>1, <1>2, <1>3, OwnFrame, ConstantsTyped

LEMMA OwnCancel ==
  ASSUME TypeInv, RealInv, OwnInv, NEW c \in Cancellers, NEW b \in Baskets, NEW from \in Nat,
         up' = up, CancelFrom(c, b, from)
  PROVE  OwnInv'
<1>1. c \in Procs /\ c \notin Baskets /\ OrdersInv
  BY ConstantsTyped, BasketsAssumption, RealOrders
<1>2. \A p \in Procs \ {c} : call'[p] = call[p]
  BY <1>1, Zenon DEF CancelFrom, MarkCancelled, TypeInv, TypeOK
<1>3. SameOrders /\ faults'.crashes = faults.crashes
      /\ \A a \in Baskets, m \in Legs : leg'[a][m].order = leg[a][m].order
  <2>1. CASE \E n \in NextOrder(b, from) : CancelTrade(b, n) /\ MarkCancelled(c, b, n)
    <3>1. PICK n \in NextOrder(b, from) : CancelTrade(b, n) /\ MarkCancelled(c, b, n)
      BY <2>1
    <3>2. n \in Legs /\ n \in LegsOf(b)
      BY <1>1 DEF NextOrder, OrdersInv
    <3> DEFINE l == [leg[b][n] EXCEPT !.status = "cancelled"]
    <3>3. leg[b] \in [Legs -> LegType] /\ leg[b][n] \in LegType
      BY <3>2 DEF TypeInv, TypeOK
    <3>4. l.order = leg[b][n].order
      BY <3>3 DEF LegType
    <3>5. leg' = [leg EXCEPT ![b] = [leg[b] EXCEPT ![n] = l]]
      BY <3>1 DEF MarkCancelled
    <3> HIDE DEF l
    <3>6. \A a \in Baskets, m \in Legs : leg'[a][m].order = leg[a][m].order
      BY <3>2, <3>3, <3>4, <3>5 DEF TypeInv, TypeOK
    <3> QED
      BY <3>1, <3>2, <3>6, TradeTyped DEF TypeInv
  <2>2. CASE UNCHANGED <<leg, manager, row, up, venue, faults>>
    BY <2>2 DEF SameOrders
  <2> QED
    BY <2>1, <2>2 DEF CancelFrom
<1> QED
  BY <1>1, <1>2, <1>3, OwnFrame, ConstantsTyped

LEMMA OwnWrites ==
  ASSUME TypeInv, RealInv, OwnInv, NEW p \in Procs, Commits(p) \/ WriteFails(p)
  PROVE  OwnInv'
<1>1. /\ call[p].pc \in {"save", "leg", "status"} /\ call' = [call EXCEPT ![p] = AfterWrite(p)]
      /\ UNCHANGED <<leg, manager, up>>
  BY DEF Commits, WriteFails, memory
<1>2. faults'.crashes = faults.crashes /\ SameOrders
  BY <1>1, FaultTyped DEF Commits, WriteFails, TypeInv, SameOrders
<1>3. /\ \A a \in Procs \ {p} : call'[a] = call[a]
      /\ call'[p].pc \in {"idle", "walk"}
  BY <1>1, AfterWriteTyped, IdleTyped, Zenon DEF TypeInv, TypeOK
<1> QED
  BY <1>1, <1>2, <1>3, OwnFrame, ConstantsTyped

LEMMA OwnRestart ==
  ASSUME TypeInv, OwnInv, Crash \/ Restore \/ RestoreFails
  PROVE  OwnInv'
<1>1. faults.crashes \in Nat
  BY DEF TypeInv, TypeOK, FaultType
<1>2. CASE Crash
  <2>1. faults'.crashes = faults.crashes + 1
    BY <1>2 DEF Crash, TypeInv, TypeOK, FaultType
  <2> QED
    BY <1>1, <2>1 DEF OwnInv
<1>3. CASE Restore \/ RestoreFails
  <2>1. faults'.crashes = faults.crashes /\ faults.crashes > 0
    BY <1>3, FaultTyped DEF Restore, RestoreFails, OwnInv, TypeInv
  <2> QED
    BY <1>1, <2>1 DEF OwnInv
<1> QED
  BY <1>2, <1>3

-----------------------------------------------------------------------------
IInv == TypeInv /\ RealInv /\ AheadInv /\ OwnInv

LEMMA StepIInv == IInv /\ [Next]_vars => IInv'
<1> SUFFICES ASSUME IInv, [Next]_vars PROVE IInv'
  OBVIOUS
<1> USE DEF IInv
<1>1. ASSUME NEW b \in Baskets, SubmitBasket(b) PROVE IInv'
  BY <1>1, SubmitTyped, RealPlacing, AheadSubmit, OwnRest
<1>2. ASSUME NEW b \in Baskets, RejectLeg(b) \/ UnavailableLeg(b) PROVE IInv'
  BY <1>2, NoOrderTyped, RealLeg, AheadLeg, OwnOutcome
<1>3. ASSUME NEW b \in Baskets, PaperLeg(b) PROVE IInv'
  BY <1>3, PaperTyped, RealLeg, AheadLeg, OwnPaper
<1>4. ASSUME NEW b \in Baskets, LiveLegStarts(b) PROVE IInv'
  BY <1>4, LiveStartsTyped, RealPlacing, AheadLeg, OwnLiveStarts
<1>5. ASSUME NEW b \in Baskets, LegAccepted(b) PROVE IInv'
  BY <1>5, AcceptedTyped, RealPlacing, AheadLeg, OwnAccepted
<1>6. ASSUME NEW b \in Baskets, LegRaises(b) PROVE IInv'
  BY <1>6, RaisesTyped, RealPlacing, AheadLeg, OwnRest
<1>7. ASSUME NEW b \in Baskets, LegRecorded(b) PROVE IInv'
  BY <1>7, RecordedTyped, RealLeg, AheadLeg, OwnOutcome
<1>8. ASSUME NEW b \in Baskets, Finish(b) PROVE IInv'
  BY <1>8, FinishTyped, RealFinish, AheadFinish, OwnRest
<1>9. ASSUME NEW c \in Cancellers, NEW b \in Baskets, NEW from \in Nat, CancelFrom(c, b, from),
             past' \in [Baskets -> {"unborn", "alone", "overlapped"}], up' = up,
             \A a \in Baskets : past'[a] = "unborn" => past[a] = "unborn"
      PROVE  IInv'
  <2>1. OrdersInv /\ RealInv' /\ SamePlaced
    BY <1>9, RealOrders, RealCancel
  <2> QED
    BY <1>9, <2>1, CancelTyped, AheadCancel, OwnCancel
<1>10. ASSUME NEW c \in Cancellers, NEW b \in Baskets, CancelBasket(c, b) PROVE IInv'
  <2>1. /\ past' \in [Baskets -> {"unborn", "alone", "overlapped"}] /\ CancelFrom(c, b, 1)
        /\ \A a \in Baskets : past'[a] = "unborn" => past[a] = "unborn"
    BY <1>10 DEF CancelBasket, TypeInv, TypeOK
  <2>2. up' = up
    BY <2>1 DEF CancelFrom
  <2> QED
    BY <1>9, <2>1, <2>2
<1>11. ASSUME NEW c \in Cancellers, CancelContinues(c) PROVE IInv'
  <2>1. c \in Procs /\ call[c].pc = "walk"
    BY <1>11, ConstantsTyped DEF CancelContinues
  <2>2. call[c].basket \in Baskets /\ call[c].n \in Nat
    BY <2>1, CallFields DEF TypeInv, CallsInv
  <2>3. CancelFrom(c, call[c].basket, call[c].n) /\ past' = past
    BY <1>11 DEF CancelContinues
  <2>4. up' = up
    BY <2>3 DEF CancelFrom
  <2> QED
    BY <1>9, <2>2, <2>3, <2>4 DEF TypeInv, TypeOK
<1>12. ASSUME NEW p \in Procs, Commits(p) \/ WriteFails(p) PROVE IInv'
  BY <1>12, WritesTyped, RealWrites, AheadWrites, OwnWrites
<1>13. CASE Crash \/ Restore \/ RestoreFails
  BY <1>13, CrashTyped, RestoreTyped, RealRestart, AheadRestart, OwnRestart
<1>14. CASE UNCHANGED vars
  <2>1. /\ status' = status /\ leg' = leg /\ manager' = manager /\ row' = row /\ call' = call
        /\ up' = up /\ venue' = venue /\ past' = past /\ faults' = faults
    BY <1>14 DEF vars, memory
  <2>2. TypeInv' /\ RealInv'
    BY <2>1 DEF TypeInv, TypeOK, CallsInv, RealInv, LegsReal, RowsReal, TextsReal, CallsReal,
                Real, RealText, HasOrder
  <2> QED
    BY <2>1, <2>2, Zenon DEF AheadInv, AheadOf, Clear, OwnInv, OwnLegs, OwnCalls, Apart
<1> QED
  BY <1>1, <1>2, <1>3, <1>4, <1>5, <1>6, <1>7, <1>8, <1>10, <1>11, <1>12, <1>13, <1>14
     DEF Next, SubmitStep

LEMMA Invariance == Spec => []IInv
<1>1. Init => IInv
  BY TypeInit, RealInit, AheadInit, OwnInit DEF IInv
<1> QED
  BY <1>1, StepIInv, PTL DEF Spec

(* BasketExecutor keeps its types; in particular a leg's outcome is read   *)
(* from an order that its manager has.                                     *)
THEOREM TypeCorrect == Spec => []TypeOK
<1>1. IInv => TypeOK
  BY DEF IInv, TypeInv
<1> QED
  BY <1>1, Invariance, PTL

(* submit_basket and cancel_basket report nothing that was not executed,   *)
(* in memory or in the table, over crashes, faults and restarts.           *)
THEOREM NoFakeExecution == Spec => []ReportedIsReal
<1>1. IInv => ReportedIsReal
  BY DEF IInv, RealInv, LegsReal, RowsReal, TextsReal, Real, RealText, ReportedIsReal
<1> QED
  BY <1>1, Invariance, PTL

(* submit_basket places no leg twice. *)
THEOREM PlacedOnce == Spec => []LegPlacedOnce
<1>1. IInv => LegPlacedOnce
  BY DEF IInv, AheadInv, AheadOf, LegPlacedOnce
<1> QED
  BY <1>1, Invariance, PTL

(* OrderManager: until a crash, a leg's number names its own order,        *)
(* however the threads of several baskets share the counter.               *)
THEOREM OrdersAreOwn == Spec => []OrderIdsAreOwn
<1>1. IInv => OrderIdsAreOwn
  BY DEF IInv, OwnInv, OwnLegs, OrderIdsAreOwn
<1> QED
  BY <1>1, Invariance, PTL

-----------------------------------------------------------------------------
(***************************************************************************)
(* The effect of each kind of step, on the call that takes it and on the   *)
(* basket the call works on.                                               *)
(***************************************************************************)
Frame(p, b) ==
  /\ \A q \in Procs \ {p} : call'[q] = call[q]
  /\ \A a \in Baskets \ {b} : /\ status'[a] = status[a] /\ leg'[a] = leg[a]
                              /\ row'[a] = row[a] /\ past'[a] = past[a]

LEMMA Variables ==
  ASSUME TypeInv
  PROVE  /\ status \in [Baskets -> BasketText \cup {"absent"}]
         /\ leg \in [Baskets -> [Legs -> LegType]] /\ row \in [Baskets -> RowType]
         /\ call \in [Procs -> CallType] /\ manager \in [Venues -> Seq(ManagerType)]
         /\ past \in [Baskets -> {"unborn", "alone", "overlapped"}]
         /\ faults \in FaultType /\ up \in BOOLEAN
         /\ Baskets \subseteq Procs /\ Cancellers \subseteq Procs
  BY ConstantsTyped DEF TypeInv, TypeOK

LEMMA IdleFields == Idle.pc = "idle" /\ Idle.basket = None
  BY DEF Idle

LEMMA SubmitEffect ==
  ASSUME TypeInv, NEW b \in Baskets, SubmitBasket(b)
  PROVE  /\ Frame(b, b) /\ past[b] = "unborn" /\ past'[b] = "alone" /\ status'[b] = "submitting"
         /\ call'[b].pc = "save" /\ call'[b].basket = b /\ call'[b].n = 0
         /\ up /\ UNCHANGED <<leg, manager, row, up, venue, faults>>
<1>1. /\ call' = [call EXCEPT ![b] = [Idle EXCEPT !.pc = "save", !.basket = b]]
      /\ status' = [status EXCEPT ![b] = "submitting"] /\ past' = [past EXCEPT ![b] = "alone"]
      /\ up /\ past[b] = "unborn" /\ UNCHANGED <<leg, manager, row, up, venue, faults>>
  BY DEF SubmitBasket
<1> QED
  BY <1>1, Variables DEF Frame, Idle

LEMMA LegEffect ==
  ASSUME TypeInv, NEW b \in Baskets,
         RejectLeg(b) \/ UnavailableLeg(b) \/ PaperLeg(b) \/ LegRecorded(b)
  PROVE  /\ Frame(b, b) /\ call[b].n \in LegsOf(b) /\ call[b].n \in Legs /\ call[b].basket = b
         /\ UNCHANGED <<status, row, up, past, faults>>
         /\ call'[b].pc = "leg" /\ call'[b].basket = b /\ call'[b].n = call[b].n
         /\ call'[b].leg \in LegType /\ leg'[b][call[b].n] = call'[b].leg
         /\ \A m \in Legs \ {call[b].n} : leg'[b][m] = leg[b][m]
         /\ \/ /\ call[b].pc = "walk" /\ UNCHANGED <<manager, venue>>
               /\ call'[b].leg.order = 0 /\ call'[b].leg.status # "cancelled"
            \/ /\ call[b].pc = "walk" /\ venue' = Placed(b, call[b].n)
               /\ call'[b].leg.order # 0 /\ call'[b].leg.status = "submitted"
            \/ /\ call[b].pc = "placed" /\ UNCHANGED <<manager, venue>>
               /\ call'[b].leg.order = call[b].order /\ call[b].order # 0
               /\ call'[b].leg.status = manager[VenueOf[b][call[b].n]][call[b].order].status
<1>0. /\ call[b].pc \in {"walk", "placed"} /\ UNCHANGED <<status, row, up, past, faults>>
      /\ call[b].n \in LegsOf(b) /\ call[b].n \in Legs /\ call[b].basket = b
      /\ VenueOf[b][call[b].n] \in Venues
  BY LegsTyped, ConstantsTyped
     DEF RejectLeg, UnavailableLeg, PaperLeg, LegRecorded, AtLeg, TypeInv, CallsInv
<1>1. ASSUME NEW l \in LegType, Outcome(b, l)
      PROVE  /\ Frame(b, b)
             /\ call'[b].pc = "leg" /\ call'[b].basket = b /\ call'[b].n = call[b].n
             /\ call'[b].leg = l /\ leg'[b][call[b].n] = l
             /\ \A m \in Legs \ {call[b].n} : leg'[b][m] = leg[b][m]
  <2>1. \A a \in Baskets \ {b} : leg'[a] = leg[a]
    BY <1>1, Variables DEF Outcome
  <2> QED
    BY <1>0, <1>1, <2>1, OutcomeTyped DEF TypeInv, Frame
<1>2. CASE RejectLeg(b) \/ UnavailableLeg(b)
  <2>1. PICK l \in LegType : Outcome(b, l) /\ l.order = 0 /\ l.status # "cancelled"
    BY <1>2 DEF RejectLeg, UnavailableLeg, LegType
  <2>2. call[b].pc = "walk" /\ UNCHANGED <<manager, venue>>
    BY <1>2 DEF RejectLeg, UnavailableLeg, AtLeg
  <2> QED
    BY <1>0, <1>1, <2>1, <2>2
<1>3. CASE PaperLeg(b)
  <2> DEFINE v == VenueOf[b][call[b].n]
             l == [status |-> "submitted", order |-> Len(manager[v]) + 1]
  <2>1. Len(manager[v]) \in Nat
    BY <1>0, Variables
  <2>2. l \in LegType /\ l.order # 0 /\ l.status = "submitted"
    BY <2>1 DEF LegType
  <2>3. call[b].pc = "walk" /\ venue' = Placed(b, call[b].n) /\ Outcome(b, l)
    BY <1>3 DEF PaperLeg, AtLeg
  <2> HIDE DEF l
  <2> QED
    BY <1>0, <1>1, <2>2, <2>3
<1>4. CASE LegRecorded(b)
  <2> DEFINE v == VenueOf[b][call[b].n]
             l == [status |-> manager[v][call[b].order].status, order |-> call[b].order]
  <2>1. call[b].pc = "placed" /\ UNCHANGED <<manager, venue>> /\ Outcome(b, l)
    BY <1>4 DEF LegRecorded, OrderId
  <2>2. call[b].order \in DOMAIN manager[v] /\ manager[v] \in Seq(ManagerType)
    BY <1>0, <2>1, Variables DEF TypeInv, CallsInv
  <2>3. manager[v][call[b].order] \in ManagerType /\ call[b].order \in Nat /\ call[b].order # 0
    BY <2>2
  <2>4. /\ l \in LegType /\ l.order = call[b].order
        /\ l.status = manager[v][call[b].order].status
    BY <2>3 DEF ManagerType, LegType
  <2> HIDE DEF l
  <2> QED
    BY <1>0, <1>1, <2>1, <2>3, <2>4
<1> QED
  BY <1>2, <1>3, <1>4

LEMMA PlacingEffect ==
  ASSUME TypeInv, NEW b \in Baskets, LiveLegStarts(b) \/ LegAccepted(b) \/ LegRaises(b)
  PROVE  /\ Frame(b, b) /\ call[b].n \in Legs /\ call[b].n \in LegsOf(b) /\ call[b].basket = b
         /\ UNCHANGED <<status, leg, row, up, past>>
         /\ \/ /\ call[b].pc = "walk" /\ call'[b].pc = "placing" /\ call'[b].basket = b
               /\ call'[b].n = call[b].n /\ venue' = venue /\ faults' = faults
            \/ /\ call[b].pc = "placing" /\ call'[b].pc = "placed" /\ call'[b].basket = b
               /\ call'[b].n = call[b].n /\ venue' = Placed(b, call[b].n) /\ faults' = faults
            \/ /\ call[b].pc = "placing" /\ call'[b] = Idle /\ Fault("raised")
               /\ venue' \in {venue, Placed(b, call[b].n)}
<1>0. /\ call[b].pc \in {"walk", "placing"} /\ UNCHANGED <<status, leg, row, up, past>>
      /\ call[b].n \in LegsOf(b) /\ call[b].n \in Legs /\ call[b].basket = b
      /\ call[b] \in CallType
  BY LegsTyped, ConstantsTyped, Variables
     DEF LiveLegStarts, LegAccepted, LegRaises, AtLeg, TypeInv, CallsInv, memory
<1>1. ASSUME NEW q, call' = [call EXCEPT ![b] = q]
      PROVE  Frame(b, b) /\ call'[b] = q
  BY <1>0, <1>1, Variables DEF Frame
<1>2. CASE LiveLegStarts(b)
  <2> DEFINE q == [call[b] EXCEPT !.pc = "placing",
                                  !.order = Len(manager[VenueOf[b][call[b].n]]) + 1]
  <2>1. call' = [call EXCEPT ![b] = q] /\ call[b].pc = "walk" /\ venue' = venue
        /\ faults' = faults
    BY <1>2 DEF LiveLegStarts, AtLeg
  <2>2. q.pc = "placing" /\ q.n = call[b].n /\ q.basket = b
    BY <1>0 DEF CallType
  <2> HIDE DEF q
  <2> QED
    BY <1>0, <1>1, <2>1, <2>2
<1>3. CASE LegAccepted(b)
  <2> DEFINE q == [call[b] EXCEPT !.pc = "placed"]
  <2>1. call' = [call EXCEPT ![b] = q] /\ call[b].pc = "placing"
        /\ venue' = Placed(b, call[b].n) /\ faults' = faults
    BY <1>3 DEF LegAccepted
  <2>2. q.pc = "placed" /\ q.n = call[b].n /\ q.basket = b
    BY <1>0 DEF CallType
  <2> HIDE DEF q
  <2> QED
    BY <1>0, <1>1, <2>1, <2>2
<1>4. CASE LegRaises(b)
  <2>1. call' = [call EXCEPT ![b] = Idle] /\ call[b].pc = "placing" /\ Fault("raised")
        /\ venue' \in {venue, Placed(b, call[b].n)}
    BY <1>4 DEF LegRaises
  <2> QED
    BY <1>0, <1>1, <2>1
<1> QED
  BY <1>2, <1>3, <1>4

LEMMA FinishEffect ==
  ASSUME TypeInv, NEW b \in Baskets, Finish(b)
  PROVE  /\ Frame(b, b) /\ call[b].pc = "walk" /\ call[b].basket = b
         /\ call'[b].pc = "status" /\ call'[b].basket = b /\ call'[b].text = Derive(b)
         /\ status'[b] = Derive(b)
         /\ UNCHANGED <<leg, manager, row, up, venue, past, faults>>
<1>1. call[b] \in CallType /\ call[b].pc = "walk" /\ call[b].basket = b
  BY Variables DEF Finish, TypeInv, CallsInv
<1>2. /\ call' = [call EXCEPT ![b] = [call[b] EXCEPT !.pc = "status", !.text = Derive(b)]]
      /\ status' = [status EXCEPT ![b] = Derive(b)]
      /\ UNCHANGED <<leg, manager, row, up, venue, past, faults>>
  BY DEF Finish
<1> QED
  BY <1>1, <1>2, Variables DEF Frame, CallType

(* A step of cancel_basket: it marks the next leg that has an order, or    *)
(* the basket.                                                             *)
CancelsLeg(c, b, from, n) ==
  /\ n \in NextOrder(b, from) /\ n \in Legs /\ n \in LegsOf(b) /\ leg[b][n].order # 0
  /\ CancelTrade(b, n)
  /\ call'[c].pc = "leg" /\ call'[c].basket = b /\ call'[c].n = n
  /\ leg'[b][n] = call'[c].leg
  /\ call'[c].leg.order = leg[b][n].order /\ call'[c].leg.status = "cancelled"
  /\ \A m \in Legs \ {n} : leg'[b][m] = leg[b][m]
  /\ status' = status

CancelsBasket(c, b, from) ==
  /\ NextOrder(b, from) = {}
  /\ call'[c].pc = "status" /\ call'[c].basket = b /\ call'[c].text = "cancelled"
  /\ status'[b] = "cancelled"
  /\ UNCHANGED <<leg, manager, venue, faults>>

LEMMA CancelEffect ==
  ASSUME TypeInv, OrdersInv, NEW c \in Cancellers, NEW b \in Baskets, NEW from \in Nat,
         CancelFrom(c, b, from), \A a \in Baskets \ {b} : past'[a] = past[a]
  PROVE  /\ Frame(c, b) /\ UNCHANGED <<row, up>>
         /\ (\E n \in Legs : CancelsLeg(c, b, from, n)) \/ CancelsBasket(c, b, from)
<1>1. CASE \E n \in NextOrder(b, from) : CancelTrade(b, n) /\ MarkCancelled(c, b, n)
  <2>1. PICK n \in NextOrder(b, from) : CancelTrade(b, n) /\ MarkCancelled(c, b, n)
    BY <1>1
  <2> DEFINE l == [leg[b][n] EXCEPT !.status = "cancelled"]
             q == [Idle EXCEPT !.pc = "leg", !.basket = b, !.n = n, !.leg = l]
  <2>2. n \in Legs /\ n \in LegsOf(b) /\ leg[b][n].order # 0
    BY DEF NextOrder, OrdersInv
  <2>3. leg[b] \in [Legs -> LegType] /\ leg[b][n] \in LegType
    BY <2>2, Variables
  <2>4. l.order = leg[b][n].order /\ l.status = "cancelled"
    BY <2>3 DEF LegType
  <2>5. leg' = [leg EXCEPT ![b] = [leg[b] EXCEPT ![n] = l]] /\ call' = [call EXCEPT ![c] = q]
    BY <2>1 DEF MarkCancelled
  <2> HIDE DEF l
  <2>6. q.pc = "leg" /\ q.basket = b /\ q.n = n /\ q.leg = l
    BY DEF Idle
  <2> HIDE DEF q
  <2>7. UNCHANGED <<status, row, up>>
    BY <2>1, <1>1 DEF CancelFrom, NextOrder
  <2>8. /\ leg'[b] = [leg[b] EXCEPT ![n] = l] /\ \A a \in Baskets \ {b} : leg'[a] = leg[a]
        /\ call'[c] = q /\ \A r \in Procs \ {c} : call'[r] = call[r]
    BY <2>5, Variables
  <2>9. leg'[b][n] = l /\ \A m \in Legs \ {n} : leg'[b][m] = leg[b][m]
    BY <2>2, <2>3, <2>8
  <2>10. CancelsLeg(c, b, from, n)
    BY <2>1, <2>2, <2>4, <2>6, <2>7, <2>8, <2>9 DEF CancelsLeg
  <2> QED
    BY <2>2, <2>7, <2>8, <2>10 DEF Frame
<1>2. CASE /\ NextOrder(b, from) = {}
           /\ status' = [status EXCEPT ![b] = "cancelled"]
           /\ call' = [call EXCEPT ![c] =
                [Idle EXCEPT !.pc = "status", !.basket = b, !.text = "cancelled"]]
           /\ UNCHANGED <<leg, manager, row, up, venue, faults>>
  BY <1>2, Variables DEF Frame, CancelsBasket, Idle
<1> QED
  BY <1>1, <1>2 DEF CancelFrom

(* The end of a write, and what it wrote. *)
LEMMA WriteEffect ==
  ASSUME TypeInv, NEW p \in Procs, Commits(p) \/ WriteFails(p)
  PROVE  /\ call[p].pc \in {"save", "leg", "status"} /\ call[p].basket \in Baskets
         /\ Frame(p, call[p].basket) /\ UNCHANGED <<memory, up, venue, past>>
         /\ call[p].pc = "status" => call'[p] = Idle
         /\ call[p].pc # "status" => /\ call'[p].pc = "walk" /\ call'[p].basket = call[p].basket
                                     /\ call'[p].n = call[p].n + 1
<1> DEFINE b == call[p].basket
<1>1. /\ call[p].pc \in {"save", "leg", "status"} /\ b \in Baskets
      /\ UNCHANGED <<memory, up, venue, past>>
      /\ call' = [call EXCEPT ![p] = AfterWrite(p)]
  BY DEF Commits, WriteFails, TypeInv, CallsInv
<1>2. call'[p] = AfterWrite(p) /\ \A q \in Procs \ {p} : call'[q] = call[q]
  BY <1>1, Variables
<1>3. \A a \in Baskets \ {b} : row'[a] = row[a]
  BY WrittenTyped DEF WriteFails
<1> HIDE DEF b
<1>4. Frame(p, b)
  BY <1>1, <1>2, <1>3 DEF Frame, memory
<1> QED
  BY <1>1, <1>2, <1>4, AfterWriteTyped DEF b

LEMMA SaveWrites ==
  ASSUME TypeInv, NEW p \in Procs, Commits(p), call[p].pc = "save"
  PROVE  row'[call[p].basket].status = "submitting" /\ row'[call[p].basket].legs = FreshLegs
<1>1. row' = [row EXCEPT ![call[p].basket] = [status |-> "submitting", legs |-> FreshLegs]]
  BY DEF Commits, Written
<1> QED
  BY <1>1, WriteEffect, Variables

LEMMA LegWrites ==
  ASSUME TypeInv, NEW p \in Procs, Commits(p), call[p].pc = "leg"
  PROVE  LET b == call[p].basket IN
         /\ row'[b].status = row[b].status
         /\ row[b] # NoRow =>
              /\ row'[b].legs[call[p].n] = call[p].leg
              /\ \A m \in Legs \ {call[p].n} : row'[b].legs[m] = row[b].legs[m]
         /\ row[b] = NoRow => row'[b] = row[b]
<1> DEFINE b == call[p].basket
           f == [row[b].legs EXCEPT ![call[p].n] = call[p].leg]
<1>1. row' = IF row[b] = NoRow THEN row ELSE [row EXCEPT ![b] = [row[b] EXCEPT !.legs = f]]
  BY DEF Commits, Written
<1>2. b \in Baskets /\ call[p].n \in Legs /\ row[b] \in RowType
  BY WriteEffect, Variables DEF TypeInv, CallsInv
<1>3. f[call[p].n] = call[p].leg /\ \A m \in Legs \ {call[p].n} : f[m] = row[b].legs[m]
  BY <1>2 DEF RowType
<1> HIDE DEF f, b
<1> QED
  BY <1>1, <1>2, <1>3, Variables DEF b, RowType

LEMMA StatusWrites ==
  ASSUME TypeInv, NEW p \in Procs, Commits(p), call[p].pc = "status"
  PROVE  LET b == call[p].basket IN
         /\ row'[b].legs = row[b].legs
         /\ row[b] # NoRow => row'[b].status = call[p].text
         /\ row[b] = NoRow => row'[b] = row[b]
<1> DEFINE b == call[p].basket
<1>1. row' = IF row[b] = NoRow THEN row
             ELSE [row EXCEPT ![b] = [row[b] EXCEPT !.status = call[p].text]]
  BY DEF Commits, Written
<1>2. b \in Baskets /\ row[b] \in RowType
  BY WriteEffect, Variables
<1> HIDE DEF b
<1> QED
  BY <1>1, <1>2, Variables DEF b, RowType

LEMMA FaultsCount ==
  ASSUME TypeInv, NEW kind \in {"reads", "writes", "raised", "refused"}, Fault(kind)
  PROVE  /\ faults'[kind] # 0
         /\ \A k \in {"reads", "writes", "raised", "refused", "crashes"} :
              k # kind => faults'[k] = faults[k]
<1>1. faults \in FaultType /\ faults' = [faults EXCEPT ![kind] = @ + 1]
  BY Variables DEF Fault
<1>2. CASE kind = "reads"   BY <1>1, <1>2 DEF FaultType
<1>3. CASE kind = "writes"  BY <1>1, <1>3 DEF FaultType
<1>4. CASE kind = "raised"  BY <1>1, <1>4 DEF FaultType
<1>5. CASE kind = "refused" BY <1>1, <1>5 DEF FaultType
<1> QED
  BY <1>2, <1>3, <1>4, <1>5

-----------------------------------------------------------------------------
(***************************************************************************)
(* Who works on a basket.  Before submit_basket there is nothing of a      *)
(* basket and nobody works on it; until two calls overlap there is at most *)
(* one that does; and no call outlives the process.                        *)
(***************************************************************************)
Works(p, b) == call[p].basket = b

CallsKnown ==
  \A p \in Procs :
    /\ call[p].pc = "idle" => call[p].basket = None
    /\ call[p].pc # "idle" => past[call[p].basket] # "unborn"
Unborn ==
  \A b \in Baskets : past[b] = "unborn" =>
    status[b] = "absent" /\ leg[b] = FreshLegs /\ row[b] = NoRow
Down == ~up => \A p \in Procs : call[p].pc = "idle"
Alone ==
  \A b \in Baskets : past[b] = "alone" =>
    \A p, q \in Procs : Works(p, b) /\ Works(q, b) => p = q
BornInv == CallsKnown /\ Unborn /\ Down /\ Alone

LEMMA NoneWorks ==
  ASSUME TypeInv, CallsKnown, NEW p \in Procs, NEW b \in Baskets
  PROVE  /\ Works(p, b) => call[p].pc # "idle"
         /\ call[p].pc # "idle" /\ p \in Baskets => (Works(p, b) <=> p = b)
         /\ call[p].pc = "idle" => ~Works(p, b)
         /\ Works(p, b) => past[b] # "unborn"
  BY BasketsAssumption DEF Works, CallsKnown, TypeInv, CallsInv

(* A step of a call of one basket. *)
LEMMA BornStep ==
  ASSUME TypeInv, TypeInv', BornInv, NEW p \in Procs, NEW b \in Baskets, Frame(p, b),
         up, up' = up, past'[b] # "unborn",
         call[p].pc = "idle" \/ call[p].basket = b,
         call'[p].pc = "idle" => call'[p].basket = None,
         call'[p].pc # "idle" => call'[p].basket = b,
         past'[b] = "alone" => \A q \in Procs : Works(q, b) => q = p
  PROVE  BornInv'
<1>1. CallsKnown'
  <2> SUFFICES ASSUME NEW q \in Procs
               PROVE  /\ call'[q].pc = "idle" => call'[q].basket = None
                      /\ call'[q].pc # "idle" => past'[call'[q].basket] # "unborn"
    BY DEF CallsKnown
  <2>1. CASE q = p
    BY <2>1
  <2>2. CASE q # p
    <3>1. call'[q] = call[q] /\ (call[q].pc # "idle" => call[q].basket \in Baskets)
      BY <2>2 DEF Frame, TypeInv, CallsInv
    <3> QED
      BY <3>1 DEF Frame, BornInv, CallsKnown
  <2> QED
    BY <2>1, <2>2
<1>2. Unborn'
  BY DEF Frame, BornInv, Unborn
<1>3. Alone'
  <2> SUFFICES ASSUME NEW a \in Baskets, past'[a] = "alone", NEW q \in Procs, NEW r \in Procs,
                      call'[q].basket = a, call'[r].basket = a
               PROVE  q = r
    BY DEF Alone, Works
  <2>1. CASE a = b
    BY <2>1 DEF Frame, Works
  <2>2. CASE a # b
    <3>1. q # p /\ r # p
      BY <2>2, BasketsAssumption
    <3> QED
      BY <2>2, <3>1 DEF Frame, BornInv, Alone, Works
  <2> QED
    BY <2>1, <2>2
<1> QED
  BY <1>1, <1>2, <1>3 DEF BornInv, Down

LEMMA AloneWorks ==
  ASSUME TypeInv, BornInv, NEW p \in Procs, NEW b \in Baskets, Works(p, b)
  PROVE  past[b] = "alone" => \A q \in Procs : Works(q, b) => q = p
  BY DEF BornInv, Alone

(* A step of cancel_basket, its first one or a later one. *)
Cancels(c, b, from) ==
  /\ Frame(c, b) /\ up /\ UNCHANGED <<row, up>>
  /\ (\E n \in Legs : CancelsLeg(c, b, from, n)) \/ CancelsBasket(c, b, from)
  /\ past[b] # "unborn" /\ past'[b] # "unborn"
  /\ past'[b] = "alone" => past[b] = "alone" /\ \A q \in Procs : Works(q, b) => q = c
  /\ \/ call[c].pc = "idle" /\ from = 1 /\ status[b] # "absent"
     \/ call[c].pc = "walk" /\ from = call[c].n /\ call[c].basket = b

LEMMA CancelCases ==
  ASSUME IInv, BornInv, NEW c \in Cancellers, NEW b \in Baskets,
         CancelBasket(c, b) \/ (CancelContinues(c) /\ call[c].basket = b)
  PROVE  \E from \in Nat : Cancels(c, b, from)
<1> USE DEF IInv
<1>0. OrdersInv /\ c \in Procs /\ TypeInv
  BY RealOrders, Variables
<1>1. CASE CancelBasket(c, b)
  <2>1. /\ up /\ call[c].pc = "idle" /\ status[b] # "absent" /\ CancelFrom(c, b, 1)
        /\ past' = [past EXCEPT ![b] = IF InFlight(b) = {} THEN @ ELSE "overlapped"]
    BY <1>1 DEF CancelBasket
  <2>2. /\ \A a \in Baskets \ {b} : past'[a] = past[a]
        /\ past'[b] = IF InFlight(b) = {} THEN past[b] ELSE "overlapped"
    BY <2>1, Variables
  <2>3. past[b] # "unborn"
    BY <2>1 DEF BornInv, Unborn
  <2>4. past'[b] = "alone" => \A q \in Procs : ~Works(q, b)
    BY <2>2 DEF InFlight, Works
  <2>5. past'[b] = "alone" => past[b] = "alone"
    BY <2>2
  <2>6. past'[b] # "unborn"
    BY <2>2, <2>3
  <2>7. /\ Frame(c, b) /\ UNCHANGED <<row, up>>
        /\ (\E n \in Legs : CancelsLeg(c, b, 1, n)) \/ CancelsBasket(c, b, 1)
    BY <1>0, <2>1, <2>2, CancelEffect
  <2> QED
    BY <2>1, <2>3, <2>4, <2>5, <2>6, <2>7 DEF Cancels
<1>2. CASE CancelContinues(c) /\ call[c].basket = b
  <2>1. call[c].pc = "walk" /\ call[c].n \in Nat /\ CancelFrom(c, b, call[c].n) /\ past' = past
    BY <1>0, <1>2, CallFields DEF CancelContinues, TypeInv
  <2>2. past[b] # "unborn" /\ up
    BY <1>0, <1>2, <2>1 DEF BornInv, CallsKnown, Down
  <2>3. past[b] = "alone" => \A q \in Procs : Works(q, b) => q = c
    BY <1>0, <1>2, AloneWorks DEF Works
  <2>4. /\ Frame(c, b) /\ UNCHANGED <<row, up>>
        /\ (\E n \in Legs : CancelsLeg(c, b, call[c].n, n)) \/ CancelsBasket(c, b, call[c].n)
    BY <1>0, <2>1, CancelEffect
  <2> QED
    BY <1>2, <2>1, <2>2, <2>3, <2>4 DEF Cancels
<1> QED
  BY <1>1, <1>2

LEMMA CancelMoves ==
  ASSUME NEW c, NEW b, NEW from, Cancels(c, b, from)
  PROVE  call'[c].pc \in {"leg", "status"} /\ call'[c].basket = b
  BY DEF Cancels, CancelsLeg, CancelsBasket

(* Every step is of one of these kinds. *)
LegStep(b)     == RejectLeg(b) \/ UnavailableLeg(b) \/ PaperLeg(b) \/ LegRecorded(b)
PlacingStep(b) == LiveLegStarts(b) \/ LegAccepted(b) \/ LegRaises(b)
WriteStep(p)   == Commits(p) \/ WriteFails(p)

LEMMA Kinds ==
  ASSUME IInv, BornInv, [Next]_vars
  PROVE  \/ \E b \in Baskets : SubmitBasket(b) \/ LegStep(b) \/ PlacingStep(b) \/ Finish(b)
         \/ \E c \in Cancellers, b \in Baskets : \E from \in Nat : Cancels(c, b, from)
         \/ \E p \in Procs : WriteStep(p)
         \/ Crash \/ Restore \/ RestoreFails \/ UNCHANGED vars
<1>1. ASSUME NEW c \in Cancellers, CancelContinues(c)
      PROVE  \E b \in Baskets : \E from \in Nat : Cancels(c, b, from)
  <2>1. call[c].basket \in Baskets
    BY <1>1, Variables DEF CancelContinues, IInv, TypeInv, CallsInv
  <2> QED
    BY <1>1, <2>1, CancelCases
<1> QED
  BY <1>1, CancelCases DEF Next, SubmitStep, LegStep, PlacingStep, WriteStep

LEMMA BornInit == Init => BornInv
<1> SUFFICES ASSUME Init PROVE BornInv
  OBVIOUS
<1>1. \A p \in Procs : call[p].pc = "idle" /\ call[p].basket = None
  BY IdleFields DEF Init
<1> QED
  BY <1>1, BasketsAssumption
     DEF Init, BornInv, CallsKnown, Unborn, Down, Alone, Works

LEMMA BornNext == ASSUME IInv, IInv', BornInv, [Next]_vars PROVE BornInv'
<1>0. TypeInv /\ TypeInv' /\ Baskets \subseteq Procs /\ Cancellers \subseteq Procs
  BY Variables DEF IInv
<1>1. ASSUME NEW b \in Baskets, SubmitBasket(b) PROVE BornInv'
  <2>1. past[b] = "unborn" /\ up /\ \A q \in Procs : ~Works(q, b)
    BY <1>0, <1>1, SubmitEffect, NoneWorks DEF BornInv
  <2>2. call[b].pc = "idle"
    BY <1>0, <2>1 DEF Works, TypeInv, CallsInv
  <2> QED
    BY <1>0, <1>1, <2>1, <2>2, SubmitEffect, BornStep
<1>2. ASSUME NEW b \in Baskets, NEW p \in Procs, Works(p, b), Frame(p, b), call[p].pc # "idle",
             UNCHANGED <<past, up>>,
             call'[p] = Idle \/ (call'[p].pc # "idle" /\ call'[p].basket = b)
      PROVE  BornInv'
  <2>1. past[b] # "unborn" /\ up
    BY <1>0, <1>2, NoneWorks DEF BornInv, Down
  <2>2. past[b] = "alone" => \A q \in Procs : Works(q, b) => q = p
    BY <1>0, <1>2, AloneWorks
  <2> QED
    BY <1>0, <1>2, <2>1, <2>2, IdleFields, BornStep DEF Works
<1>3. ASSUME NEW b \in Baskets, LegStep(b) PROVE BornInv'
  <2>1. Works(b, b) /\ Frame(b, b) /\ call[b].pc # "idle" /\ UNCHANGED <<past, up>>
        /\ call'[b].pc # "idle" /\ call'[b].basket = b
    BY <1>0, <1>3, LegEffect DEF LegStep, Works
  <2> QED
    BY <1>0, <1>2, <2>1
<1>4. ASSUME NEW b \in Baskets, PlacingStep(b) PROVE BornInv'
  <2>1. Works(b, b) /\ Frame(b, b) /\ call[b].pc # "idle" /\ UNCHANGED <<past, up>>
        /\ (call'[b] = Idle \/ (call'[b].pc # "idle" /\ call'[b].basket = b))
    BY <1>0, <1>4, PlacingEffect DEF PlacingStep, Works
  <2> QED
    BY <1>0, <1>2, <2>1
<1>5. ASSUME NEW b \in Baskets, Finish(b) PROVE BornInv'
  <2>1. Works(b, b) /\ Frame(b, b) /\ call[b].pc # "idle" /\ UNCHANGED <<past, up>>
        /\ call'[b].pc # "idle" /\ call'[b].basket = b
    BY <1>0, <1>5, FinishEffect DEF Works
  <2> QED
    BY <1>0, <1>2, <2>1
<1>6. ASSUME NEW c \in Cancellers, NEW b \in Baskets, NEW from \in Nat, Cancels(c, b, from)
      PROVE  BornInv'
  <2>1. call'[c].pc \in {"leg", "status"} /\ call'[c].basket = b
    BY <1>6, CancelMoves
  <2>2. /\ Frame(c, b) /\ up /\ up' = up /\ past'[b] # "unborn"
        /\ past'[b] = "alone" => \A q \in Procs : Works(q, b) => q = c
        /\ call[c].pc = "idle" \/ call[c].basket = b
    BY <1>6 DEF Cancels
  <2> QED
    BY <1>0, <2>1, <2>2, BornStep
<1>7. ASSUME NEW p \in Procs, WriteStep(p) PROVE BornInv'
  <2>1. /\ call[p].basket \in Baskets /\ Frame(p, call[p].basket) /\ call[p].pc # "idle"
        /\ UNCHANGED <<past, up>>
        /\ call'[p] = Idle \/ (call'[p].pc # "idle" /\ call'[p].basket = call[p].basket)
    BY <1>0, <1>7, WriteEffect DEF WriteStep
  <2> QED
    BY <1>2, <2>1 DEF Works
<1>8. CASE Crash
  <2>1. \A p \in Procs : call'[p].pc = "idle" /\ call'[p].basket = None
    BY <1>8, IdleFields DEF Crash
  <2> QED
    BY <1>8, <2>1, BasketsAssumption
       DEF Crash, BornInv, CallsKnown, Unborn, Down, Alone, Works
<1>9. CASE Restore
  BY <1>9 DEF Restore, BornInv, CallsKnown, Unborn, Down, Alone, Works, NoRow
<1>10. CASE RestoreFails
  BY <1>10 DEF RestoreFails, memory, BornInv, CallsKnown, Unborn, Down, Alone, Works
<1>11. CASE UNCHANGED vars
  BY <1>11 DEF vars, memory, BornInv, CallsKnown, Unborn, Down, Alone, Works
<1> QED
  BY <1>1, <1>3, <1>4, <1>5, <1>6, <1>7, <1>8, <1>9, <1>10, <1>11, Kinds

-----------------------------------------------------------------------------
(***************************************************************************)
(* The legs ahead of submit_basket are as they were made.                  *)
(***************************************************************************)
FreshFrom(b, n) == \A m \in Legs : m >= n => leg[b][m] = Fresh
FreshOf(b) ==
  /\ call[b].pc \in {"save", "walk", "placing", "placed"} => FreshFrom(b, call[b].n)
  /\ call[b].pc = "leg" => FreshFrom(b, call[b].n + 1)
FreshInv == \A b \in Baskets : FreshOf(b)

LEMMA FreshFrame ==
  ASSUME TypeInv, FreshInv, NEW p \in Procs, NEW b \in Baskets, Frame(p, b),
         NEW a \in Baskets, a # b, a # p
  PROVE  FreshOf(a)'
  BY Variables DEF Frame, FreshInv, FreshOf, FreshFrom

LEMMA LegsAreNumbers == \A n \in Legs : n \in Nat /\ n >= 1
  BY VenuesAssumption DEF Legs

LEMMA FreshNext == ASSUME IInv, BornInv, FreshInv, [Next]_vars PROVE FreshInv'
<1>0. TypeInv /\ Baskets \subseteq Procs /\ Cancellers \subseteq Procs
      /\ \A p \in Procs : call[p].n \in Nat
  BY Variables, CallFields DEF IInv, TypeInv
<1>1. ASSUME NEW b \in Baskets, SubmitBasket(b) PROVE FreshInv'
  <2>1. leg'[b] = FreshLegs /\ call'[b].pc = "save" /\ Frame(b, b)
    BY <1>0, <1>1, SubmitEffect DEF BornInv, Unborn
  <2>2. FreshOf(b)'
    BY <2>1 DEF FreshOf, FreshFrom, FreshLegs
  <2> QED
    BY <1>0, <2>1, <2>2, FreshFrame DEF FreshInv
<1>2. ASSUME NEW b \in Baskets, LegStep(b) PROVE FreshInv'
  <2>1. /\ Frame(b, b) /\ call[b].pc \in {"walk", "placed"} /\ call[b].n \in Legs
        /\ call'[b].pc = "leg" /\ call'[b].n = call[b].n
        /\ \A m \in Legs \ {call[b].n} : leg'[b][m] = leg[b][m]
    BY <1>0, <1>2, LegEffect DEF LegStep
  <2>2. FreshOf(b)'
    BY <1>0, <2>1, LegsAreNumbers DEF FreshInv, FreshOf, FreshFrom
  <2> QED
    BY <1>0, <2>1, <2>2, FreshFrame DEF FreshInv
<1>3. ASSUME NEW b \in Baskets, PlacingStep(b) PROVE FreshInv'
  <2>1. /\ Frame(b, b) /\ call[b].pc \in {"walk", "placing"} /\ leg' = leg
        /\ \/ call'[b].pc \in {"placing", "placed"} /\ call'[b].n = call[b].n
           \/ call'[b].pc = "idle"
    BY <1>0, <1>3, PlacingEffect, IdleFields DEF PlacingStep
  <2>2. FreshOf(b)'
    BY <2>1 DEF FreshInv, FreshOf, FreshFrom
  <2> QED
    BY <1>0, <2>1, <2>2, FreshFrame DEF FreshInv
<1>4. ASSUME NEW b \in Baskets, Finish(b) PROVE FreshInv'
  <2>1. Frame(b, b) /\ call'[b].pc = "status"
    BY <1>0, <1>4, FinishEffect
  <2>2. FreshOf(b)'
    BY <2>1 DEF FreshOf
  <2> QED
    BY <1>0, <2>1, <2>2, FreshFrame DEF FreshInv
<1>5. ASSUME NEW c \in Cancellers, NEW b \in Baskets, NEW from \in Nat, Cancels(c, b, from)
      PROVE  FreshInv'
  <2>1. c \notin Baskets /\ Frame(c, b) /\ call'[b] = call[b]
    BY <1>0, <1>5, BasketsAssumption DEF Cancels, Frame
  <2>2. \A m \in Legs : leg[b][m] = Fresh => leg'[b][m] = Fresh
    BY <1>5 DEF Cancels, CancelsLeg, CancelsBasket, Fresh
  <2>3. FreshOf(b)'
    BY <2>1, <2>2 DEF FreshInv, FreshOf, FreshFrom
  <2> QED
    BY <1>0, <2>1, <2>3, FreshFrame DEF FreshInv
<1>6. ASSUME NEW p \in Procs, WriteStep(p) PROVE FreshInv'
  <2>1. /\ Frame(p, call[p].basket) /\ leg' = leg /\ call[p].pc \in {"save", "leg", "status"}
        /\ \/ call'[p].pc = "idle" /\ call[p].pc = "status"
           \/ call'[p].pc = "walk" /\ call'[p].n = call[p].n + 1 /\ call[p].pc # "status"
    BY <1>0, <1>6, WriteEffect, IdleFields DEF WriteStep, memory
  <2>2. ASSUME NEW b \in Baskets PROVE FreshOf(b)'
    <3>1. CASE b = p
      BY <1>0, <2>1, <3>1, LegsAreNumbers DEF FreshInv, FreshOf, FreshFrom
    <3>2. CASE b # p
      BY <1>0, <2>1, <3>2 DEF Frame, FreshInv, FreshOf, FreshFrom
    <3> QED
      BY <3>1, <3>2
  <2> QED
    BY <2>2 DEF FreshInv
<1>7. CASE Crash
  <2>1. \A b \in Baskets : call'[b].pc = "idle"
    BY <1>0, <1>7, IdleFields DEF Crash
  <2> QED
    BY <2>1 DEF FreshInv, FreshOf
<1>8. CASE Restore \/ RestoreFails
  <2>1. \A b \in Baskets : call'[b].pc = "idle"
    BY <1>0, <1>8 DEF Restore, RestoreFails, BornInv, Down
  <2> QED
    BY <2>1 DEF FreshInv, FreshOf
<1>9. CASE UNCHANGED vars
  BY <1>9 DEF vars, memory, FreshInv, FreshOf, FreshFrom
<1> QED
  BY <1>1, <1>2, <1>3, <1>4, <1>5, <1>6, <1>7, <1>8, <1>9, Kinds

LEMMA FinalStep ==
  ASSUME IInv, BornInv, FreshInv, [Next]_vars, up, up', NEW b \in Baskets, NEW n \in Legs
  PROVE  \/ leg[b][n].status = "pending"
         \/ leg'[b][n].order = leg[b][n].order
            /\ leg'[b][n].status \in {leg[b][n].status, "cancelled"}
<1>0. TypeInv /\ Baskets \subseteq Procs /\ \A p \in Procs : call[p].n \in Nat
  BY Variables, CallFields DEF IInv, TypeInv
<1>1. ASSUME NEW a \in Baskets, LegStep(a)
      PROVE  leg[b][n].status = "pending" \/ leg'[b][n] = leg[b][n]
  <2>1. /\ Frame(a, a) /\ call[a].pc \in {"walk", "placed"} /\ call[a].n \in Legs
        /\ \A m \in Legs \ {call[a].n} : leg'[a][m] = leg[a][m]
    BY <1>0, <1>1, LegEffect DEF LegStep
  <2>2. leg[a][call[a].n] = Fresh
    BY <2>1, LegsAreNumbers DEF FreshInv, FreshOf, FreshFrom
  <2> QED
    BY <2>1, <2>2 DEF Frame, Fresh
<1>2. ASSUME NEW c \in Cancellers, NEW a \in Baskets, NEW from \in Nat, Cancels(c, a, from)
      PROVE  leg'[b][n].order = leg[b][n].order
             /\ leg'[b][n].status \in {leg[b][n].status, "cancelled"}
  BY <1>2 DEF Cancels, CancelsLeg, CancelsBasket, Frame
<1>3. ASSUME leg' = leg
      PROVE  leg'[b][n].order = leg[b][n].order /\ leg'[b][n].status = leg[b][n].status
  BY <1>3
<1>4. \A a \in Baskets : SubmitBasket(a) \/ PlacingStep(a) \/ Finish(a) => leg' = leg
  BY <1>0, SubmitEffect, PlacingEffect, FinishEffect DEF PlacingStep
<1>5. \A p \in Procs : WriteStep(p) => leg' = leg
  BY <1>0, WriteEffect DEF WriteStep, memory
<1>6. ~Crash /\ ~Restore /\ ~RestoreFails
  BY DEF Crash, Restore, RestoreFails
<1>7. UNCHANGED vars => leg' = leg
  BY DEF vars, memory
<1> QED
  BY <1>1, <1>2, <1>3, <1>4, <1>5, <1>6, <1>7, Kinds

LEMMA BornInvariance == Spec => [](IInv /\ BornInv)
<1>1. IInv /\ IInv' /\ BornInv /\ [Next]_vars => BornInv'
  BY BornNext
<1> QED
  BY <1>1, BornInit, Invariance, PTL DEF Spec

LEMMA FreshInvariance == Spec => []FreshInv
<1>1. Init => FreshInv
  <2> SUFFICES ASSUME Init PROVE FreshInv
    OBVIOUS
  <2>1. \A b \in Baskets : call[b].pc = "idle"
    BY IdleFields, ConstantsTyped DEF Init
  <2> QED
    BY <2>1 DEF FreshInv, FreshOf
<1>2. IInv /\ BornInv /\ FreshInv /\ [Next]_vars => FreshInv'
  BY FreshNext
<1> QED
  BY <1>1, <1>2, BornInvariance, PTL DEF Spec

(* While the process runs, the outcome of a leg is final, but that its     *)
(* order may be cancelled: submit_basket gives each leg one outcome, and   *)
(* what it does after a cancellation does not revive the leg.              *)
THEOREM OutcomesAreFinal == Spec => OutcomeIsFinal
<1>1. IInv /\ BornInv /\ FreshInv /\ [Next]_vars =>
        [up /\ up' => \A b \in Baskets, n \in Legs :
           \/ leg[b][n].status = "pending"
           \/ leg'[b][n].order = leg[b][n].order
              /\ leg'[b][n].status \in {leg[b][n].status, "cancelled"}]_vars
  BY FinalStep
<1> QED
  BY <1>1, FreshInvariance, BornInvariance, PTL DEF Spec, OutcomeIsFinal

-----------------------------------------------------------------------------
(***************************************************************************)
(* How far the row of a basket is behind the memory while one call works   *)
(* on the basket: by what the call is about to write.                      *)
(***************************************************************************)
Reliable == up /\ faults.writes = 0 /\ faults.reads = 0

Same(b) == row[b].status = status[b] /\ row[b].legs = leg[b]

Agrees(p, b) ==
  /\ call[p].pc = "save" => row[b] = NoRow /\ status[b] = "submitting" /\ leg[b] = FreshLegs
  /\ call[p].pc # "save" => row[b].status # "absent"
  /\ call[p].pc \in {"walk", "placing", "placed", "leg"} => row[b].status = status[b]
  /\ call[p].pc = "status" => status[b] = call[p].text
  /\ call[p].pc = "leg" => leg[b][call[p].n] = call[p].leg
  /\ \A m \in Legs :
       row[b].legs[m] = leg[b][m] \/ (call[p].pc = "leg" /\ m = call[p].n)

AgreeOf(b) ==
  past[b] = "alone" =>
    /\ (\A p \in Procs : ~Works(p, b)) => Same(b)
    /\ \A p \in Procs : Works(p, b) => Agrees(p, b)

AgreeInv == Reliable => \A b \in Baskets : AgreeOf(b)

LEMMA AgreeStep ==
  ASSUME TypeInv, AgreeInv, Reliable' => Reliable,
         NEW p \in Procs, NEW b \in Baskets, Frame(p, b),
         call[p].basket \in {b, None}, call'[p].basket \in {b, None},
         past'[b] = "alone" => \A q \in Procs : Works(q, b) => q = p,
         Reliable' /\ past'[b] = "alone" =>
           /\ call'[p].basket = b => Agrees(p, b)'
           /\ call'[p].basket # b => Same(b)'
  PROVE  AgreeInv'
<1> SUFFICES ASSUME Reliable', NEW a \in Baskets, past'[a] = "alone"
             PROVE  /\ (\A q \in Procs : ~Works(q, a)') => Same(a)'
                    /\ \A q \in Procs : Works(q, a)' => Agrees(q, a)'
  BY DEF AgreeInv, AgreeOf
<1>1. CASE a = b
  <2>1. \A q \in Procs : Works(q, b)' => q = p
    BY <1>1 DEF Frame, Works
  <2> QED
    BY <1>1, <2>1 DEF Works
<1>2. CASE a # b
  <2>1. past[a] = "alone" /\ AgreeOf(a) /\ ~Works(p, a) /\ ~Works(p, a)'
    BY <1>2, BasketsAssumption DEF AgreeInv, Frame, Works
  <2>2. \A q \in Procs : Works(q, a)' <=> Works(q, a)
    BY <2>1 DEF Frame, Works
  <2>3. Same(a) => Same(a)'
    BY <1>2 DEF Frame, Same
  <2>4. ASSUME NEW q \in Procs, Works(q, a)' PROVE Agrees(q, a)'
    <3>1. q # p /\ Agrees(q, a)
      BY <2>1, <2>2, <2>4 DEF AgreeOf
    <3> QED
      BY <1>2, <3>1 DEF Frame, Agrees
  <2> QED
    BY <2>1, <2>2, <2>3, <2>4 DEF AgreeOf
<1> QED
  BY <1>1, <1>2

LEMMA SameLegs ==
  ASSUME TypeInv, NEW b \in Baskets, \A m \in Legs : row[b].legs[m] = leg[b][m]
  PROVE  row[b].legs = leg[b]
<1>1. row[b].legs \in [Legs -> LegType] /\ leg[b] \in [Legs -> LegType]
  BY Variables DEF RowType
<1> QED
  BY <1>1

LEMMA AgreeNext == ASSUME IInv, IInv', BornInv, AgreeInv, [Next]_vars PROVE AgreeInv'
<1>0. TypeInv /\ TypeInv' /\ Baskets \subseteq Procs /\ Cancellers \subseteq Procs
  BY Variables DEF IInv
<1>1. ASSUME NEW b \in Baskets, SubmitBasket(b) PROVE AgreeInv'
  <2>1. /\ Frame(b, b) /\ call'[b].basket = b /\ call'[b].pc = "save" /\ status'[b] = "submitting"
        /\ past[b] = "unborn" /\ UNCHANGED <<leg, row, up, faults>>
    BY <1>0, <1>1, SubmitEffect
  <2>2. leg[b] = FreshLegs /\ row[b] = NoRow /\ \A q \in Procs : ~Works(q, b)
    BY <1>0, <2>1, NoneWorks DEF BornInv, Unborn
  <2>3. call[b].basket \in {b, None}
    BY <1>0 DEF BornInv, CallsKnown, TypeInv, CallsInv
  <2>4. Agrees(b, b)'
    BY <2>1, <2>2 DEF Agrees, NoRow
  <2>5. Reliable' => Reliable
    BY <2>1 DEF Reliable
  <2> QED
    BY <1>0, <2>1, <2>2, <2>3, <2>4, <2>5, AgreeStep
<1>2. ASSUME NEW b \in Baskets, NEW p \in Procs, Works(p, b), Frame(p, b), past' = past,
             call'[p].basket \in {b, None}, Reliable' => Reliable,
             Reliable' /\ Agrees(p, b) =>
               /\ call'[p].basket = b => Agrees(p, b)'
               /\ call'[p].basket # b => Same(b)'
      PROVE  AgreeInv'
  <2>1. past[b] = "alone" => \A q \in Procs : Works(q, b) => q = p
    BY <1>0, <1>2, AloneWorks
  <2>2. Reliable' /\ past[b] = "alone" => Agrees(p, b)
    BY <1>2 DEF AgreeInv, AgreeOf
  <2>3. call[p].basket \in {b, None}
    BY <1>2 DEF Works
  <2> QED
    BY <1>0, <1>2, <2>1, <2>2, <2>3, AgreeStep
<1>3. ASSUME NEW b \in Baskets, LegStep(b) PROVE AgreeInv'
  <2>1. /\ Works(b, b) /\ Frame(b, b) /\ UNCHANGED <<status, row, up, past, faults>>
        /\ call[b].pc \in {"walk", "placed"} /\ call[b].n \in Legs
        /\ call'[b].basket = b /\ call'[b].pc = "leg" /\ call'[b].n = call[b].n
        /\ leg'[b][call[b].n] = call'[b].leg
        /\ \A m \in Legs \ {call[b].n} : leg'[b][m] = leg[b][m]
    BY <1>0, <1>3, LegEffect DEF LegStep, Works
  <2>2. Agrees(b, b) => Agrees(b, b)'
    BY <2>1 DEF Agrees
  <2>3. Reliable' => Reliable
    BY <2>1 DEF Reliable
  <2> QED
    BY <1>0, <1>2, <2>1, <2>2, <2>3
<1>4. ASSUME NEW b \in Baskets, PlacingStep(b) PROVE AgreeInv'
  <2>1. /\ Works(b, b) /\ Frame(b, b) /\ UNCHANGED <<status, leg, row, up, past>>
        /\ call[b].pc \in {"walk", "placing"}
        /\ \/ call'[b].basket = b /\ call'[b].pc \in {"placing", "placed"}
           \/ call'[b].basket = None
    BY <1>0, <1>4, PlacingEffect, IdleFields DEF PlacingStep, Works
  <2>2. Agrees(b, b) /\ call'[b].basket = b => Agrees(b, b)'
    BY <2>1, BasketsAssumption DEF Agrees
  <2>3. Agrees(b, b) => Same(b)'
    BY <1>0, <2>1, SameLegs DEF Agrees, Same
  <2>4. faults'.writes = faults.writes /\ faults'.reads = faults.reads
    <3>1. faults' = faults \/ Fault("raised")
      BY <1>0, <1>4, PlacingEffect DEF PlacingStep
    <3>2. Fault("raised") => faults'["writes"] = faults["writes"] /\ faults'["reads"] = faults["reads"]
      BY <1>0, FaultsCount
    <3> QED
      BY <3>1, <3>2
  <2>5. Reliable' => Reliable
    BY <2>1, <2>4 DEF Reliable
  <2> QED
    BY <1>0, <1>2, <2>1, <2>2, <2>3, <2>5
<1>5. ASSUME NEW b \in Baskets, Finish(b) PROVE AgreeInv'
  <2>1. /\ Works(b, b) /\ Frame(b, b) /\ call[b].pc = "walk"
        /\ call'[b].basket = b /\ call'[b].pc = "status" /\ call'[b].text = status'[b]
        /\ UNCHANGED <<leg, row, up, past, faults>>
    BY <1>0, <1>5, FinishEffect DEF Works
  <2>2. Agrees(b, b) => Agrees(b, b)'
    BY <2>1 DEF Agrees
  <2>3. Reliable' => Reliable
    BY <2>1 DEF Reliable
  <2> QED
    BY <1>0, <1>2, <2>1, <2>2, <2>3
<1>6. ASSUME NEW c \in Cancellers, NEW b \in Baskets, NEW from \in Nat, Cancels(c, b, from)
      PROVE  AgreeInv'
  <2>1. /\ Frame(c, b) /\ up /\ UNCHANGED <<row, up>> /\ call'[c].basket = b
        /\ past'[b] = "alone" => past[b] = "alone" /\ \A q \in Procs : Works(q, b) => q = c
        /\ call[c].basket \in {b, None}
    BY <1>0, <1>6, CancelMoves DEF Cancels, BornInv, CallsKnown
  <2>2. ASSUME Reliable, past'[b] = "alone"
        PROVE  /\ row[b].status = status[b] /\ row[b].status # "absent"
               /\ \A m \in Legs : row[b].legs[m] = leg[b][m]
    <3>1. AgreeOf(b) /\ past[b] = "alone"
      BY <2>1, <2>2 DEF AgreeInv
    <3>2. CASE call[c].pc = "idle" /\ status[b] # "absent"
      <4>1. \A q \in Procs : ~Works(q, b)
        BY <1>0, <2>1, <2>2, <3>2, NoneWorks DEF BornInv
      <4> QED
        BY <3>1, <3>2, <4>1 DEF AgreeOf, Same
    <3>3. CASE call[c].pc = "walk" /\ call[c].basket = b
      <4>1. Agrees(c, b)
        BY <1>0, <3>1, <3>3 DEF AgreeOf, Works
      <4> QED
        BY <3>3, <4>1 DEF Agrees
    <3> QED
      BY <1>6, <3>2, <3>3 DEF Cancels
  <2>3. Reliable' => Reliable
    <3>1. faults' = faults \/ Fault("refused")
      BY <1>6 DEF Cancels, CancelsLeg, CancelsBasket, CancelTrade
    <3>2. Fault("refused") => faults'["writes"] = faults["writes"] /\ faults'["reads"] = faults["reads"]
      BY <1>0, FaultsCount
    <3> QED
      BY <2>1, <3>1, <3>2 DEF Reliable
  <2>4. ASSUME Reliable', past'[b] = "alone" PROVE Agrees(c, b)'
    <3>1. CASE \E n \in Legs : CancelsLeg(c, b, from, n)
      BY <2>1, <2>2, <2>3, <2>4, <3>1 DEF CancelsLeg, Agrees
    <3>2. CASE CancelsBasket(c, b, from)
      BY <2>1, <2>2, <2>3, <2>4, <3>2 DEF CancelsBasket, Agrees
    <3> QED
      BY <1>6, <3>1, <3>2 DEF Cancels
  <2> QED
    BY <1>0, <2>1, <2>3, <2>4, AgreeStep
<1>7. ASSUME NEW p \in Procs, WriteStep(p), NEW b \in Baskets, b = call[p].basket
      PROVE  AgreeInv'
  <2>1. /\ Works(p, b) /\ Frame(p, b) /\ UNCHANGED <<status, leg, up, past>>
        /\ call[p].pc \in {"save", "leg", "status"}
        /\ call[p].pc = "status" => call'[p].pc = "idle" /\ call'[p].basket = None
        /\ call[p].pc # "status" => call'[p].pc = "walk" /\ call'[p].basket = b
    BY <1>0, <1>7, WriteEffect, IdleFields DEF WriteStep, Works, memory
  <2>2. Reliable' => Commits(p) /\ Reliable
    <3>1. WriteFails(p) => faults'["writes"] # 0
      BY <1>0, FaultsCount DEF WriteFails
    <3>2. Commits(p) => faults' = faults
      BY DEF Commits
    <3> QED
      BY <1>7, <2>1, <3>1, <3>2 DEF Reliable, WriteStep
  <2>3. ASSUME Commits(p), Agrees(p, b)
        PROVE  /\ call'[p].basket = b => Agrees(p, b)'
               /\ call'[p].basket # b => Same(b)'
    <3>1. CASE call[p].pc = "save"
      <4>1. row'[b].status = "submitting" /\ row'[b].legs = FreshLegs
        BY <1>0, <1>7, <2>3, <3>1, SaveWrites
      <4> QED
        BY <2>1, <2>3, <3>1, <4>1 DEF Agrees
    <3>2. CASE call[p].pc = "leg"
      <4>1. row[b] # NoRow
        BY <2>3, <3>2 DEF Agrees, NoRow
      <4>2. /\ row'[b].status = row[b].status /\ row'[b].legs[call[p].n] = call[p].leg
            /\ \A m \in Legs \ {call[p].n} : row'[b].legs[m] = row[b].legs[m]
        BY <1>0, <2>3, <3>2, <4>1, <1>7, LegWrites
      <4> QED
        BY <2>1, <2>3, <3>2, <4>2 DEF Agrees
    <3>3. CASE call[p].pc = "status"
      <4>1. row[b] # NoRow
        BY <2>3, <3>3 DEF Agrees, NoRow
      <4>2. row'[b].status = call[p].text /\ row'[b].legs = row[b].legs
        BY <1>0, <2>3, <3>3, <4>1, <1>7, StatusWrites
      <4>3. row[b].legs = leg[b]
        BY <1>0, <2>1, <2>3, <3>3, SameLegs DEF Agrees
      <4> QED
        BY <2>1, <2>3, <3>3, <4>2, <4>3, BasketsAssumption DEF Agrees, Same
    <3> QED
      BY <2>1, <3>1, <3>2, <3>3
  <2>4. call'[p].basket \in {b, None}
    BY <2>1
  <2> QED
    BY <1>0, <1>2, <2>1, <2>2, <2>3, <2>4
<1>8. CASE Crash
  BY <1>8 DEF Crash, AgreeInv, Reliable
<1>9. CASE Restore
  <2>1. \A p \in Procs, b \in Baskets : ~Works(p, b)'
    BY <1>0, <1>9, BasketsAssumption DEF Restore, BornInv, Down, CallsKnown, Works
  <2>2. \A b \in Baskets : Same(b)'
    BY <1>9 DEF Restore, Same
  <2> QED
    BY <2>1, <2>2 DEF AgreeInv, AgreeOf
<1>10. CASE RestoreFails
  <2>1. faults'["reads"] # 0
    BY <1>0, <1>10, FaultsCount DEF RestoreFails
  <2> QED
    BY <2>1 DEF AgreeInv, Reliable
<1>11. CASE UNCHANGED vars
  BY <1>11 DEF vars, memory, AgreeInv, Reliable, AgreeOf, Works, Same, Agrees
<1>12. ASSUME NEW p \in Procs, WriteStep(p) PROVE AgreeInv'
  BY <1>0, <1>7, <1>12, WriteEffect DEF WriteStep
<1> QED
  BY <1>1, <1>3, <1>4, <1>5, <1>6, <1>12, <1>8, <1>9, <1>10, <1>11, Kinds

(* A restart brings a basket back as it was: as long as reads and writes   *)
(* succeed, and no two calls have overlapped on it, the row of a basket    *)
(* no call works on says what the memory says.                             *)
THEOREM RowsComeBack == Spec => []RowsAgree
<1>1. Init => AgreeInv
  <2> SUFFICES ASSUME Init PROVE AgreeInv
    OBVIOUS
  <2>1. \A b \in Baskets : past[b] = "unborn"
    BY DEF Init
  <2> QED
    BY <2>1 DEF AgreeInv, AgreeOf
<1>2. IInv /\ IInv' /\ BornInv /\ AgreeInv /\ [Next]_vars => AgreeInv'
  BY AgreeNext
<1>3. IInv /\ AgreeInv => RowsAgree
  <2> SUFFICES ASSUME TypeInv, AgreeInv, up, faults.writes = 0, faults.reads = 0,
                      NEW b \in Baskets, AtRest(b), past[b] = "alone"
               PROVE  row[b] = [status |-> status[b], legs |-> leg[b]]
    BY DEF RowsAgree, IInv
  <2>1. \A p \in Procs : ~Works(p, b)
    BY DEF AtRest, InFlight, Works
  <2>2. Same(b) /\ row[b] \in RowType
    BY <2>1, Variables DEF AgreeInv, Reliable, AgreeOf
  <2> QED
    BY <2>2 DEF Same, RowType
<1> QED
  BY <1>1, <1>2, <1>3, BornInvariance, PTL DEF Spec

-----------------------------------------------------------------------------
(***************************************************************************)
(* While writes succeed: an order whose number is not in the table is the  *)
(* one of the leg that submit_basket is at, or was at when it ended, and   *)
(* the row does not say yet how the basket came out.                       *)
(***************************************************************************)
Pending == {"submitting", "cancelled"}

CancelCalls ==
  \A c \in Cancellers :
    /\ call[c].pc = "leg" => call[c].leg.order # 0
    /\ call[c].pc = "status" => call[c].text = "cancelled"
LegCalls ==
  \A b \in Baskets :
    call[b].pc = "leg" => call[b].leg.order # 0 \/ ~HasOrder(b, call[b].n)

RecordOf(b) ==
  /\ call[b].pc = "save" => row[b] = NoRow
  /\ call[b].pc \in {"walk", "placing", "placed", "leg"} => row[b].status \in Pending
  /\ call[b].pc = "status" => row[b].status # "absent"
  /\ call[b].pc # "idle" =>
       \A n \in Unrecorded(b) : call[b].pc \in {"placed", "leg"} /\ n = call[b].n
  /\ \A m, n \in Unrecorded(b) : m = n
  /\ Unrecorded(b) # {} => row[b].status \in Pending

RecordInv ==
  CancelCalls /\ LegCalls /\ (faults.writes = 0 => \A b \in Baskets : RecordOf(b))

SameButAt(b, n) ==
  \A a \in Baskets, m \in Legs : a # b \/ m # n => venue'[a][m].placed = venue[a][m].placed

LEMMA PlacesAtLeg ==
  ASSUME TypeInv, NEW b \in Baskets, NEW n \in Legs, venue' \in {venue, Placed(b, n)}
  PROVE  SameButAt(b, n)
  BY PlacedCounts DEF SameButAt, TypeInv

LEMMA RecordFrame ==
  ASSUME NEW a \in Baskets, RecordOf(a), call'[a] = call[a], row'[a] = row[a],
         \A n \in Legs : venue'[a][n].placed = venue[a][n].placed
  PROVE  RecordOf(a)'
<1>1. Unrecorded(a)' = Unrecorded(a)
  BY DEF Unrecorded, HasOrder
<1> QED
  BY <1>1 DEF RecordOf

(* A step of submit_basket, but for its writes. *)
LEMMA RecordStep ==
  ASSUME TypeInv, RecordInv, NEW b \in Baskets, Frame(b, b), row' = row,
         NEW n \in Legs, SameButAt(b, n),
         faults'.writes = 0 => faults.writes = 0,
         call'[b].pc = "leg" => call'[b].leg.order # 0 \/ ~HasOrder(b, call[b].n)',
         faults.writes = 0 => RecordOf(b)'
  PROVE  RecordInv'
<1>0. Baskets \subseteq Procs /\ Cancellers \subseteq Procs
  BY Variables
<1>1. CancelCalls'
  BY <1>0, BasketsAssumption DEF Frame, RecordInv, CancelCalls
<1>2. LegCalls'
  BY <1>0 DEF Frame, RecordInv, LegCalls, SameButAt, HasOrder, TypeInv, CallsInv
<1>3. ASSUME faults.writes = 0, NEW a \in Baskets \ {b} PROVE RecordOf(a)'
  <2>1. RecordOf(a) /\ call'[a] = call[a] /\ row'[a] = row[a]
        /\ \A m \in Legs : venue'[a][m].placed = venue[a][m].placed
    BY <1>0, <1>3 DEF Frame, RecordInv, SameButAt
  <2> QED
    BY <2>1, RecordFrame
<1> QED
  BY <1>1, <1>2, <1>3 DEF RecordInv

LEMMA RecordNext == ASSUME IInv, BornInv, RecordInv, [Next]_vars PROVE RecordInv'
<1>0. TypeInv /\ Baskets \subseteq Procs /\ Cancellers \subseteq Procs
      /\ \A b \in Baskets, m \in Legs : venue[b][m].placed \in Nat
      /\ \A p \in Procs : call[p].n \in Nat
  BY Variables, CallFields DEF IInv, TypeInv, TypeOK
<1>1. ASSUME NEW b \in Baskets, SubmitBasket(b) PROVE RecordInv'
  <2>1. /\ Frame(b, b) /\ past[b] = "unborn" /\ call'[b].pc = "save"
        /\ UNCHANGED <<row, venue, faults>>
    BY <1>0, <1>1, SubmitEffect
  <2>2. row[b] = NoRow /\ \A m \in Legs : ~HasOrder(b, m)
    BY <2>1, LegsAreNumbers DEF BornInv, Unborn, IInv, AheadInv, AheadOf, Clear, HasOrder
  <2>3. Unrecorded(b)' = {}
    BY <2>1, <2>2 DEF Unrecorded, HasOrder
  <2>4. RecordOf(b)'
    BY <2>1, <2>2, <2>3 DEF RecordOf
  <2>5. CASE Legs = {}
    <3>1. ASSUME NEW a \in Baskets, a # b, RecordOf(a) PROVE RecordOf(a)'
      BY <1>0, <2>1, <3>1, RecordFrame DEF Frame
    <3> QED
      BY <1>0, <2>1, <2>4, <3>1, BasketsAssumption
         DEF Frame, RecordInv, CancelCalls, LegCalls, HasOrder
  <2>6. CASE Legs # {}
    <3>1. PICK n \in Legs : TRUE
      BY <2>6
    <3>2. SameButAt(b, n)
      BY <2>1 DEF SameButAt
    <3> QED
      BY <1>0, <2>1, <2>4, <3>2, RecordStep
  <2> QED
    BY <2>5, <2>6
<1>2. ASSUME NEW b \in Baskets, LegStep(b) PROVE RecordInv'
  <2>1. /\ Frame(b, b) /\ UNCHANGED <<row, faults>> /\ call[b].pc \in {"walk", "placed"}
        /\ call[b].n \in Legs /\ call'[b].pc = "leg" /\ call'[b].n = call[b].n
        /\ venue' \in {venue, Placed(b, call[b].n)}
        /\ call'[b].leg.order # 0 \/ (call[b].pc = "walk" /\ venue' = venue)
    BY <1>0, <1>2, LegEffect DEF LegStep
  <2>2. SameButAt(b, call[b].n)
    BY <1>0, <2>1, PlacesAtLeg
  <2>3. call'[b].leg.order # 0 \/ ~HasOrder(b, call[b].n)'
    BY <1>0, <2>1 DEF IInv, AheadInv, AheadOf, Clear, HasOrder
  <2>4. ASSUME faults.writes = 0 PROVE RecordOf(b)'
    <3>1. row[b].status \in Pending /\ \A m \in Unrecorded(b) : m = call[b].n
      BY <2>1, <2>4 DEF RecordInv, RecordOf
    <3>2. \A m \in Unrecorded(b)' : m = call[b].n
      BY <2>1, <2>2, <3>1 DEF Unrecorded, HasOrder, SameButAt
    <3> QED
      BY <2>1, <3>1, <3>2 DEF RecordOf
  <2>5. call[b].n = call'[b].n
    BY <2>1
  <2> QED
    BY <1>0, <2>1, <2>2, <2>3, <2>4, RecordStep
<1>3. ASSUME NEW b \in Baskets, PlacingStep(b) PROVE RecordInv'
  <2>1. /\ Frame(b, b) /\ row' = row /\ call[b].pc \in {"walk", "placing"} /\ call[b].n \in Legs
        /\ venue' \in {venue, Placed(b, call[b].n)}
        /\ \/ call'[b].pc = "placing" /\ venue' = venue
           \/ call'[b].pc = "placed" /\ call'[b].n = call[b].n
           \/ call'[b].pc = "idle"
        /\ faults' = faults \/ Fault("raised")
    BY <1>0, <1>3, PlacingEffect, IdleFields DEF PlacingStep
  <2>2. SameButAt(b, call[b].n)
    BY <1>0, <2>1, PlacesAtLeg
  <2>3. faults'.writes = 0 => faults.writes = 0
    <3>1. Fault("raised") => faults'["writes"] = faults["writes"]
      BY <1>0, FaultsCount
    <3> QED
      BY <2>1, <3>1
  <2>4. ASSUME faults.writes = 0 PROVE RecordOf(b)'
    <3>1. row[b].status \in Pending /\ Unrecorded(b) = {}
      BY <2>1, <2>4 DEF RecordInv, RecordOf
    <3>2. /\ \A m \in Unrecorded(b)' : m = call[b].n
          /\ venue' = venue => Unrecorded(b)' = {}
      BY <2>1, <2>2, <3>1 DEF Unrecorded, HasOrder, SameButAt
    <3>3. CASE call'[b].pc = "placing" /\ venue' = venue
      BY <2>1, <3>1, <3>2, <3>3 DEF RecordOf
    <3>4. CASE call'[b].pc = "placed" /\ call'[b].n = call[b].n
      BY <2>1, <3>1, <3>2, <3>4 DEF RecordOf
    <3>5. CASE call'[b].pc = "idle"
      BY <2>1, <3>1, <3>2, <3>5 DEF RecordOf
    <3> QED
      BY <2>1, <3>3, <3>4, <3>5
  <2>5. call'[b].pc # "leg"
    BY <2>1
  <2> QED
    BY <1>0, <2>1, <2>2, <2>3, <2>4, <2>5, RecordStep
<1>4. ASSUME NEW b \in Baskets, Finish(b) PROVE RecordInv'
  <2>1. /\ Frame(b, b) /\ call[b].pc = "walk" /\ call'[b].pc = "status"
        /\ UNCHANGED <<row, venue, faults>>
    BY <1>0, <1>4, FinishEffect
  <2>2. Unrecorded(b)' = Unrecorded(b)
    BY <2>1 DEF Unrecorded, HasOrder
  <2>3. faults.writes = 0 => RecordOf(b)'
    BY <2>1, <2>2 DEF RecordInv, RecordOf, Pending
  <2>4. ASSUME NEW a \in Baskets, a # b, RecordOf(a) PROVE RecordOf(a)'
    BY <1>0, <2>1, <2>4, RecordFrame DEF Frame
  <2>5. CancelCalls' /\ LegCalls'
    BY <1>0, <2>1, BasketsAssumption DEF Frame, RecordInv, CancelCalls, LegCalls, HasOrder
  <2> QED
    BY <2>1, <2>3, <2>4, <2>5 DEF RecordInv
<1>5. ASSUME NEW c \in Cancellers, NEW b \in Baskets, NEW from \in Nat, Cancels(c, b, from)
      PROVE  RecordInv'
  <2>1. /\ Frame(c, b) /\ row' = row /\ c \notin Baskets
        /\ \A a \in Baskets : call'[a] = call[a]
    BY <1>0, <1>5, BasketsAssumption DEF Cancels, Frame
  <2>2. SamePlaced
    <3>1. ASSUME NEW n \in Legs, CancelsLeg(c, b, from, n) PROVE SamePlaced
      BY <1>0, <3>1, TradeTyped DEF CancelsLeg, TypeInv
    <3>2. CancelsBasket(c, b, from) => SamePlaced
      BY DEF CancelsBasket, SamePlaced
    <3> QED
      BY <1>5, <3>1, <3>2 DEF Cancels
  <2>3. faults'.writes = faults.writes
    <3>1. faults' = faults \/ Fault("refused")
      BY <1>5 DEF Cancels, CancelsLeg, CancelsBasket, CancelTrade
    <3>2. Fault("refused") => faults'["writes"] = faults["writes"]
      BY <1>0, FaultsCount
    <3> QED
      BY <3>1, <3>2
  <2>4. CancelCalls'
    <3>1. /\ call'[c].pc = "leg" => call'[c].leg.order # 0
          /\ call'[c].pc = "status" => call'[c].text = "cancelled"
      BY <1>5 DEF Cancels, CancelsLeg, CancelsBasket
    <3> QED
      BY <1>0, <2>1, <3>1 DEF Frame, RecordInv, CancelCalls
  <2>5. LegCalls'
    BY <1>0, <2>1, <2>2 DEF RecordInv, LegCalls, HasOrder, SamePlaced, TypeInv, CallsInv
  <2>6. ASSUME faults.writes = 0, NEW a \in Baskets PROVE RecordOf(a)'
    BY <2>1, <2>2, <2>6, RecordFrame DEF RecordInv, SamePlaced
  <2> QED
    BY <2>3, <2>4, <2>5, <2>6 DEF RecordInv
<1>6. ASSUME NEW p \in Procs, WriteStep(p), NEW b \in Baskets, b = call[p].basket
      PROVE  RecordInv'
  <2>1. /\ Frame(p, b) /\ venue' = venue /\ call[p].pc \in {"save", "leg", "status"}
        /\ call[p].pc = "status" => call'[p].pc = "idle"
        /\ call[p].pc # "status" => call'[p].pc = "walk"
    BY <1>0, <1>6, WriteEffect, IdleFields DEF WriteStep
  <2>2. CancelCalls' /\ LegCalls'
    BY <1>0, <2>1 DEF Frame, RecordInv, CancelCalls, LegCalls, HasOrder
  <2>3. faults'.writes = 0 => Commits(p) /\ faults.writes = 0
    <3>1. WriteFails(p) => faults'["writes"] # 0
      BY <1>0, FaultsCount DEF WriteFails
    <3>2. Commits(p) => faults' = faults
      BY DEF Commits
    <3> QED
      BY <1>6, <3>1, <3>2 DEF WriteStep
  <2>4. p \in Baskets => p = b
    BY <1>0, <1>6, <2>1 DEF TypeInv, CallsInv
  <2>5. ASSUME NEW a \in Baskets, a # b, RecordOf(a) PROVE RecordOf(a)'
    BY <1>0, <2>1, <2>4, <2>5, RecordFrame DEF Frame
  <2>6. ASSUME Commits(p), RecordOf(b) PROVE RecordOf(b)'
    <3>1. CASE call[p].pc = "save"
      <4>1. p = b /\ row'[b].status = "submitting" /\ row'[b].legs = FreshLegs
        BY <1>0, <1>6, <2>4, <2>6, <3>1, SaveWrites DEF Procs, TypeInv, CallsInv
      <4>2. \A m \in Legs : ~HasOrder(b, m)
        BY <1>0, <3>1, <4>1, LegsAreNumbers
           DEF IInv, TypeInv, CallsInv, AheadInv, AheadOf, Clear, HasOrder
      <4>3. Unrecorded(b)' = {}
        BY <2>1, <4>2 DEF Unrecorded, HasOrder
      <4> QED
        BY <2>1, <3>1, <4>1, <4>3 DEF RecordOf, Pending
    <3>2. CASE call[p].pc = "leg"
      <4>1. /\ row'[b].status = row[b].status
            /\ row[b] = NoRow => row'[b] = row[b]
            /\ row[b] # NoRow => row'[b].legs[call[p].n] = call[p].leg
            /\ row[b] # NoRow =>
                 \A m \in Legs \ {call[p].n} : row'[b].legs[m] = row[b].legs[m]
        BY <1>0, <1>6, <2>6, <3>2, LegWrites
      <4>2. CASE p = b
        <5>1. row[b] # NoRow /\ \A m \in Unrecorded(b) : m = call[b].n
          BY <2>6, <3>2, <4>2 DEF RecordOf, Pending, NoRow
        <5>2. call[b].leg.order # 0 \/ ~HasOrder(b, call[b].n)
          BY <3>2, <4>2 DEF RecordInv, LegCalls
        <5>3. Unrecorded(b)' = {}
          BY <2>1, <4>1, <4>2, <5>1, <5>2 DEF Unrecorded, HasOrder
        <5> QED
          BY <2>1, <2>6, <3>2, <4>1, <4>2, <5>3 DEF RecordOf
      <4>3. CASE p # b
        <5>1. p \in Cancellers /\ call'[b] = call[b] /\ call[p].leg.order # 0
          BY <1>0, <2>1, <2>4, <3>2, <4>3 DEF Procs, Frame, RecordInv, CancelCalls
        <5>2. \A m \in Unrecorded(b)' : m \in Unrecorded(b)
          BY <2>1, <4>1, <5>1 DEF Unrecorded, HasOrder
        <5>3. row[b] = NoRow => row'[b] = NoRow
          BY <4>1
        <5>4. call[b].pc = "save" => row[b] = NoRow
          BY <2>6 DEF RecordOf
        <5> QED
          BY <2>6, <4>1, <5>1, <5>2, <5>3, <5>4 DEF RecordOf
      <4> QED
        BY <4>2, <4>3
    <3>3. CASE call[p].pc = "status"
      <4>1. /\ row'[b].legs = row[b].legs
            /\ row[b] = NoRow => row'[b] = row[b]
            /\ row[b] # NoRow => row'[b].status = call[p].text
        BY <1>0, <1>6, <2>6, <3>3, StatusWrites
      <4>2. Unrecorded(b)' = Unrecorded(b)
        BY <2>1, <4>1 DEF Unrecorded, HasOrder
      <4>3. CASE p = b
        BY <2>1, <2>6, <3>3, <4>2, <4>3 DEF RecordOf
      <4>4. CASE p # b
        <5>1. p \in Cancellers /\ call'[b] = call[b] /\ call[p].text = "cancelled"
          BY <1>0, <2>1, <2>4, <3>3, <4>4 DEF Procs, Frame, RecordInv, CancelCalls
        <5>2. row'[b] = row[b] \/ (row[b] # NoRow /\ row'[b].status = "cancelled")
          BY <4>1, <5>1
        <5> QED
          BY <2>6, <4>2, <5>1, <5>2 DEF RecordOf, Pending
      <4> QED
        BY <4>3, <4>4
    <3> QED
      BY <2>1, <3>1, <3>2, <3>3
  <2> QED
    BY <2>2, <2>3, <2>5, <2>6 DEF RecordInv
<1>7. ASSUME NEW p \in Procs, WriteStep(p) PROVE RecordInv'
  BY <1>0, <1>6, <1>7, WriteEffect DEF WriteStep
<1>8. CASE Crash
  <2>1. /\ SamePlaced /\ row' = row /\ faults'.writes = faults.writes
        /\ \A p \in Procs : call'[p].pc = "idle"
    BY <1>0, <1>8, CrashTyped, IdleFields, Variables DEF Crash, FaultType
  <2>2. \A b \in Baskets : Unrecorded(b)' = Unrecorded(b)
    BY <2>1 DEF Unrecorded, HasOrder, SamePlaced
  <2> QED
    BY <1>0, <2>1, <2>2 DEF RecordInv, CancelCalls, LegCalls, RecordOf
<1>9. CASE Restore \/ RestoreFails \/ UNCHANGED vars
  <2>1. UNCHANGED <<call, row, venue>> /\ faults'.writes = faults.writes
    <3>1. Fault("reads") => faults'["writes"] = faults["writes"]
      BY <1>0, FaultsCount
    <3> QED
      BY <1>9, <3>1 DEF Restore, RestoreFails, vars
  <2>2. \A b \in Baskets : RecordOf(b) => RecordOf(b)'
    BY <2>1, RecordFrame
  <2> QED
    BY <2>1, <2>2 DEF RecordInv, CancelCalls, LegCalls, HasOrder
<1> QED
  BY <1>1, <1>2, <1>3, <1>4, <1>5, <1>7, <1>8, <1>9, Kinds

LEMMA AtMostOne ==
  ASSUME NEW S, \A m, n \in S : m = n
  PROVE  IsFiniteSet(S) /\ Cardinality(S) <= 1
<1>1. CASE S = {}
  BY <1>1, FS_EmptySet
<1>2. CASE S # {}
  <2>1. PICK n \in S : TRUE
    BY <1>2
  <2>2. S = {n}
    BY <2>1
  <2>3. IsFiniteSet({n}) /\ Cardinality({n}) = 1
    BY FS_Singleton
  <2> QED
    BY <2>2, <2>3
<1> QED
  BY <1>1, <1>2

(* While writes succeed, whatever calls overlap and whenever the process   *)
(* or an executor fails: the table lacks the number of at most one order   *)
(* of a basket, and then the row says submitting, or that it was cancelled.*)
THEOREM OrdersInTheTable == Spec => []OrdersAreRecorded
<1>1. Init => RecordInv
  <2> SUFFICES ASSUME Init PROVE RecordInv
    OBVIOUS
  <2>1. \A p \in Procs : call[p].pc = "idle"
    BY IdleFields DEF Init
  <2>2. \A b \in Baskets : Unrecorded(b) = {}
    BY DEF Init, Unrecorded, HasOrder
  <2> QED
    BY <2>1, <2>2, ConstantsTyped DEF RecordInv, CancelCalls, LegCalls, RecordOf
<1>2. IInv /\ BornInv /\ RecordInv /\ [Next]_vars => RecordInv'
  BY RecordNext
<1>3. RecordInv => OrdersAreRecorded
  BY AtMostOne DEF RecordInv, RecordOf, Pending, OrdersAreRecorded
<1> QED
  BY <1>1, <1>2, <1>3, BornInvariance, PTL DEF Spec

-----------------------------------------------------------------------------
(***************************************************************************)
(* What a cancellation closes, unless a crash, a refusal or an executor    *)
(* that raised lost an order.  Every open order is numbered in memory, or  *)
(* is the one submit_basket is about to note; and until calls overlap, a   *)
(* cancellation has closed all that lies behind it.                        *)
(***************************************************************************)
Clean       == faults.crashes = 0 /\ faults.refused = 0 /\ faults.raised = 0
Shut(b, n)  == \A m \in Legs : m < n => ~venue[b][m].open
AllShut(b)  == \A m \in Legs : ~venue[b][m].open

Numbered(b) ==
  \A n \in Legs : venue[b][n].open =>
    leg[b][n].order # 0 \/ (call[b].pc = "placed" /\ n = call[b].n)
Held(b) ==
  call[b].pc = "placed" =>
    manager[VenueOf[b][call[b].n]][call[b].order].status = "submitted"
Submitting(b) ==  \* nothing is cancelled behind the back of submit_basket
  call[b].pc # "idle" =>
    status[b] # "cancelled" /\ \A n \in Legs : leg[b][n].status # "cancelled"
Resting(b) ==
  status[b] = "cancelled" /\ (\A q \in Procs : ~Works(q, b)) => AllShut(b)
Closing(c, b) ==
  Works(c, b) =>
    /\ call[c].pc = "walk" => call[c].n >= 1 /\ Shut(b, call[c].n)
    /\ call[c].pc = "leg" => Shut(b, call[c].n + 1)
    /\ call[c].pc = "status" => AllShut(b)
CloseOf(b) ==
  /\ Numbered(b) /\ Held(b)
  /\ past[b] = "alone" =>
       Submitting(b) /\ Resting(b) /\ \A c \in Cancellers : Closing(c, b)
CloseInv == Clean => \A b \in Baskets : CloseOf(b)

LEMMA StaysClean ==
  ASSUME IInv, [Next]_vars, Clean'
  PROVE  Clean /\ ~Crash /\ ~Restore /\ ~RestoreFails /\ \A b \in Baskets : ~LegRaises(b)
<1>0. TypeInv /\ OwnInv /\ faults \in FaultType
  BY Variables DEF IInv
<1>1. \A kind \in {"reads", "writes", "raised", "refused"} : Fault(kind) =>
        /\ faults'.crashes = faults.crashes /\ faults'[kind] # 0
        /\ kind # "raised" => faults'.raised = faults.raised
        /\ kind # "refused" => faults'.refused = faults.refused
  BY <1>0, FaultsCount
<1>2. \A b \in Baskets : ~LegRaises(b)
  BY <1>1 DEF LegRaises, Clean
<1>3. ~Crash
  BY <1>0 DEF Crash, Clean, FaultType
<1>4. Restore \/ RestoreFails => FALSE
  BY <1>0, <1>1 DEF Restore, RestoreFails, OwnInv, Clean, FaultType
<1>5. \A kind \in {"reads", "writes"} : Fault(kind) => Clean
  BY <1>1 DEF Clean
<1>6. Fault("refused") => FALSE
  BY <1>1 DEF Clean
<1>7. UNCHANGED faults => Clean
  BY DEF Clean
<1>8. \A b \in Baskets, n \in Legs : CancelTrade(b, n) => Clean
  <2>1. ASSUME NEW b \in Baskets, NEW n \in Legs, CancelTrade(b, n)
        PROVE  faults' = faults \/ Fault("refused")
    BY <2>1, Zenon DEF CancelTrade
  <2> QED
    BY <1>6, <1>7, <2>1
<1>9. \A c, b, from : CancelFrom(c, b, from) /\ b \in Baskets => Clean
  BY <1>7, <1>8 DEF CancelFrom, NextOrder
<1>10. \A c \in Cancellers : CancelContinues(c) => Clean
  BY <1>0, <1>9 DEF CancelContinues, TypeInv, CallsInv, Procs
<1>11. \A c \in Cancellers, b \in Baskets : CancelBasket(c, b) => Clean
  BY <1>9 DEF CancelBasket
<1>12. \A p \in Procs : Commits(p) \/ WriteFails(p) => Clean
  BY <1>5, <1>7 DEF Commits, WriteFails
<1>13. \A b \in Baskets : SubmitStep(b) => Clean
  BY <1>2, <1>7 DEF SubmitStep, SubmitBasket, RejectLeg, UnavailableLeg, PaperLeg,
     LiveLegStarts, LegAccepted, LegRecorded, Finish
<1>14. UNCHANGED vars => Clean
  BY <1>7 DEF vars
<1> QED
  BY <1>2, <1>3, <1>4, <1>10, <1>11, <1>12, <1>13, <1>14 DEF Next

(* What the steps of submit_basket leave of the orders. *)
StatusKept ==
  \A v \in Venues : \A o \in DOMAIN manager[v] :
    manager'[v][o].status = manager[v][o].status \/ manager'[v][o].status = "submitted"

LEMMA StatusesKept ==
  ASSUME TypeInv, NEW b \in Baskets, LegStep(b) \/ PlacingStep(b)
  PROVE  /\ StatusKept
         /\ LegAccepted(b) =>
              /\ call'[b].order = call[b].order
              /\ manager'[VenueOf[b][call[b].n]][call[b].order].status = "submitted"
<1>0. manager \in [Venues -> Seq(ManagerType)] /\ TypeOK
      /\ call \in [Procs -> CallType] /\ b \in Procs
  BY Variables DEF TypeInv
<1>1. CASE manager' = manager /\ ~LegAccepted(b)
  BY <1>1 DEF StatusKept
<1>2. CASE PaperLeg(b) \/ LiveLegStarts(b)
  <2>1. call[b].n \in LegsOf(b) /\ call[b].n \in Legs /\ call[b].pc = "walk"
    BY <1>2, LegsTyped DEF PaperLeg, LiveLegStarts, AtLeg
  <2>2. PICK v \in Venues, w \in ManagerType :
          manager' = [manager EXCEPT ![v] = Append(@, w)]
    BY <1>2, <2>1, LegsTyped DEF PaperLeg, LiveLegStarts, ManagerType
  <2>3. \A u \in Venues : \A o \in DOMAIN manager[u] : manager'[u][o] = manager[u][o]
    BY <1>0, <2>2, AppendTyped
  <2> QED
    BY <2>1, <2>3 DEF StatusKept, LegAccepted
<1>3. CASE LegAccepted(b)
  <2> DEFINE v == VenueOf[b][call[b].n]
             o == call[b].order
             w == [status |-> "submitted", ref |-> <<b, call[b].n>>]
             s == [manager[v] EXCEPT ![o] = w]
             q == [call[b] EXCEPT !.pc = "placed"]
  <2>1. o \in DOMAIN manager[v] /\ v \in Venues
    BY <1>3, LegsTyped DEF LegAccepted, TypeInv, CallsInv, Procs
  <2>2. manager' = [manager EXCEPT ![v] = s] /\ call' = [call EXCEPT ![b] = q]
    BY <1>3 DEF LegAccepted
  <2>3. w.status = "submitted" /\ q.order = call[b].order
    BY <1>0 DEF CallType
  <2> HIDE DEF w, q
  <2>4. s[o] = w /\ \A i \in DOMAIN manager[v] : i # o => s[i] = manager[v][i]
    BY <1>0, <2>1
  <2> HIDE DEF s
  <2>5. manager'[v] = s /\ \A u \in Venues \ {v} : manager'[u] = manager[u]
    BY <1>0, <2>1, <2>2
  <2>6. StatusKept
    BY <2>1, <2>3, <2>4, <2>5 DEF StatusKept
  <2>7. manager'[v][o].status = "submitted"
    BY <2>3, <2>4, <2>5
  <2>8. call'[b].order = call[b].order
    BY <1>0, <2>2, <2>3
  <2> QED
    BY <2>6, <2>7, <2>8
<1>4. RejectLeg(b) \/ UnavailableLeg(b) \/ LegRecorded(b) \/ LegRaises(b) =>
        manager' = manager /\ call[b].pc \in {"walk", "placed", "placing"}
  BY DEF RejectLeg, UnavailableLeg, LegRecorded, LegRaises, AtLeg, memory
<1> QED
  BY <1>1, <1>2, <1>3, <1>4 DEF LegStep, PlacingStep

(* A cancellation that is not refused closes that very leg. *)
LEMMA TradeCloses ==
  ASSUME IInv, Clean, Clean', NEW b \in Baskets, NEW n \in LegsOf(b), leg[b][n].order # 0,
         CancelTrade(b, n)
  PROVE  /\ ~venue'[b][n].open
         /\ \A m \in Legs \ {n} : venue'[b][m] = venue[b][m]
         /\ \A a \in Baskets \ {b} : venue'[a] = venue[a]
         /\ \A v \in Venues : \A o \in DOMAIN manager[v] :
              manager'[v][o] = manager[v][o] \/ manager[v][o].ref = <<b, n>>
<1> DEFINE v == VenueOf[b][n]
           o == leg[b][n].order
<1>0. /\ TypeInv /\ TypeOK /\ n \in Legs /\ v \in Venues
      /\ manager \in [Venues -> Seq(ManagerType)]
      /\ venue \in [Baskets -> [Legs -> [placed : Nat, open : BOOLEAN]]]
  BY LegsTyped, Variables DEF IInv, TypeInv, TypeOK
<1>1. o \in DOMAIN manager[v] /\ manager[v][o].ref = <<b, n>>
  BY <1>0 DEF IInv, OwnInv, OwnLegs, Clean
<1>2. <<b, n>> # None
  BY <1>0, BasketsAssumption
<1>3. ~Fault("refused")
  BY <1>0, FaultsCount DEF Clean
<1>4. /\ manager' = [manager EXCEPT ![v][o].status = "cancelled"]
      /\ venue' = [venue EXCEPT ![b][n].open = FALSE]
  <2> DEFINE r == manager[v][o].ref
  <2>1. \/ o \notin DOMAIN manager[v] \/ r = None
        \/ /\ manager' = [manager EXCEPT ![v][o].status = "cancelled"]
           /\ venue' = [venue EXCEPT ![r[1]][r[2]].open = FALSE]
        \/ Fault("refused")
    BY Zenon DEF CancelTrade
  <2>2. r = <<b, n>> /\ <<b, n>>[1] = b /\ <<b, n>>[2] = n
    BY <1>1
  <2> QED
    BY <1>1, <1>2, <1>3, <2>1, <2>2, Zenon
<1> DEFINE x == [manager[v][o] EXCEPT !.status = "cancelled"]
           s == [manager[v] EXCEPT ![o] = x]
           w == [venue[b][n] EXCEPT !.open = FALSE]
           f == [venue[b] EXCEPT ![n] = w]
<1>5. manager' = [manager EXCEPT ![v] = s] /\ venue' = [venue EXCEPT ![b] = f]
  BY <1>4
<1>6. venue[b] \in [Legs -> [placed : Nat, open : BOOLEAN]]
  BY <1>0
<1>7. ~w.open
  BY <1>0, <1>6
<1> HIDE DEF w, x
<1>8. f[n] = w /\ \A m \in Legs \ {n} : f[m] = venue[b][m]
  BY <1>0, <1>6
<1>9. \A i \in DOMAIN manager[v] : i # o => s[i] = manager[v][i]
  BY <1>0, <1>1
<1> HIDE DEF f, s
<1>10. venue'[b] = f /\ \A a \in Baskets \ {b} : venue'[a] = venue[a]
  BY <1>0, <1>5
<1>11. manager'[v] = s /\ \A u \in Venues \ {v} : manager'[u] = manager[u]
  BY <1>0, <1>5
<1>12. \A u \in Venues : \A i \in DOMAIN manager[u] :
         manager'[u][i] = manager[u][i] \/ manager[u][i].ref = <<b, n>>
  BY <1>1, <1>9, <1>11
<1> QED
  BY <1>7, <1>8, <1>10, <1>12

(* A set of numbers that is not empty has a least one. *)
LEMMA Least ==
  ASSUME NEW S \in SUBSET Nat, S # {}
  PROVE  \E n \in S : \A m \in S : n <= m
<1> DEFINE R == OpToRel(<, Nat)
<1>1. IsWellFoundedOn(R, Nat)
  BY NatLessThanWellFounded
<1>2. \A m, n \in Nat : m < n => <<m, n>> \in R
  BY DEF OpToRel
<1> HIDE DEF R
<1>3. PICK n \in S : \A m \in S : ~(<<m, n>> \in R)
  BY <1>1, WFMin
<1>4. ASSUME NEW m \in S PROVE n <= m
  <2>1. m \in Nat /\ n \in Nat /\ ~(m < n)
    BY <1>2, <1>3
  <2> QED
    BY <2>1
<1> QED
  BY <1>4

LEMMA HeldKept ==
  ASSUME TypeInv, NEW a \in Baskets, Held(a), call'[a] = call[a],
         call[a].pc = "placed" =>
           LET s == manager[VenueOf[a][call[a].n]][call[a].order].status
               t == manager'[VenueOf[a][call[a].n]][call[a].order].status
           IN  t = s \/ t = "submitted"
  PROVE  Held(a)'
  BY DEF Held

LEMMA PlacedNumber ==
  ASSUME TypeInv, NEW a \in Baskets, call[a].pc = "placed"
  PROVE  /\ VenueOf[a][call[a].n] \in Venues /\ call[a].n \in Legs /\ call[a].n \in LegsOf(a)
         /\ call[a].order \in DOMAIN manager[VenueOf[a][call[a].n]]
  BY LegsTyped DEF TypeInv, CallsInv, Procs

LEMMA StatusKeptHeld ==
  ASSUME TypeInv, StatusKept, NEW a \in Baskets, Held(a), call'[a] = call[a]
  PROVE  Held(a)'
  BY PlacedNumber, HeldKept DEF StatusKept

LEMMA CloseStep ==
  ASSUME TypeInv, CloseInv, Clean' => Clean,
         NEW p \in Procs, NEW b \in Baskets, Frame(p, b), p \in Baskets => p = b,
         call[p].basket \in {b, None}, call'[p].basket \in {b, None},
         Clean' => \A a \in Baskets \ {b} : venue'[a] = venue[a] /\ (Held(a) => Held(a)'),
         Clean' => CloseOf(b)'
  PROVE  CloseInv'
<1> SUFFICES ASSUME Clean', NEW a \in Baskets, a # b PROVE CloseOf(a)'
  BY DEF CloseInv
<1>1. /\ CloseOf(a) /\ call'[a] = call[a] /\ venue'[a] = venue[a] /\ leg'[a] = leg[a]
      /\ status'[a] = status[a] /\ past'[a] = past[a]
  BY DEF CloseInv, Frame, Procs
<1>2. ~Works(p, a) /\ ~Works(p, a)'
  BY BasketsAssumption DEF Works
<1>3. \A q \in Procs : q # p => call'[q] = call[q]
  BY DEF Frame
<1>4. \A q \in Procs : Works(q, a)' <=> Works(q, a)
  BY <1>2, <1>3 DEF Works
<1>5. Numbered(a)' /\ Held(a)'
  BY <1>1 DEF CloseOf, Numbered
<1>6. Submitting(a) => Submitting(a)'
  BY <1>1 DEF Submitting
<1>7. Resting(a) => Resting(a)'
  BY <1>1, <1>4 DEF Resting, AllShut
<1>8. ASSUME NEW c \in Cancellers, Closing(c, a) PROVE Closing(c, a)'
  <2>1. c \in Procs
    BY DEF Procs
  <2>2. CASE c = p
    BY <1>2, <2>2 DEF Closing
  <2>3. CASE c # p
    BY <1>1, <1>3, <1>4, <1>8, <2>1, <2>3 DEF Closing, Shut, AllShut
  <2> QED
    BY <2>2, <2>3
<1> QED
  BY <1>1, <1>5, <1>6, <1>7, <1>8 DEF CloseOf

(* While a call of submit_basket works alone, no cancellation does. *)
LEMMA OneWorks ==
  ASSUME TypeInv, BornInv, NEW b \in Baskets, past[b] = "alone", call[b].pc # "idle"
  PROVE  /\ \A c \in Cancellers : ~Works(c, b)
         /\ \A q \in Procs : Works(q, b) => q = b
<1>1. Works(b, b) /\ b \in Procs /\ Cancellers \subseteq Procs
  BY DEF Works, TypeInv, CallsInv, Procs
<1> QED
  BY <1>1, BasketsAssumption DEF BornInv, Alone

LEMMA CloseSubmit ==
  ASSUME IInv, BornInv, CloseInv, Clean' => Clean, NEW b \in Baskets, SubmitBasket(b)
  PROVE  CloseInv'
<1>0. TypeInv /\ b \in Procs /\ Cancellers \subseteq Procs
  BY Variables DEF IInv
<1>1. /\ Frame(b, b) /\ past[b] = "unborn" /\ status'[b] = "submitting"
      /\ call'[b].pc = "save" /\ call'[b].basket = b /\ UNCHANGED <<leg, manager, venue>>
  BY <1>0, SubmitEffect
<1>2. leg[b] = FreshLegs /\ call[b].basket = None /\ \A q \in Procs : ~Works(q, b)
  BY <1>0, <1>1, NoneWorks DEF BornInv, Unborn, CallsKnown, Works, TypeInv, CallsInv
<1>3. call[b].pc = "idle"
  BY <1>0, <1>2, BasketsAssumption DEF TypeInv, CallsInv
<1>4. \A c \in Cancellers : ~Works(c, b)'
  BY <1>0, <1>1, <1>2, BasketsAssumption DEF Works, Frame
<1>5. Clean' => CloseOf(b)'
  BY <1>1, <1>2, <1>3, <1>4
     DEF CloseInv, CloseOf, Numbered, Held, Submitting, Resting, Closing, FreshLegs, Fresh
<1>6. \A a \in Baskets \ {b} : venue'[a] = venue[a] /\ (Held(a) => Held(a)')
  BY <1>1 DEF Frame, Held, Procs
<1> QED
  BY <1>0, <1>1, <1>2, <1>5, <1>6, CloseStep

LEMMA PlacedElsewhere ==
  ASSUME TypeInv, NEW b \in Baskets, NEW n \in Legs, venue' = venue \/ venue' = Placed(b, n)
  PROVE  /\ \A a \in Baskets \ {b} : venue'[a] = venue[a]
         /\ \A m \in Legs \ {n} : venue'[b][m] = venue[b][m]
<1>1. CASE venue' = Placed(b, n)
  <2> DEFINE f == [venue[b] EXCEPT ![n] = [placed |-> @.placed + 1, open |-> TRUE]]
  <2>1. venue \in [Baskets -> [Legs -> [placed : Nat, open : BOOLEAN]]]
    BY DEF TypeInv, TypeOK
  <2>2. venue' = [venue EXCEPT ![b] = f]
    BY <1>1 DEF Placed
  <2>3. \A m \in Legs \ {n} : f[m] = venue[b][m]
    BY <2>1
  <2> HIDE DEF f
  <2> QED
    BY <2>1, <2>2, <2>3
<1> QED
  BY <1>1

LEMMA CloseLeg ==
  ASSUME IInv, BornInv, FreshInv, CloseInv, Clean' => Clean, NEW b \in Baskets, LegStep(b)
  PROVE  CloseInv'
<1>0. TypeInv /\ b \in Procs /\ Cancellers \subseteq Procs /\ call[b].n \in Nat
      /\ \A m \in Legs : m \in Nat
  BY Variables, CallFields, LegsAreNumbers DEF IInv, TypeInv
<1>1. /\ Frame(b, b) /\ call[b].basket = b /\ call[b].n \in Legs
      /\ UNCHANGED <<status, past>>
      /\ call'[b].pc = "leg" /\ call'[b].basket = b
      /\ leg'[b][call[b].n] = call'[b].leg
      /\ \A m \in Legs \ {call[b].n} : leg'[b][m] = leg[b][m]
      /\ \/ /\ call[b].pc = "walk" /\ venue' = venue
            /\ call'[b].leg.order = 0 /\ call'[b].leg.status # "cancelled"
         \/ /\ call[b].pc = "walk" /\ venue' = Placed(b, call[b].n)
            /\ call'[b].leg.order # 0 /\ call'[b].leg.status = "submitted"
         \/ /\ call[b].pc = "placed" /\ venue' = venue
            /\ call'[b].leg.order # 0
            /\ call'[b].leg.status = manager[VenueOf[b][call[b].n]][call[b].order].status
  BY <1>0, LegEffect DEF LegStep
<1>2. leg[b][call[b].n].order = 0
  BY <1>0, <1>1 DEF FreshInv, FreshOf, FreshFrom, Fresh
<1>3. /\ \A a \in Baskets \ {b} : venue'[a] = venue[a]
      /\ \A m \in Legs \ {call[b].n} : venue'[b][m] = venue[b][m]
  BY <1>0, <1>1, PlacedElsewhere
<1>4. ASSUME Clean' PROVE CloseOf(b)'
  <2>1. CloseOf(b)
    BY <1>4 DEF CloseInv
  <2>2. Numbered(b)'
    <3>1. ASSUME NEW m \in Legs, m # call[b].n, venue'[b][m].open PROVE leg'[b][m].order # 0
      BY <1>1, <1>3, <2>1, <3>1 DEF CloseOf, Numbered
    <3>2. ASSUME venue'[b][call[b].n].open PROVE leg'[b][call[b].n].order # 0
      <4>1. CASE venue' = venue /\ call[b].pc = "walk"
        BY <1>1, <1>2, <2>1, <3>2, <4>1 DEF CloseOf, Numbered
      <4>2. CASE call'[b].leg.order # 0
        BY <1>1, <4>2
      <4> QED
        BY <1>1, <4>1, <4>2
    <3> QED
      BY <3>1, <3>2 DEF Numbered
  <2>3. call'[b].leg.status # "cancelled"
    BY <1>1, <2>1 DEF CloseOf, Held
  <2>4. past[b] = "alone" => Submitting(b)'
    BY <1>1, <2>1, <2>3 DEF CloseOf, Submitting
  <2>5. Resting(b)'
    BY <1>0, <1>1 DEF Resting, Works
  <2>6. past[b] = "alone" => \A c \in Cancellers : Closing(c, b)'
    BY <1>0, <1>1, OneWorks, BasketsAssumption DEF Closing, Works, Frame
  <2> QED
    BY <1>1, <2>2, <2>4, <2>5, <2>6 DEF CloseOf, Held
<1>5. \A a \in Baskets \ {b} : call'[a] = call[a] /\ (Held(a) => Held(a)')
  BY <1>0, <1>1, StatusesKept, StatusKeptHeld DEF Frame, Procs
<1> QED
  BY <1>0, <1>1, <1>3, <1>4, <1>5, CloseStep

LEMMA ClosePlacing ==
  ASSUME IInv, BornInv, FreshInv, CloseInv, NEW b \in Baskets, Clean' => Clean /\ ~LegRaises(b),
         PlacingStep(b)
  PROVE  CloseInv'
<1>0. TypeInv /\ b \in Procs /\ Cancellers \subseteq Procs
  BY Variables DEF IInv
<1>1. CASE LegRaises(b)
  BY <1>1 DEF CloseInv
<1>2. CASE LiveLegStarts(b) \/ LegAccepted(b)
  <2>1. /\ Frame(b, b) /\ call[b].n \in Legs /\ call[b].basket = b /\ call'[b].basket = b
        /\ UNCHANGED <<status, leg, past>> /\ call[b].pc \in {"walk", "placing"}
        /\ call'[b].n = call[b].n
        /\ \/ call'[b].pc = "placing" /\ venue' = venue
           \/ call'[b].pc = "placed" /\ venue' = Placed(b, call[b].n) /\ LegAccepted(b)
    <3>1. call[b] \in CallType
      BY <1>0, Variables
    <3>2. CASE LiveLegStarts(b)
      <4>1. call[b].pc = "walk"
        BY <3>2 DEF LiveLegStarts, AtLeg
      <4> QED
        BY <1>0, <3>2, <4>1, PlacingEffect
    <3>3. CASE LegAccepted(b)
      <4>1. call[b].pc = "placing" /\ call'[b] = [call[b] EXCEPT !.pc = "placed"]
        BY <1>0, <3>3, Variables DEF LegAccepted
      <4>2. call'[b].pc = "placed"
        BY <3>1, <4>1 DEF CallType
      <4> QED
        BY <1>0, <3>3, <4>1, <4>2, PlacingEffect, IdleFields
    <3> QED
      BY <1>2, <3>2, <3>3
  <2>2. /\ \A a \in Baskets \ {b} : venue'[a] = venue[a]
        /\ \A m \in Legs \ {call[b].n} : venue'[b][m] = venue[b][m]
    BY <1>0, <2>1, PlacedElsewhere
  <2>3. ASSUME Clean' PROVE CloseOf(b)'
    <3>1. CloseOf(b)
      BY <2>3 DEF CloseInv
    <3>2. Numbered(b)'
      BY <2>1, <2>2, <3>1 DEF CloseOf, Numbered
    <3>3. Held(b)'
      <4> SUFFICES ASSUME call'[b].pc = "placed"
                   PROVE  manager'[VenueOf[b][call'[b].n]][call'[b].order].status = "submitted"
        BY DEF Held
      <4> QED
        BY <1>0, <2>1, StatusesKept DEF PlacingStep
    <3>4. past[b] = "alone" => Submitting(b)'
      BY <2>1, <3>1 DEF CloseOf, Submitting
    <3>5. Resting(b)'
      BY <1>0, <2>1 DEF Resting, Works
    <3>6. past[b] = "alone" => \A c \in Cancellers : Closing(c, b)'
      BY <1>0, <2>1, OneWorks, BasketsAssumption DEF Closing, Works, Frame
    <3> QED
      BY <2>1, <3>2, <3>3, <3>4, <3>5, <3>6 DEF CloseOf
  <2>4. \A a \in Baskets \ {b} : Held(a) => Held(a)'
    BY <1>0, <2>1, StatusesKept, StatusKeptHeld DEF Frame, Procs
  <2> QED
    BY <1>0, <2>1, <2>2, <2>3, <2>4, CloseStep
<1> QED
  BY <1>1, <1>2 DEF PlacingStep

LEMMA CloseFinish ==
  ASSUME IInv, BornInv, CloseInv, Clean' => Clean, NEW b \in Baskets, Finish(b)
  PROVE  CloseInv'
<1>0. TypeInv /\ b \in Procs /\ Cancellers \subseteq Procs
  BY Variables DEF IInv
<1>1. /\ Frame(b, b) /\ call[b].pc = "walk" /\ call[b].basket = b
      /\ call'[b].pc = "status" /\ call'[b].basket = b /\ status'[b] = Derive(b)
      /\ UNCHANGED <<leg, manager, venue, past>>
  BY <1>0, FinishEffect
<1>2. ASSUME Clean' PROVE CloseOf(b)'
  <2>1. CloseOf(b)
    BY <1>2 DEF CloseInv
  <2>2. Numbered(b)' /\ Held(b)'
    BY <1>1, <2>1 DEF CloseOf, Numbered, Held
  <2>3. past[b] = "alone" => Submitting(b)'
    <3>2. (\A n \in Legs : leg[b][n].status # "cancelled") => Derive(b) # "cancelled"
      BY LegsTyped DEF Derive
    <3> QED
      BY <1>1, <2>1, <3>2 DEF CloseOf, Submitting
  <2>4. Resting(b)'
    BY <1>0, <1>1 DEF Resting, Works
  <2>5. past[b] = "alone" => \A c \in Cancellers : Closing(c, b)'
    BY <1>0, <1>1, OneWorks, BasketsAssumption DEF Closing, Works, Frame
  <2> QED
    BY <1>1, <2>2, <2>3, <2>4, <2>5 DEF CloseOf
<1>3. \A a \in Baskets \ {b} : venue'[a] = venue[a] /\ (Held(a) => Held(a)')
  BY <1>1 DEF Frame, Held, Procs
<1> QED
  BY <1>0, <1>1, <1>2, <1>3, CloseStep

(* The legs without a number that a cancellation alone on its basket walks *)
(* past have no open order, nor has one behind it.                         *)
LEMMA Passed ==
  ASSUME IInv, BornInv, CloseInv, Clean, NEW c \in Cancellers, NEW b \in Baskets,
         NEW from \in Nat, Cancels(c, b, from), past'[b] = "alone"
  PROVE  /\ from >= 1 /\ call[b].pc = "idle" /\ \A q \in Procs : Works(q, b) => q = c
         /\ \A m \in Legs : m < from \/ leg[b][m].order = 0 => ~venue[b][m].open
<1>0. /\ TypeInv /\ c \in Procs /\ b \in Procs /\ b # c /\ b # None
      /\ \A m \in Legs : m \in Nat /\ m >= 1
  BY Variables, BasketsAssumption, LegsAreNumbers DEF IInv
<1>1. /\ past[b] = "alone" /\ \A q \in Procs : Works(q, b) => q = c
      /\ \/ call[c].pc = "idle" /\ from = 1
         \/ call[c].pc = "walk" /\ from = call[c].n /\ Works(c, b)
  BY DEF Cancels, Works
<1>2. call[b].pc = "idle"
  BY <1>0, <1>1 DEF TypeInv, CallsInv, Works
<1>3. CloseOf(b)
  BY DEF CloseInv
<1>4. \A m \in Legs : leg[b][m].order = 0 => ~venue[b][m].open
  BY <1>2, <1>3 DEF CloseOf, Numbered
<1>5. from >= 1 /\ \A m \in Legs : m < from => ~venue[b][m].open
  BY <1>0, <1>1, <1>3 DEF CloseOf, Closing, Shut
<1> QED
  BY <1>1, <1>2, <1>4, <1>5

(* No cancellation cancels the order that submit_basket is about to note. *)
LEMMA TradeKeepsHeld ==
  ASSUME IInv, FreshInv, Clean, Clean', NEW b \in Baskets, NEW n \in LegsOf(b),
         leg[b][n].order # 0, CancelTrade(b, n),
         NEW a \in Baskets, Held(a), call'[a] = call[a]
  PROVE  Held(a)'
<1>0. TypeInv /\ call[a].n \in Nat
  BY Variables, CallFields DEF IInv, TypeInv
<1> SUFFICES ASSUME call[a].pc = "placed" PROVE Held(a)'
  BY DEF Held
<1>1. /\ VenueOf[a][call[a].n] \in Venues /\ call[a].n \in Legs
      /\ call[a].order \in DOMAIN manager[VenueOf[a][call[a].n]]
  BY <1>0, PlacedNumber
<1>2. manager[VenueOf[a][call[a].n]][call[a].order].ref = <<a, call[a].n>>
  BY DEF IInv, OwnInv, OwnCalls, Clean
<1>3. leg[a][call[a].n].order = 0
  BY <1>0, <1>1 DEF FreshInv, FreshOf, FreshFrom, Fresh
<1>4. <<a, call[a].n>> # <<b, n>>
  BY <1>3
<1>5. manager'[VenueOf[a][call[a].n]][call[a].order] = manager[VenueOf[a][call[a].n]][call[a].order]
  BY <1>1, <1>2, <1>4, TradeCloses
<1> QED
  BY <1>0, <1>5, HeldKept

LEMMA CancelsRest ==
  ASSUME TypeInv, NEW c \in Cancellers, NEW b \in Baskets, Frame(c, b),
         call'[c].basket = b, call'[c].pc # "idle", call[b].pc = "idle",
         \A q \in Procs : Works(q, b) => q = c, Closing(c, b)'
  PROVE  (Submitting(b) /\ Resting(b) /\ \A d \in Cancellers : Closing(d, b))'
<1>1. c \in Procs /\ b \in Procs /\ b # c /\ Cancellers \subseteq Procs
  BY BasketsAssumption DEF Procs
<1>2. Submitting(b)'
  BY <1>1 DEF Frame, Submitting
<1>3. Resting(b)'
  BY <1>1 DEF Resting, Works
<1>4. ASSUME NEW d \in Cancellers PROVE Closing(d, b)'
  <2>1. CASE d = c
    BY <2>1
  <2>2. CASE d # c
    BY <1>1, <2>2 DEF Frame, Works, Closing
  <2> QED
    BY <2>1, <2>2
<1> QED
  BY <1>2, <1>3, <1>4

LEMMA CloseCancel ==
  ASSUME IInv, BornInv, FreshInv, CloseInv, Clean' => Clean,
         NEW c \in Cancellers, NEW b \in Baskets, NEW from \in Nat, Cancels(c, b, from)
  PROVE  CloseInv'
<1>0. /\ TypeInv /\ OrdersInv /\ c \in Procs /\ b \in Procs /\ c \notin Baskets
      /\ \A m \in Legs : m \in Nat /\ m >= 1
  BY Variables, RealOrders, BasketsAssumption, LegsAreNumbers DEF IInv
<1>1. /\ Frame(c, b) /\ call'[c].basket = b /\ call'[c].pc \in {"leg", "status"}
      /\ (\E n \in Legs : CancelsLeg(c, b, from, n)) \/ CancelsBasket(c, b, from)
      /\ call[c].basket \in {b, None} /\ call'[b] = call[b]
  BY <1>0, CancelMoves DEF Cancels, Frame, BornInv, CallsKnown
<1>2. ASSUME NEW n \in Legs, CancelsLeg(c, b, from, n), Clean', Clean
      PROVE  /\ \A a \in Baskets \ {b} : venue'[a] = venue[a] /\ (Held(a) => Held(a)')
             /\ CloseOf(b)'
  <2>1. /\ n \in NextOrder(b, from) /\ n \in LegsOf(b) /\ leg[b][n].order # 0
        /\ CancelTrade(b, n) /\ call'[c].pc = "leg" /\ call'[c].n = n
        /\ leg'[b][n].order = leg[b][n].order
        /\ \A m \in Legs \ {n} : leg'[b][m] = leg[b][m]
    BY <1>2 DEF CancelsLeg
  <2>2. /\ ~venue'[b][n].open
        /\ \A m \in Legs \ {n} : venue'[b][m] = venue[b][m]
        /\ \A a \in Baskets \ {b} : venue'[a] = venue[a]
    BY <1>2, <2>1, TradeCloses
  <2>3. CloseOf(b) /\ \A a \in Baskets : Held(a) /\ call'[a] = call[a] => Held(a)'
    BY <1>2, <2>1, TradeKeepsHeld DEF CloseInv
  <2>4. \A a \in Baskets : call'[a] = call[a]
    BY <1>0, <1>1 DEF Frame, Procs
  <2>5. Numbered(b)'
    BY <1>1, <2>1, <2>2, <2>3 DEF CloseOf, Numbered
  <2>6. ASSUME past'[b] = "alone"
        PROVE  (Submitting(b) /\ Resting(b) /\ \A d \in Cancellers : Closing(d, b))'
    <3>1. /\ from >= 1 /\ call[b].pc = "idle" /\ \A q \in Procs : Works(q, b) => q = c
          /\ \A m \in Legs : m < from \/ leg[b][m].order = 0 => ~venue[b][m].open
      BY <1>2, <2>6, Passed
    <3>2. \A m \in Legs : m < n => m < from \/ leg[b][m].order = 0
      BY <1>0, <2>1 DEF NextOrder
    <3>3. \A m \in Legs : m < n + 1 => ~venue'[b][m].open
      BY <1>0, <2>2, <3>1, <3>2
    <3>4. Closing(c, b)'
      BY <2>1, <3>3 DEF Closing, Shut
    <3> QED
      BY <1>0, <1>1, <3>1, <3>4, CancelsRest
  <2> QED
    BY <2>2, <2>3, <2>4, <2>5, <2>6 DEF CloseOf
<1>3. ASSUME CancelsBasket(c, b, from), Clean', Clean
      PROVE  /\ \A a \in Baskets \ {b} : venue'[a] = venue[a] /\ (Held(a) => Held(a)')
             /\ CloseOf(b)'
  <2>1. /\ NextOrder(b, from) = {} /\ call'[c].pc = "status"
        /\ UNCHANGED <<leg, manager, venue>>
    BY <1>3 DEF CancelsBasket
  <2>2. \A a \in Baskets : call'[a] = call[a]
    BY <1>0, <1>1 DEF Frame, Procs
  <2>3. CloseOf(b) /\ \A a \in Baskets : Held(a) => Held(a)'
    BY <1>3, <2>1, <2>2 DEF CloseInv, Held
  <2>4. Numbered(b)'
    BY <1>1, <2>1, <2>3 DEF CloseOf, Numbered
  <2>5. ASSUME past'[b] = "alone"
        PROVE  (Submitting(b) /\ Resting(b) /\ \A d \in Cancellers : Closing(d, b))'
    <3>1. /\ from >= 1 /\ call[b].pc = "idle" /\ \A q \in Procs : Works(q, b) => q = c
          /\ \A m \in Legs : m < from \/ leg[b][m].order = 0 => ~venue[b][m].open
      BY <1>3, <2>5, Passed
    <3>2. \A m \in Legs : m < from \/ leg[b][m].order = 0
      <4> DEFINE S == {m \in Legs : m >= from /\ leg[b][m].order # 0}
      <4>1. ASSUME S # {} PROVE FALSE
        <5>1. S \in SUBSET Nat
          BY <1>0
        <5>2. PICK n \in S : \A m \in S : n <= m
          BY <4>1, <5>1, Least
        <5>3. \A m \in from..(n - 1) : m \in Legs
          BY <3>1, <5>2, VenuesAssumption DEF Legs
        <5>4. n \in NextOrder(b, from)
          BY <1>0, <5>2, <5>3 DEF NextOrder
        <5> QED
          BY <2>1, <5>4
      <4> QED
        BY <1>0, <4>1
    <3>3. AllShut(b)'
      BY <2>1, <3>1, <3>2 DEF AllShut
    <3>4. Closing(c, b)'
      BY <2>1, <3>3 DEF Closing
    <3> QED
      BY <1>0, <1>1, <3>1, <3>4, CancelsRest
  <2> QED
    BY <2>1, <2>3, <2>4, <2>5 DEF CloseOf
<1> QED
  BY <1>0, <1>1, <1>2, <1>3, CloseStep

LEMMA CloseWrite ==
  ASSUME IInv, BornInv, CloseInv, Clean' => Clean, NEW p \in Procs, WriteStep(p)
  PROVE  CloseInv'
<1>0. TypeInv /\ Cancellers \subseteq Procs /\ Baskets \subseteq Procs
  BY Variables DEF IInv
<1>1. PICK b \in Baskets : b = call[p].basket
  BY <1>0, WriteEffect DEF WriteStep
<1>2. /\ Frame(p, b) /\ UNCHANGED <<status, leg, manager, venue, past>>
      /\ call[p].pc \in {"save", "leg", "status"} /\ Works(p, b)
      /\ call[p].pc = "status" => call'[p].pc = "idle" /\ call'[p].basket = None
      /\ call[p].pc # "status" => /\ call'[p].pc = "walk" /\ call'[p].basket = b
                                  /\ call'[p].n = call[p].n + 1
  BY <1>0, <1>1, WriteEffect, IdleFields DEF WriteStep, memory, Works
<1>3. p \in Baskets => p = b
  BY <1>0, <1>1, <1>2 DEF TypeInv, CallsInv
<1>4. /\ p \in Cancellers => call[p].pc # "save"
      /\ p \in Baskets \/ p \in Cancellers
  BY <1>0 DEF TypeInv, CallsInv, Procs
<1>5. ASSUME Clean' PROVE CloseOf(b)'
  <2>1. CloseOf(b)
    BY <1>5 DEF CloseInv
  <2>2. Numbered(b)' /\ Held(b)'
    <3>1. CASE p = b
      BY <1>2, <2>1, <3>1 DEF CloseOf, Numbered, Held
    <3>2. CASE p # b
      BY <1>0, <1>2, <2>1, <3>2 DEF CloseOf, Numbered, Held, Frame
    <3> QED
      BY <3>1, <3>2
  <2>3. ASSUME past[b] = "alone"
        PROVE  Submitting(b)' /\ Resting(b)' /\ \A c \in Cancellers : Closing(c, b)'
    <3>1. \A q \in Procs : Works(q, b) => q = p
      BY <1>0, <1>2, <2>3, AloneWorks
    <3>2. \A q \in Procs : q # p => call'[q] = call[q] /\ ~Works(q, b)'
      BY <1>2, <3>1 DEF Frame, Works
    <3>3. Submitting(b)'
      <4>1. CASE p = b
        BY <1>2, <2>1, <2>3, <4>1 DEF CloseOf, Submitting
      <4>2. CASE p # b
        BY <1>0, <1>2, <2>1, <2>3, <3>2, <4>2 DEF CloseOf, Submitting
      <4> QED
        BY <4>1, <4>2
    <3>4. Resting(b)'
      <4> SUFFICES ASSUME status[b] = "cancelled", call[p].pc = "status" PROVE AllShut(b)'
        BY <1>2 DEF Resting, Works
      <4>1. p \notin Baskets
        BY <1>2, <1>3, <2>1, <2>3 DEF CloseOf, Submitting
      <4>2. AllShut(b)
        BY <1>2, <1>4, <2>1, <2>3, <4>1 DEF CloseOf, Closing
      <4> QED
        BY <1>2, <4>2 DEF AllShut
    <3>5. ASSUME NEW c \in Cancellers PROVE Closing(c, b)'
      <4>1. CASE c # p
        BY <1>0, <3>2, <4>1 DEF Closing
      <4>2. CASE c = p
        <5>1. Closing(c, b)
          BY <2>1, <2>3 DEF CloseOf
        <5> QED
          BY <1>0, <1>2, <1>4, <4>2, <5>1, BasketsAssumption, LegsAreNumbers
             DEF Closing, Works, Shut, TypeInv, CallsInv
      <4> QED
        BY <4>1, <4>2
    <3> QED
      BY <3>3, <3>4, <3>5
  <2> QED
    BY <1>2, <2>2, <2>3 DEF CloseOf
<1>6. \A a \in Baskets \ {b} : venue'[a] = venue[a] /\ (Held(a) => Held(a)')
  <2>1. ASSUME NEW a \in Baskets \ {b} PROVE call'[a] = call[a]
    BY <1>0, <1>2, <1>3, <2>1 DEF Frame
  <2> QED
    BY <1>2, <2>1 DEF Held
<1> QED
  BY <1>0, <1>1, <1>2, <1>3, <1>5, <1>6, CloseStep

LEMMA CloseNext == ASSUME IInv, BornInv, FreshInv, CloseInv, [Next]_vars PROVE CloseInv'
<1>1. SUFFICES ASSUME Clean' PROVE CloseInv'
  BY DEF CloseInv
<1>2. Clean /\ ~Crash /\ ~Restore /\ ~RestoreFails /\ \A b \in Baskets : ~LegRaises(b)
  BY <1>1, StaysClean
<1>3. CASE UNCHANGED vars
  BY <1>2, <1>3 DEF vars, memory, CloseInv, CloseOf, Numbered, Held, Submitting, Resting,
     Closing, Works, Shut, AllShut
<1> QED
  BY <1>2, <1>3, CloseSubmit, CloseLeg, ClosePlacing, CloseFinish, CloseCancel, CloseWrite, Kinds

(* When a cancelled basket comes to rest none of its orders is open:       *)
(* whatever calls of other baskets and whatever lost write come between,   *)
(* provided that no crash, refusal or exception has lost an order and that *)
(* no two calls have overlapped on the basket.                             *)
THEOREM CancellationCloses == Spec => []CancelledIsClosed
<1>1. Init => CloseInv
  <2> SUFFICES ASSUME Init PROVE CloseInv
    OBVIOUS
  <2>1. \A p \in Procs : call[p].pc = "idle"
    BY IdleFields DEF Init
  <2>2. \A b \in Baskets : status[b] = "absent" /\ \A n \in Legs : ~venue[b][n].open
    BY DEF Init
  <2> QED
    BY <2>1, <2>2, ConstantsTyped
       DEF CloseInv, CloseOf, Numbered, Held, Submitting, Resting, Closing
<1>2. IInv /\ BornInv /\ FreshInv /\ CloseInv /\ [Next]_vars => CloseInv'
  BY CloseNext
<1>3. CloseInv => CancelledIsClosed
  BY DEF CloseInv, CloseOf, Resting, AllShut, CancelledIsClosed, Clean, AtRest, InFlight, Works
<1> QED
  BY <1>1, <1>2, <1>3, BornInvariance, FreshInvariance, PTL DEF Spec
=============================================================================
