--------------------- MODULE ApplicationActivationProofs ---------------------
(***************************************************************************)
(* Proofs about the activation of applications, for any number of          *)
(* activations, deactivations, processes, requests and faults.             *)
(*                                                                         *)
(* The invariant says what the rows guarantee (one active mutation, epochs *)
(* that tell claims apart), how what runs, is routed and is active fits    *)
(* them, and what a process knows at each place of its way.  A process     *)
(* that lost its claim knows little, but may still be about an effect.     *)
(* The lemmas come in three layers: what stays true of a process when      *)
(* others move, what each kind of step leaves to the others (Frame...),    *)
(* and what each action preserves (...Keeps).                              *)
(***************************************************************************)
EXTENDS ApplicationActivation, FiniteSetTheorems, TLAPS

-----------------------------------------------------------------------------
(* Where a process is on its way.  Early: it has claimed its mutation and   *)
(* has not begun the effects.  Late: it has.                                *)
EarlyA == {"read", "prepared", "check", "transitioning"}
EarlyD == {"dRead", "dPrepared"}
Early  == EarlyA \cup EarlyD

LateA == {"enterSwitch", "stopOld", "startNew", "started", "ready", "healthy", "enterRoute",
          "routeNew", "routed", "enterWrite", "writeActive", "verifyIn", "committed"}
LateD == {"enterStop", "stop", "stopped", "enterUnroute", "unroute", "clear", "unrouted",
          "enterRetire", "retire", "verifyGone", "retired"}
Late  == LateA \cup LateD \cup {"success"}

(* It still has something to change in what runs, is routed or is active.   *)
Effects == {"enterSwitch", "stopOld", "startNew", "started", "ready", "healthy", "enterRoute",
            "routeNew", "routed", "enterWrite", "writeActive",
            "enterStop", "stop", "stopped", "enterUnroute", "unroute", "clear"}

Claims == Early \cup Late \cup {"failClean", "failUnknown", "recFail"}

(* The checkpoint of mutation m while its process is late.                  *)
PhaseAt(m, place, phase) ==
    /\ place \in {"enterSwitch", "stopOld", "startNew", "started"} => phase = "transitioning"
    /\ place \in {"ready", "healthy"} => phase = "started"
    /\ place \in {"enterRoute", "routeNew", "routed"} => phase = "healthy"
    /\ place \in {"enterWrite", "writeActive", "verifyIn", "committed"} => phase = "routed"
    /\ place \in {"enterStop", "stop", "stopped"} => phase = "prepared"
    /\ place \in {"enterUnroute", "unroute", "clear", "unrouted"} => phase = "stopped"
    /\ place \in {"enterRetire", "retire", "verifyGone", "retired"} => phase = "unrouted"
    /\ place = "success" => phase = IF m \in Activations THEN "committed" ELSE "retired"

EarlyPhases(m) == IF m \in Activations THEN {"none", "prepared"} ELSE {"none"}

(* What serves when nothing is under way.                                   *)
Steady == running = (IF active = None THEN {} ELSE {active}) /\ route = active

(* What runs, is routed and is active while the process of mutation m, that *)
(* replaces or removes e, is at a place.                                    *)
WorldAt(m, e, place) ==
    /\ place \in {"enterSwitch", "stopOld"} => Steady /\ active = e
    /\ place = "startNew" => running = {} /\ active = e
    /\ place \in {"started", "ready", "healthy", "enterRoute", "routeNew"} =>
          running = {m} /\ active = e
    /\ place \in {"routed", "enterWrite", "writeActive"} =>
          running = {m} /\ route = m /\ active = e
    /\ place \in {"verifyIn", "committed"} \/ (place = "success" /\ m \in Activations) =>
          running = {m} /\ route = m /\ active = m
    /\ place \in {"enterStop", "stop"} => running = {e} /\ route = e /\ active = e
    /\ place \in {"stopped", "enterUnroute", "unroute"} =>
          running = {} /\ route = e /\ active = e
    /\ place = "clear" => running = {} /\ route = None /\ active = e
    /\ \/ place \in {"unrouted", "enterRetire", "retire", "verifyGone", "retired"}
       \/ place = "success" /\ m \notin Activations
       => running = {} /\ route = None /\ active = None

-----------------------------------------------------------------------------
(* The rows: one mutation at a time, and what its row says of the world.    *)
RowsOK ==
    /\ \A m \in Mutations :
          /\ row[m].status = "absent" => row[m] = NoRow
          /\ row[m].epoch <= faults + 1
          /\ row[m].status = "running" /\ ~row[m].live => row[m].epoch <= faults
          /\ m \in Deactivations /\ row[m].status # "absent" => row[m].about \in Activations
          /\ row[m].phase \in EarlyPhases(m) => starts[m] = 0
          /\ starts[m] <= 1
    /\ \A m, n \in Mutations : ActiveRow(m) /\ ActiveRow(n) => m = n

WorldOK ==
    /\ \E x : running \subseteq {x}
    /\ (\A m \in Mutations : ~ActiveRow(m)) => Steady
    /\ \A m \in Mutations : ActiveRow(m) /\ row[m].phase \in EarlyPhases(m) => Steady
    /\ \A d \in Deactivations : ActiveRow(d) /\ row[d].phase # "none" =>
          running \subseteq {row[d].about} /\ route \in {row[d].about, None}
    /\ active # None => row[active].status # "absent"
    /\ intact => \A a \in Activations \ hasty : alloc[a] = "retired" =>
          row[a].status \in Terminal /\ a \notin running /\ route # a /\ active # a

(* A claim that nobody has taken over since.                                *)
Current(p) == req[p].epoch = Me(p).epoch

(* What a process knows at each place: about its request,                   *)
AskedOK(p, place) ==
    /\ place \in {"allocate", "begin"} \cup EarlyA \cup LateA =>
          req[p].m \in Activations /\ req[p].about # req[p].m
    /\ place \in {"verify", "recRead", "recClaim", "recFail", "observe", "recover", "confirm"} =>
          req[p].m \in Activations
    /\ place \in {"dBegin", "dRecover", "gone"} \cup EarlyD \cup LateD =>
          req[p].m \in Deactivations /\ req[p].about \in Activations
    /\ place \in Claims => req[p].m \in Mutations
    /\ place \in {"rRead", "rVerify", "rCommit"} => req[p].about \in Activations

(* about the mutation that it has claimed,                                  *)
ClaimOK(p, place) ==
    /\ place \in Claims =>
          /\ Me(p).status # "absent" /\ Me(p).about = req[p].about
          /\ req[p].epoch <= Me(p).epoch
    /\ place \in Early /\ Current(p) =>
          Me(p).status = "running" /\ Me(p).phase \in EarlyPhases(req[p].m)
    /\ place \in {"transitioning", "dPrepared"} /\ Current(p) => active = req[p].about
    /\ place = "failClean" /\ Current(p) => Me(p).status = "running" /\ Steady

(* about the effects,                                                       *)
LateOK(p, place) ==
    /\ place \in Late => PhaseAt(req[p].m, place, Me(p).phase)
    /\ place \in Late /\ ActiveRow(req[p].m) => WorldAt(req[p].m, req[p].about, place)
    /\ place \in Effects => ActiveRow(req[p].m)
    /\ place \in {"enterSwitch", "stopOld", "startNew", "enterStop", "stop"} =>
          starts[req[p].m] = 0
    /\ place \in LateD => row[req[p].about].status \in Terminal
    /\ place \in Inside /\ intact =>
          held[req[p].m] = p /\ Me(p).status = "running" /\ Current(p)

(* and about what it has observed.                                          *)
SeenOK(p, place) ==
    /\ place \in {"verify", "confirm", "gone"} => Me(p).status = "succeeded"
    /\ place \in {"recClaim", "recFail", "observe", "recover"} => Me(p).phase \in Recoverable
    /\ place \in {"observe", "recover", "dRecover"} =>
          Me(p).status \in {"succeeded", "outcome_unknown"}
    /\ place = "observe" /\ ~req[p].unknown => Me(p).status = "succeeded"
    /\ place = "recover" /\ Me(p).status = "outcome_unknown" => Serves(req[p].m)
    /\ place = "dRecover" =>
          /\ Me(p).phase \in {"unrouted", "retired"} /\ Me(p).about = req[p].about
          /\ Me(p).status = "outcome_unknown" => Gone(req[p].about)
    /\ place \in {"rVerify", "rCommit"} /\ intact /\ req[p].about \notin hasty =>
          row[req[p].about].status \in Terminal /\ active # req[p].about
    /\ place = "rCommit" /\ intact /\ req[p].about \notin hasty =>
          req[p].about \notin running /\ route # req[p].about

ProcessOK(p, place) ==
    AskedOK(p, place) /\ ClaimOK(p, place) /\ LateOK(p, place) /\ SeenOK(p, place)

(* Two processes of one mutation have claimed it one after the other, and   *)
(* only one of them has begun its effects.                                  *)
Apart(p, q) ==
    req[p].m = req[q].m =>
        /\ pc[p] \in Claims /\ pc[q] \in Claims => req[p].epoch # req[q].epoch
        /\ ~(pc[p] \in Late /\ pc[q] \in Late)
        /\ ~(pc[p] = "failClean" /\ Current(p) /\ pc[q] \in Late)

ActivationInv ==
    /\ ActivationTypeOK
    /\ RowsOK
    /\ WorldOK
    /\ ToldIsRecorded
    /\ \A p \in Processes : ProcessOK(p, pc[p])
    /\ \A p, q \in Processes : p # q => Apart(p, q)

-----------------------------------------------------------------------------
(* Types.                                                                   *)
LEMMA Fields ==
    ASSUME ActivationTypeOK
    PROVE  /\ \A m \in Mutations :
                 /\ row[m] \in Rows
                 /\ row[m].status \in Statuses /\ row[m].epoch \in Nat
                 /\ row[m].live \in BOOLEAN /\ row[m].phase \in Phases
                 /\ row[m].about \in Activations \cup {None}
           /\ \A p \in Processes :
                 /\ req[p] \in Reqs
                 /\ req[p].m \in Mutations \cup {None}
                 /\ req[p].about \in Activations \cup {None}
                 /\ req[p].epoch \in Nat
                 /\ req[p].unknown \in BOOLEAN
           /\ faults \in Nat /\ faults <= MaxFaults
<1>1. \A m \in Mutations : row[m] \in Rows
  BY DEF ActivationTypeOK
<1>2. \A p \in Processes : req[p] \in Reqs
  BY DEF ActivationTypeOK
<1>3. faults \in Nat /\ faults <= MaxFaults
  BY ActivationAssumption DEF ActivationTypeOK
<1> QED
  BY <1>1, <1>2, <1>3, ActivationAssumption DEF Rows, Reqs

(* A mutation is an activation or a deactivation, never both, and None is   *)
(* neither mutation nor process.                                            *)
LEMMA MutationsAre ==
    /\ Activations \subseteq Mutations /\ Deactivations \subseteq Mutations
    /\ None \notin Mutations /\ None \notin Processes
    /\ \A m \in Mutations : m \in Deactivations <=> m \notin Activations
BY ActivationAssumption DEF Mutations

(* Early and late places are places of a claim, and they differ.            *)
LEMMA PlacesAre ==
    /\ Early \subseteq Claims /\ Late \subseteq Claims /\ Claims \subseteq Places
    /\ Effects \subseteq Late /\ Early \cap Late = {}
    /\ "failClean" \notin Early \cup Late
BY DEF Early, EarlyA, EarlyD, Late, LateA, LateD, Claims, Effects, Places, Inside

(* An early and a late phase differ.                                        *)
LEMMA LatePhase ==
    ASSUME NEW m \in Mutations, NEW place \in Late, NEW phase, PhaseAt(m, place, phase),
           m \in Activations => place \notin LateD,
           m \notin Activations => place \notin LateA
    PROVE  phase \notin EarlyPhases(m)
BY DEF Late, LateA, LateD, PhaseAt, EarlyPhases

(* A process that has begun the effects finds its row past the early        *)
(* phases.                                                                  *)
LEMMA LateIs ==
    ASSUME ActivationInv, NEW p \in Processes, pc[p] \in Late
    PROVE  /\ req[p].m \in Mutations /\ Me(p).phase \notin EarlyPhases(req[p].m)
           /\ Me(p).status # "absent"
<1>1. ProcessOK(p, pc[p]) /\ pc[p] \in Claims
  BY PlacesAre DEF ActivationInv
<1>2. /\ req[p].m \in Mutations /\ Me(p).status # "absent"
      /\ pc[p] \in LateA => req[p].m \in Activations
      /\ pc[p] \in LateD => req[p].m \in Deactivations
      /\ PhaseAt(req[p].m, pc[p], Me(p).phase)
  BY <1>1 DEF ProcessOK, AskedOK, ClaimOK, LateOK
<1> QED
  BY <1>2, LatePhase, MutationsAre

-----------------------------------------------------------------------------
(* What is left to show of a step of one process.                           *)
LEMMA OneMoves ==
    ASSUME ActivationInv, ActivationTypeOK', NEW p \in Processes, NEW place \in Places,
           Goto(p, place), RowsOK', WorldOK', ToldIsRecorded', ProcessOK(p, place)',
           \A q \in Processes : q # p =>
              /\ req'[q] = req[q]
              /\ \A here \in Places : here = pc[q] => ProcessOK(q, here)'
              /\ Apart(p, q)' /\ Apart(q, p)',
           \A m \in Mutations : row[m].epoch <= row'[m].epoch
    PROVE  ActivationInv'
<1>1. pc'[p] = place /\ \A q \in Processes : q # p => pc'[q] = pc[q]
  BY DEF Goto, ActivationInv, ActivationTypeOK
<1>2. \A q \in Processes : pc[q] \in Places
  BY DEF ActivationInv, ActivationTypeOK
<1>3. ASSUME NEW q \in Processes PROVE ProcessOK(q, pc[q])'
  <2>1. CASE q = p
    BY <1>1, <2>1 DEF ProcessOK, AskedOK, ClaimOK, LateOK, SeenOK
  <2>2. CASE q # p
    <3>1. PICK here \in Places : here = pc[q] /\ here = pc'[q]
      BY <1>1, <1>2, <2>2
    <3>2. ProcessOK(q, here)'
      BY <2>2, <3>1
    <3> QED
      BY <3>1, <3>2 DEF ProcessOK, AskedOK, ClaimOK, LateOK, SeenOK
  <2> QED
    BY <2>1, <2>2
<1>4. ASSUME NEW q \in Processes, NEW s \in Processes, q # s PROVE Apart(q, s)'
  <2>1. CASE q = p \/ s = p
    BY <1>4, <2>1
  <2>2. CASE q # p /\ s # p
    <3>1. /\ req'[q] = req[q] /\ req'[s] = req[s] /\ pc'[q] = pc[q] /\ pc'[s] = pc[s]
          /\ Apart(q, s)
      BY <1>1, <1>4, <2>2 DEF ActivationInv
    <3>2. ASSUME pc[q] = "failClean", Current(q)' PROVE Current(q)
      <4>1. ProcessOK(q, pc[q]) /\ pc[q] \in Claims
        BY <3>2 DEF ActivationInv, Claims
      <4>2. req[q].m \in Mutations /\ req[q].epoch <= row[req[q].m].epoch
        BY <4>1 DEF ProcessOK, AskedOK, ClaimOK, Me
      <4>3. row[req[q].m].epoch \in Nat /\ req[q].epoch \in Nat
            /\ row'[req[q].m].epoch \in Nat
        <5>1. ActivationTypeOK
          BY DEF ActivationInv
        <5> QED
          BY <4>2, <5>1, Fields, ActivationAssumption DEF ActivationTypeOK, Rows
      <4> QED
        BY <3>1, <3>2, <4>2, <4>3 DEF Current, Me
    <3> QED
      BY <3>1, <3>2 DEF Apart
  <2> QED
    BY <2>1, <2>2
<1> QED
  BY <1>3, <1>4 DEF ActivationInv

(* A process that is at no place of a claim is apart from every other.      *)
LEMMA ApartOutside ==
    ASSUME ActivationInv, NEW p \in Processes, NEW place \in Places \ Claims, Goto(p, place),
           NEW q \in Processes, q # p
    PROVE  Apart(p, q)' /\ Apart(q, p)'
<1>1. pc'[p] \notin Claims
  BY DEF Goto, ActivationInv, ActivationTypeOK
<1> QED
  BY <1>1, PlacesAre DEF Apart, Claims

(* One that goes on with its claim stays apart from every other.            *)
LEMMA ApartGoesOn ==
    ASSUME ActivationInv, NEW p \in Processes, NEW place \in Claims, Goto(p, place),
           pc[p] \in Claims, req'[p] = req[p],
           \A m \in Mutations : row'[m].epoch = row[m].epoch,
           place \in Late => pc[p] \in Late \/ (pc[p] \in Early /\ Current(p)),
           place = "failClean" => pc[p] \in Early,
           NEW q \in Processes, q # p, req'[q] = req[q]
    PROVE  Apart(p, q)' /\ Apart(q, p)'
<1>1. pc'[p] = place /\ pc'[q] = pc[q] /\ pc[q] \in Places
  BY DEF Goto, ActivationInv, ActivationTypeOK
<1>2. Apart(p, q) /\ Apart(q, p) /\ ProcessOK(p, pc[p]) /\ ProcessOK(q, pc[q])
  BY DEF ActivationInv
<1>3. req[p].m \in Mutations /\ (pc[q] \in Claims => req[q].m \in Mutations)
  BY <1>2 DEF ProcessOK, AskedOK
<1>4. /\ Current(p)' = Current(p)
      /\ pc[q] \in Claims => Current(q)' = Current(q)
  BY <1>3 DEF Current, Me
<1>5. pc[p] \in Early /\ Current(p) /\ pc[q] \in Late => req[p].m # req[q].m
  BY <1>2, LateIs DEF ProcessOK, ClaimOK, Me
<1> QED
  BY <1>1, <1>2, <1>4, <1>5, PlacesAre DEF Apart, Current, Claims, Me

-----------------------------------------------------------------------------
(* What stays true of a process when the rest of the system moves.          *)
SameRow(m) ==
    /\ row'[m].status = row[m].status /\ row'[m].epoch = row[m].epoch
    /\ row'[m].phase = row[m].phase /\ row'[m].about = row[m].about

VerdictsKept ==
    \A n \in Mutations : row[n].status \in Terminal => row'[n].status \in Terminal

WorldKept == active' = active /\ running' = running /\ route' = route

RetiredKept == \A a \in Activations : alloc[a] = "retired" => alloc'[a] = "retired"

(* What is out of service stays out of service.                             *)
StaysOut(a) ==
    (active' = a => active = a) /\ (route' = a => route = a) /\ (a \in running' => a \in running)

HeldKept(q) == intact' => intact /\ \A m \in Mutations : held[m] = q => held'[m] = q

Reading == {"verify", "recClaim", "observe", "recover", "confirm", "gone", "dRecover"}

(* A process counts on the world as it is.                                  *)
Relies(q, here) ==
    \/ here \in {"transitioning", "dPrepared", "failClean"} /\ Current(q)
    \/ here \in Late /\ ActiveRow(req[q].m)
    \/ here \in {"recover", "dRecover"} /\ Me(q).status = "outcome_unknown"

(* The mutation and the release that a process is at work on.               *)
LEMMA AskedFor ==
    ASSUME NEW q, NEW here, ProcessOK(q, here)
    PROVE  /\ here \in Claims \cup Late \cup Early \cup Effects \cup Inside \cup Reading =>
                 req[q].m \in Mutations
           /\ here \in LateD \cup {"rVerify", "rCommit", "dRecover"} =>
                 req[q].about \in Activations
           /\ here \in LateD \cup EarlyD => req[q].m \in Deactivations
           /\ here \in LateA \cup EarlyA =>
                 req[q].m \in Activations /\ req[q].about # req[q].m
<1>1. Inside \subseteq Claims
  BY DEF Inside, Claims, Late, LateA, LateD
<1> QED
  BY <1>1, MutationsAre, PlacesAre DEF ProcessOK, AskedOK, Reading

(* What a process was asked for does not change under way.                  *)
LEMMA AskedStands ==
    ASSUME NEW q, NEW here, AskedOK(q, here), req'[q] = req[q]
    PROVE  AskedOK(q, here)'
BY DEF AskedOK

(* What is known of the world holds as long as the world stays.             *)
LEMMA WorldAtStands ==
    ASSUME WorldKept, RetiredKept, NEW m, NEW e, NEW place
    PROVE  /\ WorldAt(m, e, place)' <=> WorldAt(m, e, place)
           /\ Steady' <=> Steady
           /\ Serves(m)' <=> Serves(m)
           /\ e \in Activations /\ Gone(e) => Gone(e)'
BY DEF WorldKept, RetiredKept, WorldAt, Steady, Serves, Gone

(* A process goes on knowing what it knows when its own row, what it        *)
(* relies on in the world, its effects and its session stay as they are.    *)
LEMMA ProcessStands ==
    ASSUME NEW q, NEW here, ProcessOK(q, here), req'[q] = req[q],
           req[q].m \in Mutations => SameRow(req[q].m), VerdictsKept,
           Relies(q, here) => WorldKept /\ RetiredKept,
           \A a \in Activations : intact' /\ row[a].status \in Terminal => StaysOut(a),
           here \in Late => starts'[req[q].m] = starts[req[q].m],
           hasty \subseteq hasty', HeldKept(q)
    PROVE  ProcessOK(q, here)'
<1>0. AskedOK(q, here) /\ ClaimOK(q, here) /\ LateOK(q, here) /\ SeenOK(q, here)
  BY DEF ProcessOK
<1>1. /\ here \in Claims \cup Late \cup Early \cup Effects \cup Inside \cup Reading =>
            req[q].m \in Mutations
      /\ here \in LateD \cup {"rVerify", "rCommit", "dRecover"} =>
            req[q].about \in Mutations /\ req[q].about \in Activations
  BY AskedFor, MutationsAre
<1>2. req[q].m \in Mutations =>
        /\ Me(q)'.status = Me(q).status /\ Me(q)'.epoch = Me(q).epoch
        /\ Me(q)'.phase = Me(q).phase /\ Me(q)'.about = Me(q).about
        /\ Current(q)' = Current(q)
        /\ ActiveRow(req[q].m)' = ActiveRow(req[q].m)
  BY DEF SameRow, Me, Current, ActiveRow
<1>3. req[q].about \in Mutations /\ row[req[q].about].status \in Terminal =>
         row'[req[q].about].status \in Terminal
  BY DEF VerdictsKept
<1>4. AskedOK(q, here)'
  BY <1>0, AskedStands
<1>5. ClaimOK(q, here)'
  <2>1. /\ here \in {"transitioning", "dPrepared"} /\ Current(q)' => active' = req'[q].about
        /\ here = "failClean" /\ Current(q)' => Me(q)'.status = "running" /\ Steady'
    BY <1>0, <1>1, <1>2, WorldAtStands
       DEF ClaimOK, Claims, Early, EarlyA, EarlyD, WorldKept, Relies
  <2> QED
    BY <1>0, <1>1, <1>2, <2>1 DEF ClaimOK, EarlyPhases
<1>6. LateOK(q, here)'
  <2>1. here \in Late /\ ActiveRow(req[q].m)' => WorldAt(req[q].m, req[q].about, here)'
    BY <1>0, <1>1, <1>2, WorldAtStands DEF LateOK, WorldAt, Steady, WorldKept, Relies
  <2>2. here \in Inside /\ intact' =>
           held'[req[q].m] = q /\ Me(q)'.status = "running" /\ Current(q)'
    BY <1>0, <1>1, <1>2 DEF LateOK, HeldKept
  <2>3. here \in LateD => row'[req[q].about].status \in Terminal
    BY <1>0, <1>1, <1>3 DEF LateOK
  <2>4. here \in Late => PhaseAt(req[q].m, here, Me(q).phase)'
    BY <1>0, <1>1, <1>2 DEF LateOK, PhaseAt
  <2>5. here \in Effects => ActiveRow(req[q].m)'
    BY <1>0, <1>1, <1>2 DEF LateOK
  <2>6. here \in {"enterSwitch", "stopOld", "startNew", "enterStop", "stop"} =>
           starts'[req'[q].m] = 0
    BY <1>0 DEF LateOK, Late, LateA, LateD
  <2> QED
    BY <2>1, <2>2, <2>3, <2>4, <2>5, <2>6 DEF LateOK, Terminal
<1>7. SeenOK(q, here)'
  <2>1. /\ here \in Reading \cup {"recFail"} => req[q].m \in Mutations
        /\ intact' => intact
    BY <1>1 DEF Claims, HeldKept
  <2>2. /\ here = "recover" /\ Me(q)'.status = "outcome_unknown" => Serves(req[q].m)'
        /\ here = "dRecover" /\ Me(q)'.status = "outcome_unknown" => Gone(req[q].about)'
    BY <1>0, <1>1, <1>2, <2>1
       DEF SeenOK, Reading, Relies, Serves, Gone, WorldKept, RetiredKept
  <2>3. /\ here \in {"rVerify", "rCommit"} /\ intact' /\ req'[q].about \notin hasty' =>
             row'[req[q].about].status \in Terminal /\ active' # req[q].about
        /\ here = "rCommit" /\ intact' /\ req'[q].about \notin hasty' =>
             req[q].about \notin running' /\ route' # req[q].about
    BY <1>0, <1>1, <1>3, <2>1 DEF SeenOK, StaysOut
  <2>4. /\ here \in {"verify", "confirm", "gone"} => Me(q)'.status = "succeeded"
        /\ here \in {"recClaim", "recFail", "observe", "recover"} =>
             Me(q)'.phase \in Recoverable
        /\ here \in {"observe", "recover", "dRecover"} =>
             Me(q)'.status \in {"succeeded", "outcome_unknown"}
        /\ here = "observe" /\ ~req'[q].unknown => Me(q)'.status = "succeeded"
        /\ here = "dRecover" =>
             Me(q)'.phase \in {"unrouted", "retired"} /\ Me(q)'.about = req'[q].about
    BY <1>0, <1>2, <2>1 DEF SeenOK, Reading
  <2> QED
    BY <2>2, <2>3, <2>4 DEF SeenOK, Terminal, Recoverable
<1> QED
  BY <1>4, <1>5, <1>6, <1>7 DEF ProcessOK

(* The world fits the rows as long as both stay; an allocation may be       *)
(* given back by a release that is out of service.                          *)
LEMMA WorldStands ==
    ASSUME ActivationInv, \A m \in Mutations : SameRow(m), WorldKept,
           hasty \subseteq hasty', intact' => intact,
           \A a \in Activations \ hasty' : intact' /\ alloc'[a] = "retired" =>
              \/ alloc[a] = "retired"
              \/ row[a].status \in Terminal /\ a \notin running /\ route # a /\ active # a
    PROVE  WorldOK'
<1>1. WorldOK /\ active \in Activations \cup {None}
  BY DEF ActivationInv, ActivationTypeOK
<1>2. \A m \in Mutations : ActiveRow(m)' <=> ActiveRow(m)
  BY DEF SameRow, ActiveRow
<1>3. Steady' <=> Steady
  BY DEF WorldKept, Steady
<1>4. (\A m \in Mutations : ~ActiveRow(m)') => Steady'
  BY <1>1, <1>2, <1>3 DEF WorldOK
<1>5. \A m \in Mutations : ActiveRow(m)' /\ row'[m].phase \in EarlyPhases(m) => Steady'
  BY <1>1, <1>2, <1>3 DEF WorldOK, SameRow
<1>6. \A d \in Deactivations : ActiveRow(d)' /\ row'[d].phase # "none" =>
          running' \subseteq {row'[d].about} /\ route' \in {row'[d].about, None}
  BY <1>1, <1>2, MutationsAre DEF WorldOK, SameRow, WorldKept
<1>7. active' # None => row'[active'].status # "absent"
  BY <1>1, MutationsAre DEF WorldOK, SameRow, WorldKept
<1>8. intact' => \A a \in Activations \ hasty' : alloc'[a] = "retired" =>
          row'[a].status \in Terminal /\ a \notin running' /\ route' # a /\ active' # a
  <2> SUFFICES ASSUME intact', NEW a \in Activations \ hasty', alloc'[a] = "retired"
               PROVE  row'[a].status \in Terminal /\ a \notin running' /\ route' # a /\ active' # a
    OBVIOUS
  <2>1. row[a].status \in Terminal /\ a \notin running /\ route # a /\ active # a
    BY <1>1 DEF WorldOK
  <2> QED
    BY <2>1, MutationsAre DEF SameRow, WorldKept
<1>9. \E x : running' \subseteq {x}
  BY <1>1 DEF WorldOK, WorldKept
<1> QED
  BY <1>4, <1>5, <1>6, <1>7, <1>8, <1>9 DEF WorldOK, EarlyPhases, Terminal

(* The rows stay in order as long as they stay, however many faults there   *)
(* were.                                                                    *)
LEMMA RowsStand ==
    ASSUME ActivationInv, row' = row, starts' = starts, faults' \in Nat, faults <= faults'
    PROVE  RowsOK'
<1>1. RowsOK /\ ActivationTypeOK
  BY DEF ActivationInv
<1>2. faults \in Nat /\ \A m \in Mutations : row[m].epoch \in Nat
  BY <1>1, Fields
<1>3. \A m \in Mutations :
          /\ row'[m].epoch <= faults' + 1
          /\ row'[m].status = "running" /\ ~row'[m].live => row'[m].epoch <= faults'
  BY <1>1, <1>2 DEF RowsOK
<1>4. \A m, n \in Mutations : ActiveRow(m)' /\ ActiveRow(n)' => m = n
  BY <1>1 DEF RowsOK, ActiveRow
<1> QED
  BY <1>1, <1>3, <1>4 DEF RowsOK, EarlyPhases

-----------------------------------------------------------------------------
(* A step of one process: what it does to the rest of the system, and where *)
(* it leaves the process itself.                                            *)
RestTyped ==
    /\ row \in [Mutations -> Rows]
    /\ held \in [Mutations -> Processes \cup {None}]
    /\ active \in Activations \cup {None} /\ running \subseteq Activations
    /\ route \in Activations \cup {None} /\ alloc \in [Activations -> {"none", "held", "retired"}]
    /\ starts \in [Mutations -> 0..2] /\ hasty \subseteq Activations /\ intact \in BOOLEAN
    /\ requests \in 0..MaxRequests /\ faults \in 0..MaxFaults
    /\ \A m \in Mutations : row[m].live => row[m].status = "running"

Framed(p) ==
    /\ RestTyped' /\ RowsOK' /\ WorldOK'
    /\ \A m \in Mutations :
          /\ row[m].epoch <= row'[m].epoch
          /\ row[m].status = "succeeded" => row'[m].status = "succeeded"
    /\ \A q \in Processes : q # p /\ req'[q] = req[q] =>
          \A here \in Places : here = pc[q] => ProcessOK(q, here)'

(* An idle process has no request.                                          *)
LEMMA NoReqIs == NoReq \in Reqs
BY ActivationAssumption DEF NoReq, Asked, Reqs, Ops, Phases

(* Nothing is known of an idle process.                                     *)
LEMMA IdleOK == ASSUME NEW p PROVE ProcessOK(p, "idle")'
<1>1. "idle" \notin Claims \cup Late \cup Early \cup Effects \cup Inside \cup LateA \cup LateD
                      \cup EarlyA \cup EarlyD
  BY DEF Claims, Late, Early, Effects, Inside, LateA, LateD, EarlyA, EarlyD
<1> QED
  BY <1>1 DEF ProcessOK, AskedOK, ClaimOK, LateOK, SeenOK

(* The request ends.                                                        *)
LEMMA EndKeeps ==
    ASSUME ActivationInv, NEW p \in Processes, NEW b, End(p, b), Framed(p),
           b => req[p].m \in Mutations /\ row'[req[p].m].status = "succeeded"
    PROVE  ActivationInv'
<1>0. ActivationTypeOK /\ "idle" \in Places \ Claims
  BY DEF ActivationInv, Places, Claims, Early, EarlyA, EarlyD, Late, LateA, LateD
<1>1. Goto(p, "idle") /\ \A q \in Processes : q # p => req'[q] = req[q]
  BY <1>0 DEF End, ActivationTypeOK
<1>2. ActivationTypeOK'
  <2>1. pc' \in [Processes -> Places] /\ req' \in [Processes -> Reqs]
    BY <1>0, NoReqIs DEF End, Goto, ActivationTypeOK
  <2>2. lifecycle' \in Processes \cup {None} /\ told' \subseteq Mutations
    BY <1>0 DEF End, Released, ActivationTypeOK
  <2>3. RestTyped'
    BY DEF Framed
  <2> QED
    BY <2>1, <2>2, <2>3 DEF ActivationTypeOK, RestTyped
<1>3. ToldIsRecorded'
  <2>1. \A m \in told : m \in Mutations /\ row'[m].status = "succeeded"
    BY <1>0 DEF ActivationInv, ToldIsRecorded, Framed, ActivationTypeOK
  <2> QED
    BY <2>1 DEF End, ToldIsRecorded
<1>4. ASSUME NEW q \in Processes, q # p PROVE Apart(p, q)' /\ Apart(q, p)'
  BY <1>0, <1>1, <1>4, ApartOutside
<1> QED
  BY <1>0, <1>1, <1>2, <1>3, <1>4, IdleOK, OneMoves DEF Framed

(* The request goes on, outside of a claim.                                 *)
LEMMA TurnKeeps ==
    ASSUME ActivationInv, NEW p \in Processes, NEW place \in Places \ Claims, Goto(p, place),
           NEW r \in Reqs, req' = [req EXCEPT ![p] = r],
           lifecycle' \in Processes \cup {None}, told' = told,
           Framed(p), ProcessOK(p, place)'
    PROVE  ActivationInv'
<1>0. ActivationTypeOK
  BY DEF ActivationInv
<1>1. \A q \in Processes : q # p => req'[q] = req[q]
  BY <1>0 DEF ActivationTypeOK
<1>2. ActivationTypeOK'
  <2>1. pc' \in [Processes -> Places] /\ req' \in [Processes -> Reqs]
    BY <1>0 DEF Goto, ActivationTypeOK
  <2> QED
    BY <1>0, <2>1 DEF ActivationTypeOK, RestTyped, Framed
<1>3. ToldIsRecorded'
  BY <1>0 DEF ActivationInv, ToldIsRecorded, Framed, ActivationTypeOK
<1>4. ASSUME NEW q \in Processes, q # p PROVE Apart(p, q)' /\ Apart(q, p)'
  BY <1>4, ApartOutside
<1> QED
  BY <1>1, <1>2, <1>3, <1>4, OneMoves DEF Framed

(* The request goes on as it is.                                            *)
LEMMA StayKeeps ==
    ASSUME ActivationInv, NEW p \in Processes, NEW place \in Places, Goto(p, place), Stay,
           Framed(p), ProcessOK(p, place)',
           \/ place \notin Claims
           \/ /\ pc[p] \in Claims
              /\ \A m \in Mutations : row'[m].epoch = row[m].epoch
              /\ place \in Late => pc[p] \in Late \/ (pc[p] \in Early /\ Current(p))
              /\ place = "failClean" => pc[p] \in Early
    PROVE  ActivationInv'
<1>0. ActivationTypeOK /\ req' = req /\ told' = told /\ lifecycle' = lifecycle
  BY DEF ActivationInv, Stay
<1>1. ActivationTypeOK'
  <2>1. pc' \in [Processes -> Places]
    BY <1>0 DEF Goto, ActivationTypeOK
  <2> QED
    BY <1>0, <2>1 DEF ActivationTypeOK, RestTyped, Framed
<1>2. ToldIsRecorded'
  BY <1>0 DEF ActivationInv, ToldIsRecorded, Framed, ActivationTypeOK
<1>3. ASSUME NEW q \in Processes, q # p PROVE Apart(p, q)' /\ Apart(q, p)'
  <2>1. CASE place \notin Claims
    BY <1>3, <2>1, ApartOutside
  <2>2. CASE place \in Claims
    BY <1>0, <1>3, <2>2, ApartGoesOn
  <2> QED
    BY <2>1, <2>2
<1> QED
  BY <1>0, <1>1, <1>2, <1>3, OneMoves DEF Framed

-----------------------------------------------------------------------------
(* What a step does to the rest of the system.                              *)
Counting == faults' \in 0..MaxFaults /\ faults <= faults' /\ requests' \in 0..MaxRequests

(* A step that changes no row and nothing that serves.                      *)
LEMMA FrameQuiet ==
    ASSUME ActivationInv, NEW p \in Processes, row' = row, WorldKept, RetiredKept,
           alloc' \in [Activations -> {"none", "held", "retired"}],
           \A a \in Activations \ hasty' : intact /\ alloc'[a] = "retired" =>
              \/ alloc[a] = "retired"
              \/ row[a].status \in Terminal /\ a \notin running /\ route # a /\ active # a,
           starts' = starts, hasty \subseteq hasty', hasty' \subseteq Activations,
           intact' = intact, held' \in [Mutations -> Processes \cup {None}],
           \A q \in Processes : q # p => HeldKept(q), Counting
    PROVE  Framed(p)
<1>0. ActivationTypeOK /\ \A m \in Mutations : SameRow(m)
  BY DEF ActivationInv, SameRow
<1>1. RestTyped'
  BY <1>0 DEF ActivationTypeOK, RestTyped, Counting, WorldKept
<1>2. RowsOK'
  BY RowsStand DEF Counting
<1>3. WorldOK'
  BY <1>0, WorldStands
<1>4. \A m \in Mutations : row[m].epoch <= row'[m].epoch
  <2>1. \A m \in Mutations : row[m].epoch \in Nat
    BY <1>0, Fields
  <2> QED
    BY <2>1
<1>5. ASSUME NEW q \in Processes, q # p, req'[q] = req[q], NEW here \in Places, here = pc[q]
      PROVE  ProcessOK(q, here)'
  <2>1. ProcessOK(q, here)
    BY <1>5 DEF ActivationInv
  <2>2. VerdictsKept /\ \A a \in Activations : StaysOut(a)
    BY DEF VerdictsKept, StaysOut, WorldKept
  <2> QED
    BY <1>0, <1>5, <2>1, <2>2, ProcessStands
<1> QED
  BY <1>1, <1>2, <1>3, <1>4, <1>5 DEF Framed

(* A step that changes the row of one mutation, while nobody locks it.      *)
RowStep(m, new) ==
    /\ row' = [row EXCEPT ![m] = new]
    /\ UNCHANGED <<held, world, aux>>
    /\ Counting

(* The new row takes nothing away from a process that is on its mutation.   *)
Bears(q, new) ==
    /\ pc[q] \in Early \cup {"failClean"} => req[q].epoch # new.epoch
    /\ pc[q] \in Late => new.phase = Me(q).phase /\ ActiveRow(req[q].m)
    /\ pc[q] \in Effects => new.status \in {"running", "outcome_unknown"}
    /\ pc[q] \in {"recClaim", "recFail", "observe", "recover"} => new.phase \in Recoverable
    /\ pc[q] \in {"verify", "confirm", "gone", "observe", "recover", "dRecover"} =>
          new.status = "succeeded" /\ new.phase = Me(q).phase

(* A process of the row that is written goes on knowing what it knows when  *)
(* it can bear the new row.                                                 *)
LEMMA RowBorne ==
    ASSUME ActivationInv, NEW m \in Mutations, NEW new \in Rows, RowStep(m, new), RowFree(m),
           new.status # "absent", row[m].epoch <= new.epoch,
           row[m].status # "absent" => new.about = row[m].about,
           row[m].status \in Terminal => new.status \in Terminal,
           NEW q \in Processes, NEW here \in Places, here = pc[q],
           req'[q] = req[q], req[q].m = m, Bears(q, new)
    PROVE  ProcessOK(q, here)'
<1>1. ActivationTypeOK /\ ProcessOK(q, here)
  BY DEF ActivationInv
<1>2. /\ row'[m] = new /\ \A n \in Mutations : n # m => row'[n] = row[n]
      /\ WorldKept /\ alloc' = alloc /\ starts' = starts /\ hasty' = hasty /\ intact' = intact
      /\ held' = held
  BY <1>1 DEF RowStep, ActivationTypeOK, WorldKept, world, aux
<1>3. Me(q) = row[m] /\ Me(q)' = new /\ (Current(q)' <=> req[q].epoch = new.epoch)
      /\ RetiredKept
  BY <1>2 DEF Me, Current, RetiredKept
<1>4. Early \subseteq Claims /\ "failClean" \in Claims /\ Inside \subseteq Late
      /\ {"transitioning", "dPrepared"} \subseteq Early /\ Effects \subseteq Late
  BY DEF Claims, Inside, Late, LateA, LateD, Early, EarlyA, EarlyD, Effects
<1>5. /\ here \in LateD \cup {"rVerify", "rCommit", "dRecover"} =>
            req[q].about \in Mutations /\ req[q].about \in Activations
      /\ req[q].about \in Mutations /\ row[req[q].about].status \in Terminal =>
            row'[req[q].about].status \in Terminal
  BY <1>1, <1>2, AskedFor, MutationsAre
<1>6. ClaimOK(q, here)'
  <2>1. here \in Claims => req[q].epoch <= new.epoch
    <3>1. req[q].epoch \in Nat /\ row[m].epoch \in Nat /\ new.epoch \in Nat
      BY <1>1, Fields DEF Rows
    <3> QED
      BY <1>1, <1>3, <3>1 DEF ProcessOK, ClaimOK
  <2>2. here \in Claims => new.about = req[q].about
    BY <1>1, <1>3 DEF ProcessOK, ClaimOK
  <2> QED
    BY <1>3, <1>4, <2>1, <2>2 DEF ClaimOK, Bears
<1>7. LateOK(q, here)'
  <2>1. /\ here \in Late => PhaseAt(req[q].m, here, new.phase)
        /\ here \in Late => WorldAt(req[q].m, req[q].about, here)
    BY <1>1, <1>3 DEF ProcessOK, LateOK, Bears
  <2>2. here \in Late => PhaseAt(req[q].m, here, Me(q).phase)'
    BY <1>3, <2>1 DEF PhaseAt
  <2>3. here \in Late => WorldAt(req[q].m, req[q].about, here)'
    BY <1>2, <2>1 DEF WorldAt, Steady, WorldKept
  <2>4. here \in Effects => ActiveRow(req[q].m)'
    BY <1>2 DEF Bears, ActiveRow
  <2>5. here \in {"enterSwitch", "stopOld", "startNew", "enterStop", "stop"} =>
           starts'[req'[q].m] = 0
    BY <1>1, <1>2 DEF ProcessOK, LateOK
  <2>6. here \in LateD => row'[req[q].about].status \in Terminal
    BY <1>1, <1>5 DEF ProcessOK, LateOK
  <2>7. here \in Inside => ~intact'
    BY <1>1, <1>2, MutationsAre DEF ProcessOK, LateOK, RowFree
  <2> QED
    BY <2>2, <2>3, <2>4, <2>5, <2>6, <2>7 DEF LateOK, Terminal
<1>8. SeenOK(q, here)'
  <2>1. /\ here \in {"rVerify", "rCommit"} /\ intact' /\ req'[q].about \notin hasty' =>
             row'[req[q].about].status \in Terminal /\ active' # req[q].about
        /\ here = "rCommit" /\ intact' /\ req'[q].about \notin hasty' =>
             req[q].about \notin running' /\ route' # req[q].about
    BY <1>1, <1>2, <1>5 DEF ProcessOK, SeenOK, WorldKept
  <2>2. here = "dRecover" =>
           new.phase \in {"unrouted", "retired"} /\ new.about = req[q].about
    BY <1>1, <1>3 DEF ProcessOK, SeenOK, Bears
  <2> QED
    BY <1>3, <2>1, <2>2 DEF SeenOK, Bears, Terminal, Recoverable
<1> QED
  BY <1>1, <1>6, <1>7, <1>8, AskedStands DEF ProcessOK

(* What a write to one row leaves to the other processes and of the         *)
(* records.                                                                 *)
LEMMA FrameRow ==
    ASSUME ActivationInv, NEW p \in Processes, NEW m \in Mutations, NEW new \in Rows,
           RowStep(m, new), RowFree(m), RowsOK' /\ WorldOK', row[m].epoch <= new.epoch,
           new.status # "absent", new.live => new.status = "running",
           row[m].status # "absent" => new.about = row[m].about,
           row[m].status \in Terminal => new.status \in Terminal,
           row[m].status = "succeeded" => new.status = "succeeded",
           \A q \in Processes : q # p /\ req[q].m = m => Bears(q, new)
    PROVE  Framed(p)
<1>0. ActivationTypeOK /\ held' = held /\ WorldKept /\ alloc' = alloc /\ starts' = starts
      /\ hasty' = hasty /\ intact' = intact
  BY DEF ActivationInv, RowStep, world, aux, WorldKept
<1>1. /\ row'[m] = new
      /\ \A n \in Mutations : n # m => row'[n] = row[n]
      /\ row' \in [Mutations -> Rows]
  BY <1>0 DEF RowStep, ActivationTypeOK
<1>2. RestTyped'
  BY <1>0, <1>1 DEF ActivationTypeOK, RestTyped, Counting, RowStep, WorldKept
<1>3. \A n \in Mutations : /\ row[n].epoch <= row'[n].epoch
                           /\ row[n].status = "succeeded" => row'[n].status = "succeeded"
  <2>1. \A n \in Mutations : row[n].epoch \in Nat
    BY <1>0, Fields
  <2> QED
    BY <1>1, <2>1
<1>4. ASSUME NEW q \in Processes, q # p, req'[q] = req[q], NEW here \in Places, here = pc[q]
      PROVE  ProcessOK(q, here)'
  <2>1. ProcessOK(q, here)
    BY <1>4 DEF ActivationInv
  <2>2. CASE req[q].m = m
    BY <1>4, <2>2, RowBorne
  <2>3. CASE req[q].m # m
    <3>1. VerdictsKept /\ RetiredKept /\ HeldKept(q) /\ \A a \in Activations : StaysOut(a)
      BY <1>0, <1>1 DEF VerdictsKept, RetiredKept, HeldKept, StaysOut, WorldKept
    <3>2. req[q].m \in Mutations => SameRow(req[q].m)
      BY <1>1, <2>3 DEF SameRow
    <3> QED
      BY <1>0, <1>4, <2>1, <3>1, <3>2, ProcessStands
  <2> QED
    BY <2>2, <2>3
<1> QED
  BY <1>2, <1>3, <1>4 DEF Framed

(* The rows and the world fit together after the row of m became new.       *)
LEMMA RowFits ==
    ASSUME ActivationInv, NEW m \in Mutations, NEW new \in Rows, RowStep(m, new),
           new.status # "absent", new.status = "running" => new.live,
           new.epoch <= faults' + 1,
           m \in Deactivations => new.about \in Activations,
           new.phase \in EarlyPhases(m) => starts[m] = 0,
           row[m].status \in Terminal => new.status \in Terminal,
           new.status \in {"running", "outcome_unknown"} =>
              /\ ActiveRow(m) \/ ResourceFree(m)
              /\ new.phase \in EarlyPhases(m) => Steady
              /\ m \in Deactivations /\ new.phase # "none" =>
                    running \subseteq {new.about} /\ route \in {new.about, None},
           new.status \notin {"running", "outcome_unknown"} => Steady
    PROVE  RowsOK' /\ WorldOK'
<1>1. ActivationTypeOK /\ RowsOK /\ WorldOK
  BY DEF ActivationInv
<1>2. /\ row'[m] = new /\ \A n \in Mutations : n # m => row'[n] = row[n]
      /\ WorldKept /\ alloc' = alloc /\ starts' = starts /\ hasty' = hasty /\ intact' = intact
      /\ faults \in Nat /\ faults' \in Nat /\ faults <= faults'
  BY <1>1, Fields, ActivationAssumption
     DEF RowStep, ActivationTypeOK, WorldKept, world, aux, Counting
<1>3. /\ \A n \in Mutations : n # m => (ActiveRow(n)' <=> ActiveRow(n))
      /\ ActiveRow(m)' <=> new.status \in {"running", "outcome_unknown"}
  BY <1>2 DEF ActiveRow
<1>4. \A n \in Mutations : n # m /\ ActiveRow(n) /\ ActiveRow(m)' => FALSE
  BY <1>1, <1>3 DEF RowsOK, ResourceFree
<1>5. RowsOK'
  <2>1. \A n \in Mutations : row[n].epoch \in Nat
    BY <1>1, Fields
  <2>2. ASSUME NEW n \in Mutations
        PROVE  /\ row'[n].status = "absent" => row'[n] = NoRow
               /\ row'[n].epoch <= faults' + 1
               /\ row'[n].status = "running" /\ ~row'[n].live => row'[n].epoch <= faults'
               /\ n \in Deactivations /\ row'[n].status # "absent" => row'[n].about \in Activations
               /\ row'[n].phase \in EarlyPhases(n) => starts'[n] = 0
               /\ starts'[n] <= 1
    <3>1. CASE n = m
      <4>1. starts[m] <= 1
        BY <1>1 DEF RowsOK
      <4>2. row'[n] = new /\ starts'[n] = starts[m]
        BY <1>2, <3>1
      <4> QED
        BY <1>2, <3>1, <4>1, <4>2
    <3>2. CASE n # m
      BY <1>1, <1>2, <2>1, <3>2 DEF RowsOK
    <3> QED
      BY <3>1, <3>2
  <2>3. \A x, n \in Mutations : ActiveRow(x)' /\ ActiveRow(n)' => x = n
    BY <1>1, <1>3, <1>4 DEF RowsOK
  <2> QED
    BY <2>2, <2>3 DEF RowsOK, EarlyPhases, NoRow
<1>6. WorldOK'
  <2>1. Steady' <=> Steady
    BY <1>2 DEF WorldKept, Steady
  <2>2. (\A n \in Mutations : ~ActiveRow(n)') => Steady'
    BY <1>3, <2>1
  <2>3. \A n \in Mutations : ActiveRow(n)' /\ row'[n].phase \in EarlyPhases(n) => Steady'
    BY <1>1, <1>2, <1>3, <2>1 DEF WorldOK
  <2>4. \A d \in Deactivations : ActiveRow(d)' /\ row'[d].phase # "none" =>
           running' \subseteq {row'[d].about} /\ route' \in {row'[d].about, None}
    BY <1>1, <1>2, <1>3, MutationsAre DEF WorldOK, WorldKept
  <2>5. active' # None => row'[active'].status # "absent"
    BY <1>1, <1>2, MutationsAre DEF WorldOK, WorldKept, ActivationTypeOK
  <2>6. intact' => \A a \in Activations \ hasty' : alloc'[a] = "retired" =>
           row'[a].status \in Terminal /\ a \notin running' /\ route' # a /\ active' # a
    BY <1>1, <1>2, MutationsAre DEF WorldOK, WorldKept
  <2>7. \E x : running' \subseteq {x}
    BY <1>1, <1>2 DEF WorldOK, WorldKept
  <2> QED
    BY <2>2, <2>3, <2>4, <2>5, <2>6, <2>7 DEF WorldOK, EarlyPhases, Terminal
<1> QED
  BY <1>5, <1>6

(* What the owner of a claim knows of the others on its mutation.           *)
LEMMA OwnerIs ==
    ASSUME ActivationInv, NEW p \in Processes, pc[p] \in Claims, Owns(p),
           NEW q \in Processes, q # p, req[q].m = req[p].m
    PROVE  /\ pc[q] \in Claims => ~Current(q)
           /\ pc[p] \in Early \cup Late \cup {"failClean"} => pc[q] \notin Late
           /\ pc[q] \notin {"verify", "confirm", "gone", "observe", "recover", "dRecover"}
<1>1. Apart(p, q) /\ Apart(q, p) /\ ProcessOK(p, pc[p]) /\ ProcessOK(q, pc[q])
  BY DEF ActivationInv
<1>2. Current(p) /\ Me(q) = Me(p) /\ Me(p).status = "running"
  BY DEF Owns, Current, Me
<1>3. pc[q] \in Claims => ~Current(q)
  BY <1>1, <1>2 DEF Apart, Current
<1>4. pc[p] \in Early => pc[q] \notin Late
  BY <1>1, <1>2, LateIs DEF ProcessOK, ClaimOK
<1>5. pc[p] \in Late \cup {"failClean"} => pc[q] \notin Late
  BY <1>1, <1>2 DEF Apart
<1>6. pc[q] \notin {"verify", "confirm", "gone", "observe", "recover", "dRecover"}
  BY <1>1, <1>2 DEF ProcessOK, SeenOK
<1> QED
  BY <1>3, <1>4, <1>5, <1>6

(* A checkpoint.                                                            *)
LEMMA FrameSave ==
    ASSUME ActivationInv, NEW p \in Processes, pc[p] \in Early \cup Late, Owns(p),
           NEW ph \in Phases, RowFree(req[p].m),
           RowStep(req[p].m, [Me(p) EXCEPT !.phase = ph]),
           Me(p).phase \in Recoverable => ph \in Recoverable,
           ph \in EarlyPhases(req[p].m) => Me(p).phase \in EarlyPhases(req[p].m),
           req[p].m \in Deactivations =>
              running \subseteq {Me(p).about} /\ route \in {Me(p).about, None}
    PROVE  Framed(p)
<1>0. PICK m \in Mutations : m = req[p].m
  <2>1. ProcessOK(p, pc[p])
    BY DEF ActivationInv
  <2> QED
    BY <2>1, AskedFor
<1>1. PICK new \in Rows : new = [row[m] EXCEPT !.phase = ph]
  <2>1. row[m] \in Rows
    BY DEF ActivationInv, ActivationTypeOK
  <2>2. [row[m] EXCEPT !.phase = ph] \in Rows
    BY <2>1 DEF Rows
  <2> QED
    BY <2>2
<1>2. ActivationTypeOK /\ RowsOK /\ WorldOK /\ row[m] \in Rows
  BY <1>0 DEF ActivationInv, ActivationTypeOK
<1>3. /\ new.status = row[m].status /\ new.epoch = row[m].epoch /\ new.live = row[m].live
      /\ new.about = row[m].about /\ new.phase = ph
      /\ row[m].status = "running" /\ new.live
  BY <1>0, <1>1, <1>2 DEF Rows, Owns, Me
<1>4. RowStep(m, new)
  BY <1>0, <1>1 DEF Me
<1>5. /\ row'[m] = new /\ \A n \in Mutations : n # m => row'[n] = row[n]
      /\ WorldKept /\ alloc' = alloc /\ starts' = starts /\ hasty' = hasty /\ intact' = intact
      /\ held' = held /\ faults \in Nat /\ faults' \in Nat /\ faults <= faults'
  BY <1>2, <1>4, Fields, ActivationAssumption
     DEF RowStep, ActivationTypeOK, WorldKept, world, aux, Counting
<1>6. row[m].epoch <= new.epoch /\ new.epoch <= faults' + 1
  <2>1. row[m].epoch \in Nat /\ row[m].epoch <= faults + 1
    BY <1>2, Fields DEF RowsOK
  <2> QED
    BY <1>3, <1>5, <2>1
<1>7. RowsOK' /\ WorldOK'
  <2>1. ActiveRow(m) /\ row[m] = Me(p)
    BY <1>0, <1>3 DEF ActiveRow, Me
  <2>2. new.phase \in EarlyPhases(m) => starts[m] = 0 /\ Steady
    BY <1>0, <1>2, <1>3, <2>1 DEF RowsOK, WorldOK
  <2>3. m \in Deactivations =>
           /\ new.about \in Activations
           /\ running \subseteq {new.about} /\ route \in {new.about, None}
    BY <1>0, <1>2, <1>3, <2>1 DEF RowsOK
  <2> QED
    BY <1>3, <1>4, <1>6, <2>1, <2>2, <2>3, RowFits DEF Terminal
<1>8. ASSUME NEW q \in Processes, q # p, req[q].m = m PROVE Bears(q, new)
  <2>1. /\ pc[q] \in Claims => ~Current(q)
        /\ pc[q] \notin Late
        /\ pc[q] \notin {"verify", "confirm", "gone", "observe", "recover", "dRecover"}
    BY <1>0, <1>8, OwnerIs, PlacesAre
  <2>2. Me(q) = row[m] /\ Me(p) = row[m] /\ ProcessOK(q, pc[q])
    BY <1>0, <1>8 DEF Me, ActivationInv
  <2>3. pc[q] \in {"recClaim", "recFail"} => new.phase \in Recoverable
    BY <1>3, <2>2 DEF ProcessOK, SeenOK
  <2> QED
    BY <1>3, <2>1, <2>2, <2>3, PlacesAre DEF Bears, Current, Claims
<1>9. row[m].epoch <= new.epoch
  BY <1>6
<1>10. RowFree(m)
  BY <1>0
<1>11. /\ new.status # "absent" /\ new.about = row[m].about
       /\ new.live => new.status = "running"
       /\ row[m].status \in Terminal => new.status \in Terminal
       /\ row[m].status = "succeeded" => new.status = "succeeded"
  BY <1>3
<1> QED
  BY <1>4, <1>7, <1>8, <1>9, <1>10, <1>11, FrameRow

(* A verdict of the owner.                                                  *)
LEMMA FrameFinish ==
    ASSUME ActivationInv, NEW p \in Processes, pc[p] \in Claims, Owns(p), RowFree(req[p].m),
           NEW status \in Terminal, RowStep(req[p].m, Finished(p, status)),
           status # "outcome_unknown" => Steady /\ pc[p] \in Late \cup {"failClean"}
    PROVE  Framed(p)
<1>0. PICK m \in Mutations : m = req[p].m
  <2>1. ProcessOK(p, pc[p])
    BY DEF ActivationInv
  <2> QED
    BY <2>1, AskedFor
<1>1. ActivationTypeOK /\ RowsOK /\ WorldOK /\ row[m] \in Rows
  BY <1>0 DEF ActivationInv, ActivationTypeOK
<1>2. PICK new \in Rows : new = Finished(p, status)
  BY <1>0, <1>1 DEF Rows, Finished, Me, Terminal, Statuses
<1>3. /\ new.status = status /\ new.epoch = row[m].epoch /\ ~new.live
      /\ new.about = row[m].about /\ new.phase = row[m].phase
      /\ row[m].status = "running"
  BY <1>0, <1>2 DEF Finished, Owns, Me
<1>4. RowStep(m, new) /\ faults \in Nat /\ faults' \in Nat /\ faults <= faults'
  BY <1>0, <1>1, <1>2, Fields, ActivationAssumption DEF RowStep, Counting
<1>5. row[m].epoch <= new.epoch /\ new.epoch <= faults' + 1
  <2>1. row[m].epoch \in Nat /\ row[m].epoch <= faults + 1
    BY <1>1, Fields DEF RowsOK
  <2> QED
    BY <1>3, <1>4, <2>1
<1>6. RowsOK' /\ WorldOK'
  <2>1. ActiveRow(m)
    BY <1>3 DEF ActiveRow
  <2>2. new.phase \in EarlyPhases(m) => starts[m] = 0 /\ Steady
    BY <1>1, <1>3, <2>1 DEF RowsOK, WorldOK
  <2>3. m \in Deactivations =>
           /\ new.about \in Activations
           /\ new.phase # "none" => running \subseteq {new.about} /\ route \in {new.about, None}
    BY <1>1, <1>3, <2>1 DEF RowsOK, WorldOK
  <2>4. new.status # "absent" /\ new.status # "running"
        /\ (new.status \notin {"running", "outcome_unknown"} => Steady)
    BY <1>3 DEF Terminal
  <2> QED
    BY <1>3, <1>4, <1>5, <2>1, <2>2, <2>3, <2>4, RowFits DEF Terminal
<1>7. ASSUME NEW q \in Processes, q # p, req[q].m = m PROVE Bears(q, new)
  <2>1. /\ pc[q] \in Claims => ~Current(q)
        /\ status # "outcome_unknown" => pc[q] \notin Late
        /\ pc[q] \notin {"verify", "confirm", "gone", "observe", "recover", "dRecover"}
    BY <1>0, <1>7, OwnerIs
  <2>2. Me(q) = row[m] /\ Me(p) = row[m] /\ ProcessOK(q, pc[q]) /\ ActiveRow(req[q].m)
    BY <1>0, <1>3, <1>7 DEF Me, ActivationInv, ActiveRow
  <2>3. pc[q] \in {"recClaim", "recFail"} => new.phase \in Recoverable
    BY <1>3, <2>2 DEF ProcessOK, SeenOK
  <2> QED
    BY <1>3, <2>1, <2>2, <2>3, PlacesAre DEF Bears, Current, Claims
<1>8. row[m].epoch <= new.epoch /\ RowFree(m)
  BY <1>0, <1>5
<1>9. /\ new.status # "absent" /\ new.about = row[m].about
      /\ new.live => new.status = "running"
      /\ row[m].status \in Terminal => new.status \in Terminal
      /\ row[m].status = "succeeded" => new.status = "succeeded"
  BY <1>3 DEF Terminal
<1> QED
  BY <1>4, <1>6, <1>7, <1>8, <1>9, FrameRow

(* A claim: of a mutation that begins, or of one whose lease ran out.       *)
LEMMA FrameClaim ==
    ASSUME ActivationInv, NEW p \in Processes, pc[p] \in {"begin", "dBegin", "recClaim"},
           Startable(p) \/ Resumable(p), RowFree(req[p].m),
           pc[p] = "recClaim" => Resumable(p),
           RowStep(req[p].m, Claimed(p))
    PROVE  Framed(p) /\ \A m \in Mutations : row'[m].epoch \in Nat
<1>0. PICK m \in Mutations : m = req[p].m
  <2>1. ProcessOK(p, pc[p])
    BY DEF ActivationInv
  <2> QED
    BY <2>1, MutationsAre DEF ProcessOK, AskedOK
<1>1. ActivationTypeOK /\ RowsOK /\ WorldOK /\ row[m] \in Rows /\ ProcessOK(p, pc[p])
  BY <1>0 DEF ActivationInv, ActivationTypeOK
<1>2. row[m].epoch \in Nat /\ row[m].epoch <= faults /\ faults \in Nat /\ faults <= MaxFaults
  <2>1. row[m].epoch \in Nat /\ faults \in Nat /\ faults <= MaxFaults
    BY <1>1, Fields
  <2>2. CASE Startable(p)
    BY <1>0, <1>1, <2>1, <2>2 DEF Startable, RowsOK, NoRow, Me
  <2>3. CASE Resumable(p)
    BY <1>0, <1>1, <2>1, <2>3 DEF Resumable, RowsOK, Me
  <2> QED
    BY <2>1, <2>2, <2>3
<1>3. PICK new \in Rows : new = Claimed(p)
  <2>1. row[m].epoch + 1 \in 0..(MaxFaults + 1)
    BY <1>2, ActivationAssumption
  <2>2. req[p].about \in Activations \cup {None}
    BY <1>1, Fields
  <2>3. row[m].phase \in Phases
    BY <1>1, Fields
  <2>4. Claimed(p) \in Rows
    BY <1>0, <2>1, <2>2, <2>3 DEF Rows, Claimed, Me, Statuses
  <2> QED
    BY <2>4
<1>4. /\ new.status = "running" /\ new.epoch = row[m].epoch + 1 /\ new.live
      /\ new.about = req[p].about /\ new.phase = row[m].phase
  BY <1>0, <1>3 DEF Claimed, Me
<1>5. RowStep(m, new) /\ faults' \in Nat /\ faults <= faults'
  BY <1>0, <1>2, <1>3, ActivationAssumption DEF RowStep, Counting
<1>6. row[m].epoch <= new.epoch /\ new.epoch <= faults' + 1
  BY <1>2, <1>4, <1>5
<1>7. /\ row[m].status # "absent" => row[m].status = "running" /\ new.about = row[m].about
      /\ row[m].status = "absent" => ResourceFree(m) /\ row[m].phase = "none"
      /\ row[m].status \notin Terminal
  BY <1>0, <1>1, <1>4 DEF Startable, Resumable, RowsOK, NoRow, Me, Terminal
<1>8. RowsOK' /\ WorldOK'
  <2>1. ActiveRow(m) \/ ResourceFree(m)
    BY <1>7 DEF ActiveRow
  <2>2. new.phase \in EarlyPhases(m) => starts[m] = 0
    BY <1>1, <1>4 DEF RowsOK
  <2>3. new.phase \in EarlyPhases(m) => Steady
    <3>1. CASE row[m].status = "absent"
      BY <1>1, <1>7, <3>1 DEF WorldOK, ResourceFree, ActiveRow
    <3>2. CASE row[m].status # "absent"
      BY <1>1, <1>4, <1>7, <3>2 DEF WorldOK, ActiveRow
    <3> QED
      BY <3>1, <3>2
  <2>4. m \in Deactivations => new.about \in Activations
    BY <1>0, <1>1, <1>4, MutationsAre DEF ProcessOK, AskedOK
  <2>5. m \in Deactivations /\ new.phase # "none" =>
           running \subseteq {new.about} /\ route \in {new.about, None}
    BY <1>1, <1>4, <1>7 DEF WorldOK, ActiveRow
  <2> QED
    BY <1>4, <1>5, <1>6, <1>7, <2>1, <2>2, <2>3, <2>4, <2>5, RowFits
<1>9. ASSUME NEW q \in Processes, q # p, req[q].m = m PROVE Bears(q, new)
  <2>1. Me(q) = row[m] /\ ProcessOK(q, pc[q]) /\ req[q].epoch \in Nat
    BY <1>1, <1>9, Fields DEF Me, ActivationInv
  <2>2. pc[q] \in Claims => row[m].status # "absent" /\ req[q].epoch <= row[m].epoch
    BY <2>1 DEF ProcessOK, ClaimOK
  <2>3. pc[q] \in Claims => req[q].epoch # new.epoch
    BY <1>2, <1>4, <2>1, <2>2
  <2>4. pc[q] \in Late => ActiveRow(req[q].m)
    BY <1>7, <1>9, <2>2, PlacesAre DEF ActiveRow
  <2>5. pc[q] \in {"recClaim", "recFail"} => new.phase \in Recoverable
    BY <1>4, <2>1 DEF ProcessOK, SeenOK
  <2>6. pc[q] \notin {"verify", "confirm", "gone", "observe", "recover", "dRecover"}
    BY <1>7, <2>1 DEF ProcessOK, SeenOK, Terminal
  <2> QED
    BY <1>4, <2>1, <2>3, <2>4, <2>5, <2>6, PlacesAre DEF Bears, Claims
<1>10. row[m].epoch <= new.epoch /\ RowFree(m)
  BY <1>0, <1>6
<1>11. /\ new.status # "absent" /\ (row[m].status # "absent" => new.about = row[m].about)
       /\ new.live => new.status = "running"
       /\ row[m].status \in Terminal => new.status \in Terminal
       /\ row[m].status = "succeeded" => new.status = "succeeded"
  BY <1>4, <1>7 DEF Terminal
<1>12. Framed(p)
  BY <1>5, <1>8, <1>9, <1>10, <1>11, FrameRow
<1>13. \A n \in Mutations : row'[n].epoch \in Nat
  BY <1>12 DEF Framed, RestTyped, Rows
<1> QED
  BY <1>12, <1>13

(* Whoever has something left to change contradicts one that has observed   *)
(* the outcome.                                                             *)
LEMMA NotObserved ==
    ASSUME ActivationInv, NEW p \in Processes, NEW q \in Processes, req[q].m = req[p].m,
           pc[p] \in {"recover", "dRecover"}, Me(p).status = "outcome_unknown",
           pc[q] \in Effects
    PROVE  FALSE
<1>0. PICK m : m = req[p].m
  OBVIOUS
<1>1. ProcessOK(p, pc[p]) /\ ProcessOK(q, pc[q]) /\ Me(p) = row[m] /\ Me(q) = row[m]
      /\ ActiveRow(m)
  BY <1>0 DEF ActivationInv, Me, ActiveRow
<1>2. PhaseAt(m, pc[q], row[m].phase) /\ WorldAt(m, req[q].about, pc[q])
  BY <1>0, <1>1, PlacesAre DEF ProcessOK, LateOK
<1>3. pc[q] \in LateA => m \in Activations /\ req[q].about # m
  BY <1>0, <1>1 DEF ProcessOK, AskedOK
<1>4. pc[q] \in LateD => m \in Deactivations
  BY <1>0, <1>1 DEF ProcessOK, AskedOK
<1>5. CASE pc[p] = "recover"
  <2>1. active = m /\ m \in Activations /\ row[m].phase \in {"routed", "committed"}
    BY <1>0, <1>1, <1>5 DEF ProcessOK, SeenOK, AskedOK, Serves, Recoverable
  <2> QED
    BY <1>2, <1>3, <1>4, <2>1, MutationsAre DEF Effects, PhaseAt, WorldAt, LateA, LateD
<1>6. CASE pc[p] = "dRecover"
  <2>1. m \in Deactivations /\ row[m].phase \in {"unrouted", "retired"}
    BY <1>0, <1>1, <1>6 DEF ProcessOK, SeenOK, AskedOK
  <2> QED
    BY <1>2, <1>3, <2>1, MutationsAre DEF Effects, PhaseAt, LateA
<1> QED
  BY <1>5, <1>6

(* An unknown outcome that was observed to be a success.                    *)
LEMMA FrameRecover ==
    ASSUME ActivationInv, NEW p \in Processes, pc[p] \in {"recover", "dRecover"},
           Me(p).status = "outcome_unknown", RowFree(req[p].m),
           RowStep(req[p].m, [Me(p) EXCEPT !.status = "succeeded"])
    PROVE  Framed(p)
<1>0. PICK m \in Mutations : m = req[p].m
  <2>1. ProcessOK(p, pc[p])
    BY DEF ActivationInv
  <2> QED
    BY <2>1, AskedFor DEF Reading
<1>1. ActivationTypeOK /\ RowsOK /\ WorldOK /\ row[m] \in Rows /\ ProcessOK(p, pc[p])
  BY <1>0 DEF ActivationInv, ActivationTypeOK
<1>2. PICK new \in Rows : new = [row[m] EXCEPT !.status = "succeeded"]
  <2>1. [row[m] EXCEPT !.status = "succeeded"] \in Rows
    BY <1>1 DEF Rows, Statuses
  <2> QED
    BY <2>1
<1>3. /\ new.status = "succeeded" /\ new.epoch = row[m].epoch /\ new.live = row[m].live
      /\ new.about = row[m].about /\ new.phase = row[m].phase
      /\ row[m].status = "outcome_unknown" /\ ~row[m].live
  <2>1. row[m].status = "outcome_unknown" /\ ~row[m].live
    BY <1>0, <1>1 DEF ActivationTypeOK, Me
  <2> QED
    BY <1>1, <1>2, <2>1 DEF Rows
<1>4. RowStep(m, new) /\ faults \in Nat /\ faults' \in Nat /\ faults <= faults'
  BY <1>0, <1>1, <1>2, Fields, ActivationAssumption DEF RowStep, Counting, Me
<1>5. row[m].epoch <= new.epoch /\ new.epoch <= faults' + 1
  <2>1. row[m].epoch \in Nat /\ row[m].epoch <= faults + 1
    BY <1>1, Fields DEF RowsOK
  <2> QED
    BY <1>3, <1>4, <2>1
<1>6. ActiveRow(m) /\ Me(p) = row[m]
  BY <1>0, <1>3 DEF ActiveRow, Me
<1>7. Steady
  <2>1. CASE pc[p] = "recover"
    <3>1. Serves(m) /\ m \in Activations
      BY <1>0, <1>1, <1>3, <1>6, <2>1 DEF ProcessOK, SeenOK, AskedOK
    <3> QED
      BY <1>1, <3>1, MutationsAre DEF WorldOK, Serves, Steady
  <2>2. CASE pc[p] = "dRecover"
    <3>1. /\ Gone(row[m].about) /\ m \in Deactivations /\ row[m].phase # "none"
          /\ row[m].about \in Activations
      BY <1>0, <1>1, <1>3, <1>6, <2>2 DEF ProcessOK, SeenOK, AskedOK
    <3>2. running \subseteq {row[m].about} /\ route \in {row[m].about, None}
      BY <1>1, <1>6, <3>1 DEF WorldOK
    <3> QED
      BY <3>1, <3>2 DEF Gone, Steady
  <2> QED
    BY <2>1, <2>2
<1>8. RowsOK' /\ WorldOK'
  <2>1. new.phase \in EarlyPhases(m) => starts[m] = 0
    BY <1>1, <1>3 DEF RowsOK
  <2>2. m \in Deactivations => new.about \in Activations
    BY <1>1, <1>3 DEF RowsOK
  <2> QED
    BY <1>3, <1>4, <1>5, <1>7, <2>1, <2>2, RowFits DEF Terminal
<1>9. ASSUME NEW q \in Processes, q # p, req[q].m = m PROVE Bears(q, new)
  <2>1. Me(q) = row[m] /\ ProcessOK(q, pc[q]) /\ ActiveRow(req[q].m)
    BY <1>6, <1>9 DEF Me, ActivationInv
  <2>2. pc[q] \in Early \cup {"failClean"} => req[q].epoch # new.epoch
    BY <1>3, <2>1 DEF ProcessOK, ClaimOK, Current
  <2>3. pc[q] \notin Effects
    BY <1>0, <1>9, NotObserved
  <2>4. pc[q] \in {"recClaim", "recFail", "observe", "recover"} => new.phase \in Recoverable
    BY <1>3, <2>1 DEF ProcessOK, SeenOK
  <2> QED
    BY <1>3, <2>1, <2>2, <2>3, <2>4 DEF Bears
<1>10. row[m].epoch <= new.epoch /\ RowFree(m)
  BY <1>0, <1>5
<1>11. /\ new.status # "absent" /\ new.about = row[m].about
       /\ new.live => new.status = "running"
       /\ row[m].status \in Terminal => new.status \in Terminal
       /\ row[m].status = "succeeded" => new.status = "succeeded"
  BY <1>3 DEF Terminal
<1> QED
  BY <1>4, <1>8, <1>9, <1>10, <1>11, FrameRow

(* An effect: it changes what runs, is routed or is active.                 *)
LEMMA FrameEffect ==
    ASSUME ActivationInv, NEW p \in Processes, pc[p] \in Effects \cap Inside,
           row' = row, alloc' = alloc, hasty' = hasty, intact' = intact, Counting,
           held' \in [Mutations -> Processes \cup {None}],
           \A q \in Processes : q # p => HeldKept(q),
           starts' \in [Mutations -> 0..2], starts'[req[p].m] <= 1,
           \A n \in Mutations : n # req[p].m => starts'[n] = starts[n],
           active' \in Activations \cup {None}, running' \subseteq Activations,
           route' \in Activations \cup {None}, \E x : running' \subseteq {x},
           req[p].m \in Deactivations =>
              running' \subseteq {Me(p).about} /\ route' \in {Me(p).about, None},
           active' \in {active, req[p].m, None},
           \A a \in Activations : a # req[p].m => StaysOut(a)
    PROVE  Framed(p)
<1>0. PICK m \in Mutations : m = req[p].m
  <2>1. ProcessOK(p, pc[p])
    BY DEF ActivationInv
  <2> QED
    BY <2>1, AskedFor
<1>1. /\ ActivationTypeOK /\ RowsOK /\ WorldOK /\ ProcessOK(p, pc[p])
      /\ pc[p] \in Late /\ pc[p] \in Inside /\ pc[p] \in Effects
  BY PlacesAre DEF ActivationInv
<1>2. /\ ActiveRow(m) /\ row[m].phase \notin EarlyPhases(m) /\ row[m].status # "absent"
      /\ intact => row[m].status = "running"
      /\ Me(p) = row[m]
  BY <1>0, <1>1, LateIs DEF ProcessOK, LateOK, Me
<1>3. \A n \in Mutations : ActiveRow(n)' <=> ActiveRow(n)
  BY DEF ActiveRow
<1>4. \A n \in Mutations : ActiveRow(n) => n = m
  BY <1>1, <1>2 DEF RowsOK
<1>5. RestTyped'
  BY <1>1 DEF ActivationTypeOK, RestTyped, Counting
<1>6. RowsOK'
  <2>1. faults \in Nat /\ faults' \in Nat /\ \A n \in Mutations : row[n].epoch \in Nat
    BY <1>1, Fields, ActivationAssumption DEF Counting
  <2>2. \A n \in Mutations :
           /\ row[n].epoch <= faults + 1
           /\ row[n].status = "running" /\ ~row[n].live => row[n].epoch <= faults
    BY <1>1 DEF RowsOK
  <2>3. \A n \in Mutations :
           /\ row'[n].epoch <= faults' + 1
           /\ row'[n].status = "running" /\ ~row'[n].live => row'[n].epoch <= faults'
    BY <2>1, <2>2 DEF Counting
  <2>4. \A n \in Mutations :
           /\ row'[n].phase \in EarlyPhases(n) => starts'[n] = 0
           /\ starts'[n] <= 1
    <3>1. ASSUME NEW n \in Mutations
          PROVE  (row'[n].phase \in EarlyPhases(n) => starts'[n] = 0) /\ starts'[n] <= 1
      <4>1. CASE n = m
        BY <1>0, <1>2, <4>1
      <4>2. CASE n # m
        BY <1>0, <1>1, <4>2 DEF RowsOK
      <4> QED
        BY <4>1, <4>2
    <3> QED
      BY <3>1
  <2>5. \A n \in Mutations :
           /\ row'[n].status = "absent" => row'[n] = NoRow
           /\ n \in Deactivations /\ row'[n].status # "absent" => row'[n].about \in Activations
    BY <1>1 DEF RowsOK
  <2>6. \A x, n \in Mutations : ActiveRow(x)' /\ ActiveRow(n)' => x = n
    BY <1>3, <1>4
  <2> QED
    BY <2>3, <2>4, <2>5, <2>6 DEF RowsOK, EarlyPhases, NoRow
<1>7. WorldOK'
  <2>1. ~ \A n \in Mutations : ~ActiveRow(n)'
    BY <1>2, <1>3
  <2>2. \A n \in Mutations : ~(ActiveRow(n)' /\ row'[n].phase \in EarlyPhases(n))
    BY <1>2, <1>3, <1>4
  <2>3. \A d \in Deactivations : ActiveRow(d)' /\ row'[d].phase # "none" =>
           running' \subseteq {row'[d].about} /\ route' \in {row'[d].about, None}
    BY <1>0, <1>2, <1>3, <1>4, MutationsAre
  <2>4. active' # None => row'[active'].status # "absent"
    BY <1>0, <1>1, <1>2 DEF WorldOK
  <2>5. intact' => \A a \in Activations \ hasty' : alloc'[a] = "retired" =>
           row'[a].status \in Terminal /\ a \notin running' /\ route' # a /\ active' # a
    <3> SUFFICES ASSUME intact', NEW a \in Activations \ hasty', alloc'[a] = "retired"
                 PROVE  /\ row'[a].status \in Terminal
                        /\ a \notin running' /\ route' # a /\ active' # a
      OBVIOUS
    <3>1. row[a].status \in Terminal /\ a \notin running /\ route # a /\ active # a
      BY <1>1 DEF WorldOK
    <3>2. a # m
      BY <1>2, <3>1 DEF Terminal
    <3> QED
      BY <1>0, <3>1, <3>2 DEF StaysOut
  <2> QED
    BY <2>1, <2>2, <2>3, <2>4, <2>5 DEF WorldOK, EarlyPhases, Terminal
<1>8. \A n \in Mutations : row[n].epoch <= row'[n].epoch
  <2>1. \A n \in Mutations : row[n].epoch \in Nat
    BY <1>1, Fields
  <2> QED
    BY <2>1
<1>9. ASSUME NEW q \in Processes, q # p, req'[q] = req[q], NEW here \in Places, here = pc[q]
      PROVE  ProcessOK(q, here)'
  <2>1. ProcessOK(q, here) /\ Apart(p, q) /\ Apart(q, p)
    BY <1>9 DEF ActivationInv
  <2>2. here \in Late => req[q].m # m
    BY <1>0, <1>1, <1>9, <2>1 DEF Apart
  <2>3. ~Relies(q, here)
    <3>1. ASSUME here \in {"transitioning", "dPrepared"}, Current(q) PROVE FALSE
      <4>1. here \in Early
        BY <3>1 DEF Early, EarlyA, EarlyD
      <4>2. req[q].m \in Mutations /\ Me(q).status = "running"
            /\ Me(q).phase \in EarlyPhases(req[q].m)
        BY <2>1, <3>1, <4>1, AskedFor DEF ProcessOK, ClaimOK
      <4>3. req[q].m = m
        BY <1>4, <4>2 DEF ActiveRow, Me
      <4> QED
        BY <1>2, <4>2, <4>3 DEF Me
    <3>2. ASSUME here = "failClean", Current(q) PROVE FALSE
      <4>1. req[q].m \in Mutations /\ Me(q).status = "running"
        BY <2>1, <3>2, AskedFor DEF ProcessOK, ClaimOK, Claims
      <4>2. req[q].m = m
        BY <1>4, <4>1 DEF ActiveRow, Me
      <4> QED
        BY <1>0, <1>1, <1>9, <2>1, <3>2, <4>2 DEF Apart
    <3>3. ASSUME here \in Late, ActiveRow(req[q].m) PROVE FALSE
      BY <1>4, <2>1, <2>2, <3>3, AskedFor
    <3>4. ASSUME here \in {"recover", "dRecover"}, Me(q).status = "outcome_unknown" PROVE FALSE
      <4>1. req[q].m \in Mutations
        BY <2>1, <3>4, AskedFor DEF Reading
      <4>2. req[q].m = m
        BY <1>4, <3>4, <4>1 DEF ActiveRow, Me
      <4> QED
        BY <1>0, <1>1, <1>9, <3>4, <4>2, NotObserved
    <3> QED
      BY <3>1, <3>2, <3>3, <3>4 DEF Relies
  <2>4. req[q].m \in Mutations => SameRow(req[q].m)
    BY DEF SameRow
  <2>5. VerdictsKept
    BY DEF VerdictsKept
  <2>6. \A a \in Activations : intact' /\ row[a].status \in Terminal => StaysOut(a)
    BY <1>0, <1>2 DEF Terminal
  <2>7. here \in Late => starts'[req[q].m] = starts[req[q].m]
    BY <1>0, <2>1, <2>2, AskedFor
  <2> QED
    BY <1>9, <2>1, <2>3, <2>4, <2>5, <2>6, <2>7, ProcessStands
<1> QED
  BY <1>5, <1>6, <1>7, <1>8, <1>9 DEF Framed

-----------------------------------------------------------------------------
(* The steps of a process, one after the other.                             *)
Quiet == UNCHANGED <<row, held, world, aux>> /\ Counting

(* A step that writes neither row nor world leaves everything to the        *)
(* others.                                                                  *)
LEMMA QuietFrame ==
    ASSUME ActivationInv, NEW p \in Processes, Quiet
    PROVE  Framed(p) /\ \A m \in Mutations : row'[m].epoch = row[m].epoch
<1>1. ActivationTypeOK /\ row' = row /\ held' = held /\ alloc' = alloc /\ starts' = starts
      /\ hasty' = hasty /\ intact' = intact /\ WorldKept /\ RetiredKept
  BY DEF ActivationInv, Quiet, world, aux, WorldKept, RetiredKept
<1>2. \A q \in Processes : HeldKept(q)
  BY <1>1 DEF HeldKept
<1>3. /\ alloc' \in [Activations -> {"none", "held", "retired"}]
      /\ hasty' \subseteq Activations /\ held' \in [Mutations -> Processes \cup {None}]
  BY <1>1 DEF ActivationTypeOK
<1> QED
  BY <1>1, <1>2, <1>3, FrameQuiet DEF Quiet

(* begin claims the row: with a new epoch, or as the only active row of     *)
(* the application.                                                         *)
LEMMA ClaimKeeps ==
    ASSUME ActivationInv, NEW p \in Processes, pc[p] \in {"begin", "dBegin", "recClaim"},
           Startable(p) \/ Resumable(p), RowFree(req[p].m),
           pc[p] = "recClaim" => Resumable(p),
           NEW place \in {"read", "check", "dRead", "failUnknown", "recFail"},
           place \in {"read", "check"} =>
              pc[p] = "begin" /\ Me(p).phase \in {"none", "prepared"},
           place = "dRead" => pc[p] = "dBegin" /\ Me(p).phase = "none",
           place = "recFail" => pc[p] = "recClaim",
           Claim(p, place), UNCHANGED <<held, world, aux>>, Counting
    PROVE  ActivationInv'
<1>0. PICK m \in Mutations : m = req[p].m
  <2>1. ProcessOK(p, pc[p])
    BY DEF ActivationInv
  <2> QED
    BY <2>1, MutationsAre DEF ProcessOK, AskedOK
<1>1. /\ ActivationTypeOK /\ ProcessOK(p, pc[p]) /\ Me(p) = row[m]
      /\ row[m].epoch \in Nat
  BY <1>0, Fields DEF ActivationInv, Me
<1>2. RowStep(req[p].m, Claimed(p)) /\ Goto(p, place) /\ lifecycle' = lifecycle /\ told' = told
  BY DEF Claim, RowStep
<1>3. Framed(p) /\ \A n \in Mutations : row'[n].epoch \in Nat
  BY <1>2, FrameClaim
<1>4. row'[m] = Claimed(p)
  BY <1>0, <1>1, <1>2 DEF RowStep, ActivationTypeOK
<1>5. /\ row'[m].status = "running" /\ row'[m].epoch = row[m].epoch + 1
      /\ row'[m].phase = row[m].phase /\ row'[m].about = req[p].about
  BY <1>1, <1>4 DEF Claimed
<1>6. /\ req'[p].epoch = row[m].epoch + 1 /\ req'[p].m = m /\ req'[p].about = req[p].about
      /\ \A q \in Processes : q # p => req'[q] = req[q]
  BY <1>0, <1>1, Fields DEF Claim, ActivationTypeOK, Reqs
<1>7. req' \in [Processes -> Reqs]
  <2>1. row'[m] \in Rows
    BY <1>3 DEF Framed, RestTyped
  <2>2. row[m].epoch + 1 \in 0..(MaxFaults + 1)
    BY <1>5, <2>1 DEF Rows
  <2> QED
    BY <1>0, <1>1, <2>2 DEF Claim, ActivationTypeOK, Reqs
<1>8. place \in Places /\ place \in Claims /\ place \notin Late /\ place # "failClean"
  BY DEF Places, Claims, Early, EarlyA, EarlyD, Late, LateA, LateD
<1>9. ActivationTypeOK'
  <2>1. pc' \in [Processes -> Places]
    BY <1>1, <1>2, <1>8 DEF Goto, ActivationTypeOK
  <2> QED
    BY <1>1, <1>2, <1>3, <1>7, <2>1 DEF ActivationTypeOK, RestTyped, Framed
<1>10. ToldIsRecorded'
  BY <1>1, <1>2, <1>3 DEF ActivationInv, ToldIsRecorded, Framed, ActivationTypeOK
<1>11. ProcessOK(p, place)'
  <2>0. Me(p)' = row'[m] /\ Current(p)'
    BY <1>5, <1>6 DEF Me, Current
  <2>1. AskedOK(p, place)'
    <3>1. /\ place \in {"read", "check"} => m \in Activations /\ req[p].about # m
          /\ place = "recFail" => m \in Activations
          /\ place = "dRead" => m \in Deactivations /\ req[p].about \in Activations
      BY <1>0, <1>1 DEF ProcessOK, AskedOK
    <3> QED
      BY <1>6, <3>1 DEF AskedOK, Claims, Early, EarlyA, EarlyD, LateA, LateD
  <2>2. ClaimOK(p, place)'
    <3>1. place \in Early => row'[m].phase \in EarlyPhases(m)
      <4>1. pc[p] = "begin" => m \in Activations
        BY <1>0, <1>1 DEF ProcessOK, AskedOK
      <4> QED
        BY <1>1, <1>5, <4>1 DEF Early, EarlyA, EarlyD, EarlyPhases
    <3> QED
      BY <1>1, <1>5, <1>6, <2>0, <3>1 DEF ClaimOK, EarlyPhases
  <2>3. LateOK(p, place)'
    BY <1>8 DEF LateOK, Effects, Late, LateA, LateD, Inside
  <2>4. SeenOK(p, place)'
    <3>1. place = "recFail" => row'[m].phase \in Recoverable
      BY <1>1, <1>5 DEF ProcessOK, SeenOK
    <3> QED
      BY <2>0, <3>1 DEF SeenOK, Recoverable
  <2> QED
    BY <2>1, <2>2, <2>3, <2>4 DEF ProcessOK
<1>12. ASSUME NEW q \in Processes, q # p PROVE Apart(p, q)' /\ Apart(q, p)'
  <2>1. pc'[p] = place /\ pc'[q] = pc[q] /\ req'[q] = req[q]
    BY <1>1, <1>2, <1>6, <1>12 DEF Goto, ActivationTypeOK
  <2>2. pc[q] \in Claims /\ req[q].m = m => req[q].epoch <= row[m].epoch
    BY <1>12 DEF ActivationInv, ProcessOK, ClaimOK, Me
  <2>3. req[q].epoch \in Nat
    BY <1>1, Fields
  <2>4. pc[q] \in Claims /\ req[q].m = m => req[q].epoch # row[m].epoch + 1
    BY <1>1, <2>2, <2>3
  <2> QED
    BY <1>6, <1>8, <2>1, <2>4 DEF Apart
<1> QED
  BY <1>2, <1>3, <1>6, <1>8, <1>9, <1>10, <1>11, <1>12, OneMoves DEF Framed

(* Calls and faults only go up, and stay within their bounds.               *)
LEMMA CountingIs ==
    ASSUME ActivationTypeOK, Calm \/ Disturbed, requests' = requests
    PROVE  Counting
<1>1. faults \in Nat /\ MaxFaults \in Nat /\ faults <= MaxFaults /\ requests \in 0..MaxRequests
  BY ActivationAssumption DEF ActivationTypeOK
<1> QED
  BY <1>1 DEF Calm, Disturbed, Counting

(* A request ends, and nothing else happens.                                *)
LEMMA QuietEnds ==
    ASSUME ActivationInv, NEW p \in Processes, NEW b, End(p, b), Quiet,
           b => req[p].m \in Mutations /\ Me(p).status = "succeeded"
    PROVE  ActivationInv'
<1>1. Framed(p)
  BY QuietFrame
<1>2. row' = row
  BY DEF Quiet
<1> QED
  BY <1>1, <1>2, EndKeeps DEF Me

(* A request goes on as it is, and nothing else happens.                    *)
LEMMA QuietStays ==
    ASSUME ActivationInv, NEW p \in Processes, NEW place \in Places, Goto(p, place), Stay, Quiet,
           ProcessOK(p, place)',
           \/ place \notin Claims
           \/ /\ pc[p] \in Claims
              /\ place \in Late => pc[p] \in Late \/ (pc[p] \in Early /\ Current(p))
              /\ place = "failClean" => pc[p] \in Early
    PROVE  ActivationInv'
<1>1. Framed(p) /\ \A m \in Mutations : row'[m].epoch = row[m].epoch
  BY QuietFrame
<1> QED
  BY <1>1, StayKeeps

(* A request that arrives claims nothing yet.                               *)
LEMMA RequestKeeps ==
    ASSUME ActivationInv, NEW p \in Processes, NEW op \in Ops, NEW m \in Mutations \cup {None},
           NEW about \in Activations \cup {None},
           NEW place \in {"allocate", "dBegin", "recRead", "rRead"},
           place = "allocate" => m \in Activations /\ about # m,
           place = "dBegin" => m \in Deactivations /\ about \in Activations,
           place = "recRead" => m \in Activations,
           place = "rRead" => about \in Activations,
           Request(p, Asked(op, m, about), place), lifecycle' \in Processes \cup {None}
    PROVE  ActivationInv'
<1>1. ActivationTypeOK /\ requests \in 0..MaxRequests /\ MaxRequests \in Nat
  BY ActivationAssumption DEF ActivationInv, ActivationTypeOK
<1>2. Quiet
  <2>1. requests' \in 0..MaxRequests
    BY <1>1 DEF Request
  <2>2. faults' \in 0..MaxFaults /\ faults <= faults'
    BY <1>1, ActivationAssumption DEF Request, ActivationTypeOK
  <2> QED
    BY <2>1, <2>2 DEF Request, Quiet, Counting
<1>3. PICK r \in Reqs : r = Asked(op, m, about)
  <2>1. 0 \in 0..(MaxFaults + 1)
    BY ActivationAssumption
  <2>2. Asked(op, m, about) \in Reqs
    BY <2>1 DEF Asked, Reqs, Phases
  <2> QED
    BY <2>2
<1>4. /\ r.m = m /\ r.about = about
      /\ req' = [req EXCEPT ![p] = r] /\ req'[p] = r
      /\ Goto(p, place) /\ told' = told
  BY <1>1, <1>3 DEF Request, Asked, ActivationTypeOK
<1>5. place \in Places \ Claims
  BY DEF Places, Claims, Early, EarlyA, EarlyD, Late, LateA, LateD
<1>6. ProcessOK(p, place)'
  <2>1. AskedOK(p, place)'
    BY <1>4, <1>5 DEF AskedOK, Claims, Early, EarlyA, EarlyD, LateA, LateD
  <2>2. ClaimOK(p, place)'
    BY <1>5, PlacesAre DEF ClaimOK
  <2>3. LateOK(p, place)'
    BY DEF LateOK, Late, LateA, LateD, Effects, Inside
  <2>4. SeenOK(p, place)'
    BY DEF SeenOK
  <2> QED
    BY <2>1, <2>2, <2>3, <2>4 DEF ProcessOK
<1>7. Framed(p)
  BY <1>2, QuietFrame
<1> QED
  BY <1>4, <1>5, <1>6, <1>7, TurnKeeps

(* activate, deactivate, reconcile and retire preserve the invariant as     *)
(* they arrive.                                                             *)
LEMMA RequestsKeep ==
    ASSUME ActivationInv, NEW p \in Processes,
           RequestActivate(p) \/ RequestDeactivate(p) \/ RequestReconcile(p) \/ RequestRetire(p)
    PROVE  ActivationInv'
<1>1. CASE RequestActivate(p)
  <2>1. PICK a \in Activations, e \in Activations \cup {None} :
           e # a /\ LockedRequest(p, Asked("activate", a, e), "allocate")
    BY <1>1 DEF RequestActivate
  <2> QED
    BY <2>1, MutationsAre, RequestKeeps DEF LockedRequest, Ops
<1>2. CASE RequestDeactivate(p)
  <2>1. PICK d \in Deactivations, a \in Activations :
           LockedRequest(p, Asked("deactivate", d, a), "dBegin")
    BY <1>2 DEF RequestDeactivate
  <2> QED
    BY <2>1, MutationsAre, RequestKeeps DEF LockedRequest, Ops
<1>3. CASE RequestReconcile(p)
  <2>1. PICK a \in Activations : LockedRequest(p, Asked("reconcile", a, None), "recRead")
    BY <1>3 DEF RequestReconcile
  <2> QED
    BY <2>1, MutationsAre, RequestKeeps DEF LockedRequest, Ops
<1>4. CASE RequestRetire(p)
  <2>1. PICK a \in Activations : Request(p, Asked("retire", None, a), "rRead")
    BY <1>4 DEF RequestRetire
  <2>2. lifecycle' \in Processes \cup {None}
    BY <1>4 DEF RequestRetire, ActivationInv, ActivationTypeOK
  <2> QED
    BY <2>1, <2>2, RequestKeeps DEF Ops
<1> QED
  BY <1>1, <1>2, <1>3, <1>4

(* The allocation of ports preserves the invariant.                         *)
LEMMA AllocateKeeps ==
    ASSUME ActivationInv, NEW p \in Processes, Allocate(p)
    PROVE  ActivationInv'
<1>1. ActivationTypeOK /\ ProcessOK(p, "allocate") /\ pc[p] = "allocate"
  BY DEF ActivationInv, Allocate
<1>2. req[p].m \in Activations /\ req[p].about # req[p].m
  BY <1>1 DEF ProcessOK, AskedOK
<1>3. Counting
  BY <1>1, CountingIs DEF Allocate
<1>4. /\ row' = row /\ held' = held /\ starts' = starts /\ hasty' = hasty /\ intact' = intact
      /\ WorldKept
      /\ alloc' \in [Activations -> {"none", "held", "retired"}]
      /\ \A a \in Activations : alloc'[a] = "retired" <=> alloc[a] = "retired"
  BY <1>1, <1>2 DEF Allocate, aux, WorldKept, ActivationTypeOK
<1>5. /\ \A q \in Processes : HeldKept(q)
      /\ hasty' \subseteq Activations /\ held' \in [Mutations -> Processes \cup {None}]
      /\ RetiredKept
  BY <1>1, <1>4 DEF HeldKept, ActivationTypeOK, RetiredKept
<1>6. Framed(p)
  BY <1>3, <1>4, <1>5, FrameQuiet
<1>7. CASE Goto(p, "begin") /\ Stay
  <2>1. "begin" \in Places \ Claims
    BY DEF Places, Claims, Early, EarlyA, EarlyD, Late, LateA, LateD
  <2>2. ProcessOK(p, "begin")'
    <3>1. AskedOK(p, "begin")'
      BY <1>2, <1>7 DEF Stay, AskedOK, EarlyA, LateA, EarlyD, LateD, Claims, Early, Late
    <3>2. ClaimOK(p, "begin")'
      BY <2>1, PlacesAre DEF ClaimOK
    <3>3. LateOK(p, "begin")'
      BY DEF LateOK, Late, LateA, LateD, Effects, Inside
    <3>4. SeenOK(p, "begin")'
      BY DEF SeenOK
    <3> QED
      BY <3>1, <3>2, <3>3, <3>4 DEF ProcessOK
  <2> QED
    BY <1>6, <1>7, <2>1, <2>2, StayKeeps
<1>8. CASE End(p, FALSE)
  BY <1>6, <1>8, EndKeeps
<1> QED
  BY <1>7, <1>8 DEF Allocate

(* What a process keeps of the row that it has read.                        *)
LEMMA NotedIs ==
    ASSUME ActivationTypeOK, NEW p \in Processes, req[p].m \in Mutations
    PROVE  \E r \in Reqs :
              /\ Noted(p) = [req EXCEPT ![p] = r]
              /\ r.m = req[p].m /\ r.about = Me(p).about /\ r.epoch = Me(p).epoch
              /\ r.unknown <=> Me(p).status = "outcome_unknown"
<1> DEFINE r == [op |-> req[p].op, m |-> req[p].m, about |-> Me(p).about,
                 epoch |-> Me(p).epoch, phase |-> Me(p).phase,
                 unknown |-> Me(p).status = "outcome_unknown"]
<1>1. req[p] \in Reqs /\ Me(p) \in Rows
  BY DEF ActivationTypeOK, Me
<1>2. r \in Reqs
  BY <1>1 DEF Reqs, Rows
<1>3. Noted(p) = [req EXCEPT ![p] = r]
  BY DEF Noted
<1> QED
  BY <1>2, <1>3

(* A claim whose acknowledgement was lost.                                  *)
LEMMA LostClaimKeeps ==
    ASSUME ActivationInv, NEW p \in Processes, pc[p] \in {"begin", "dBegin", "recClaim"},
           RowFree(req[p].m), Disturbed, End(p, FALSE), UNCHANGED <<held, world, aux, requests>>,
           \/ /\ Startable(p) \/ Resumable(p)
              /\ pc[p] = "recClaim" => Resumable(p)
              /\ row' = [row EXCEPT ![req[p].m] = Claimed(p)]
           \/ row' = row
    PROVE  ActivationInv'
<1>1. Counting
  BY CountingIs DEF ActivationInv
<1>2. CASE row' = row
  <2>1. Quiet
    BY <1>1, <1>2 DEF Quiet
  <2> QED
    BY <2>1, QuietEnds
<1>3. CASE /\ Startable(p) \/ Resumable(p)
           /\ pc[p] = "recClaim" => Resumable(p)
           /\ row' = [row EXCEPT ![req[p].m] = Claimed(p)]
  <2>1. RowStep(req[p].m, Claimed(p))
    BY <1>1, <1>3 DEF RowStep
  <2>2. Framed(p)
    BY <1>3, <2>1, FrameClaim
  <2> QED
    BY <2>2, EndKeeps
<1> QED
  BY <1>2, <1>3

(* begin of an activation: a new claim, a replay of a success, a            *)
(* resumption, or a refusal.                                                *)
LEMMA BeginKeeps ==
    ASSUME ActivationInv, NEW p \in Processes, Begin(p)
    PROVE  ActivationInv'
<1>1. /\ ActivationTypeOK /\ ProcessOK(p, "begin") /\ pc[p] = "begin" /\ RowFree(req[p].m)
      /\ UNCHANGED <<held, world, aux, requests>>
  BY DEF ActivationInv, Begin, BeginOr
<1>2. req[p].m \in Mutations /\ req[p].m \in Activations
  BY <1>1, MutationsAre DEF ProcessOK, AskedOK
<1>3. Calm \/ Disturbed => Counting
  BY <1>1, CountingIs
<1>4. ASSUME Startable(p), Claim(p, "read"), Calm PROVE ActivationInv'
  <2>1. Me(p).phase = "none"
    BY <1>2, <1>4 DEF Startable, ActivationInv, RowsOK, NoRow, Me
  <2> QED
    BY <1>1, <1>3, <1>4, <2>1, ClaimKeeps
<1>5. ASSUME Resumable(p), Claim(p, Resumed(Me(p).phase)), Calm PROVE ActivationInv'
  <2>1. PICK place \in {"read", "check", "failUnknown"} :
           /\ place = Resumed(Me(p).phase)
           /\ place \in {"read", "check"} => Me(p).phase \in {"none", "prepared"}
    BY DEF Resumed
  <2> QED
    BY <1>1, <1>3, <1>5, <2>1, ClaimKeeps
<1>6. ASSUME Replayable(p), UNCHANGED row, Calm,
             IF Me(p).status = "succeeded" THEN Goto(p, "verify") /\ Stay ELSE End(p, FALSE)
      PROVE  ActivationInv'
  <2>1. Quiet
    BY <1>1, <1>3, <1>6 DEF Quiet
  <2>2. CASE Me(p).status = "succeeded" /\ Goto(p, "verify") /\ Stay
    <3>1. "verify" \in Places \ Claims
      BY DEF Places, Claims, Early, EarlyA, EarlyD, Late, LateA, LateD
    <3>2. ProcessOK(p, "verify")'
      <4>1. AskedOK(p, "verify")'
        BY <1>2, <2>2 DEF Stay, AskedOK, EarlyA, LateA, EarlyD, LateD, Claims, Early, Late
      <4>2. ClaimOK(p, "verify")'
        BY <3>1, PlacesAre DEF ClaimOK
      <4>3. LateOK(p, "verify")'
        BY DEF LateOK, Late, LateA, LateD, Effects, Inside
      <4>4. Me(p)' = Me(p)
        BY <1>6, <2>2 DEF Me, Stay
      <4>5. SeenOK(p, "verify")'
        BY <2>2, <4>4 DEF SeenOK
      <4> QED
        BY <4>1, <4>2, <4>3, <4>5 DEF ProcessOK
    <3> QED
      BY <2>1, <2>2, <3>1, <3>2, QuietStays
  <2>3. CASE End(p, FALSE)
    BY <2>1, <2>3, QuietEnds
  <2> QED
    BY <1>6, <2>2, <2>3
<1>7. ASSUME End(p, FALSE), UNCHANGED row, Calm PROVE ActivationInv'
  <2>1. Quiet
    BY <1>1, <1>3, <1>7 DEF Quiet
  <2> QED
    BY <1>7, <2>1, QuietEnds
<1>8. ASSUME Disturbed, End(p, FALSE),
             \/ (Startable(p) \/ Resumable(p)) /\ row' = [row EXCEPT ![req[p].m] = Claimed(p)]
             \/ UNCHANGED row
      PROVE  ActivationInv'
  BY <1>1, <1>8, LostClaimKeeps
<1> QED
  BY <1>4, <1>5, <1>6, <1>7, <1>8 DEF Begin, BeginOr

(* begin of a deactivation.                                                 *)
LEMMA DBeginKeeps ==
    ASSUME ActivationInv, NEW p \in Processes, DBegin(p)
    PROVE  ActivationInv'
<1>1. /\ ActivationTypeOK /\ ProcessOK(p, "dBegin") /\ pc[p] = "dBegin" /\ RowFree(req[p].m)
      /\ UNCHANGED <<held, world, aux, requests>>
  BY DEF ActivationInv, DBegin, BeginOr
<1>2. req[p].m \in Mutations /\ req[p].m \in Deactivations /\ req[p].about \in Activations
  BY <1>1, MutationsAre DEF ProcessOK, AskedOK
<1>3. Calm \/ Disturbed => Counting
  BY <1>1, CountingIs
<1>4. ASSUME Startable(p), Claim(p, "dRead"), Calm PROVE ActivationInv'
  <2>1. Me(p).phase = "none"
    BY <1>2, <1>4 DEF Startable, ActivationInv, RowsOK, NoRow, Me
  <2> QED
    BY <1>1, <1>3, <1>4, <2>1, ClaimKeeps
<1>5. ASSUME Resumable(p), Calm,
             Claim(p, IF Me(p).phase = "none" THEN "dRead" ELSE "failUnknown")
      PROVE  ActivationInv'
  <2>1. PICK place \in {"dRead", "failUnknown"} :
           /\ place = IF Me(p).phase = "none" THEN "dRead" ELSE "failUnknown"
           /\ place = "dRead" => Me(p).phase = "none"
    OBVIOUS
  <2> QED
    BY <1>1, <1>3, <1>5, <2>1, ClaimKeeps
<1>6. ASSUME End(p, FALSE), UNCHANGED row, Calm PROVE ActivationInv'
  <2>1. Quiet
    BY <1>1, <1>3, <1>6 DEF Quiet
  <2> QED
    BY <1>6, <2>1, QuietEnds
<1>7. ASSUME Replayable(p), UNCHANGED row, Calm,
             Me(p).phase \in {"unrouted", "retired"}, Gone(req[p].about),
             Me(p).status # "failed_terminal",
             req' = Noted(p), UNCHANGED <<lifecycle, told>>,
             Goto(p, IF Me(p).status = "succeeded" THEN "gone" ELSE "dRecover")
      PROVE  ActivationInv'
  <2>1. Quiet /\ Framed(p)
    BY <1>1, <1>3, <1>7, QuietFrame DEF Quiet
  <2>2. PICK r \in Reqs : /\ req' = [req EXCEPT ![p] = r]
                          /\ r.m = req[p].m /\ r.about = Me(p).about
    BY <1>1, <1>2, <1>7, NotedIs
  <2>3. PICK place \in {"gone", "dRecover"} :
           /\ Goto(p, place)
           /\ place = "gone" => Me(p).status = "succeeded"
           /\ place = "dRecover" => Me(p).status = "outcome_unknown"
    BY <1>7 DEF Replayable, Terminal
  <2>4. place \in Places \ Claims
    BY DEF Places, Claims, Early, EarlyA, EarlyD, Late, LateA, LateD
  <2>5. /\ req'[p] = r /\ r.about = req[p].about /\ Me(p)' = Me(p)
        /\ Me(p).about = req[p].about
    BY <1>1, <1>7, <2>2 DEF Me, Replayable, ActivationTypeOK
  <2>6. ProcessOK(p, place)'
    <3>1. AskedOK(p, place)'
      BY <1>2, <2>2, <2>4, <2>5 DEF AskedOK, EarlyA, LateA, EarlyD, LateD, Claims, Early, Late
    <3>2. ClaimOK(p, place)'
      BY <2>4, PlacesAre DEF ClaimOK
    <3>3. LateOK(p, place)'
      BY DEF LateOK, Late, LateA, LateD, Effects, Inside
    <3>4. Gone(req[p].about)'
      BY <1>1, <1>7, <2>5 DEF Gone, world
    <3>5. SeenOK(p, place)'
      BY <1>7, <2>3, <2>5, <3>4 DEF SeenOK, Gone
    <3> QED
      BY <3>1, <3>2, <3>3, <3>5 DEF ProcessOK
  <2>7. lifecycle' \in Processes \cup {None} /\ told' = told
    BY <1>1, <1>7 DEF ActivationTypeOK
  <2> QED
    BY <2>1, <2>2, <2>3, <2>4, <2>6, <2>7, TurnKeeps
<1>8. ASSUME Disturbed, End(p, FALSE),
             \/ (Startable(p) \/ Resumable(p)) /\ row' = [row EXCEPT ![req[p].m] = Claimed(p)]
             \/ UNCHANGED row
      PROVE  ActivationInv'
  BY <1>1, <1>8, LostClaimKeeps
<1> QED
  BY <1>4, <1>5, <1>6, <1>7, <1>8 DEF DBegin, BeginOr

(* Where a claim ends in a failure.                                         *)
LEMMA UnknownOK ==
    ASSUME ActivationInv, NEW p \in Processes, pc[p] \in Claims, req'[p] = req[p],
           Me(p)'.status # "absent", Me(p)'.about = Me(p).about, Me(p)'.epoch = Me(p).epoch
    PROVE  ProcessOK(p, "failUnknown")'
<1>1. ProcessOK(p, pc[p])
  BY DEF ActivationInv
<1>2. req[p].m \in Mutations /\ Me(p).about = req[p].about /\ req[p].epoch <= Me(p).epoch
  BY <1>1 DEF ProcessOK, AskedOK, ClaimOK
<1>3. /\ "failUnknown" \notin Early \cup Late \cup LateA \cup LateD \cup EarlyA \cup EarlyD
      /\ "failUnknown" \notin Effects \cup Inside
  BY DEF Early, EarlyA, EarlyD, Late, LateA, LateD, Effects, Inside
<1> QED
  BY <1>2, <1>3 DEF ProcessOK, AskedOK, ClaimOK, LateOK, SeenOK

(* A failure before the effects leaves everything as it was.                *)
LEMMA CleanOK ==
    ASSUME ActivationInv, NEW p \in Processes, pc[p] \in Early, req'[p] = req[p], WorldKept,
           Me(p)'.status = Me(p).status, Me(p)'.about = Me(p).about, Me(p)'.epoch = Me(p).epoch
    PROVE  ProcessOK(p, "failClean")'
<1>1. ProcessOK(p, pc[p]) /\ WorldOK /\ pc[p] \in Claims
  BY PlacesAre DEF ActivationInv
<1>2. /\ req[p].m \in Mutations /\ Me(p).about = req[p].about /\ req[p].epoch <= Me(p).epoch
      /\ Me(p).status # "absent"
      /\ Current(p) => Me(p).status = "running" /\ Me(p).phase \in EarlyPhases(req[p].m)
  BY <1>1 DEF ProcessOK, AskedOK, ClaimOK
<1>3. Current(p) => Steady
  BY <1>1, <1>2 DEF WorldOK, ActiveRow, Me
<1>4. /\ "failClean" \notin Early \cup Late \cup LateA \cup LateD \cup EarlyA \cup EarlyD
      /\ "failClean" \notin Effects \cup Inside
  BY DEF Early, EarlyA, EarlyD, Late, LateA, LateD, Effects, Inside
<1>5. Current(p)' => Me(p)'.status = "running" /\ Steady'
  BY <1>2, <1>3 DEF Current, Steady, WorldKept
<1> QED
  BY <1>2, <1>4, <1>5 DEF ProcessOK, AskedOK, ClaimOK, LateOK, SeenOK

(* Before the effects nothing but the place changes.                        *)
LEMMA EarlyKeeps ==
    ASSUME ActivationInv, NEW p \in Processes, pc[p] \in Early, Quiet, Stay,
           NEW place \in Early \cup {"failClean"}, Goto(p, place),
           place \in EarlyA => pc[p] \in EarlyA, place \in EarlyD => pc[p] \in EarlyD,
           place \in {"transitioning", "dPrepared"} => active = req[p].about
    PROVE  ActivationInv'
<1>1. ProcessOK(p, pc[p]) /\ pc[p] \in Claims /\ place \in Claims /\ place \notin Late
      /\ place \in Places
  BY PlacesAre DEF ActivationInv, Claims
<1>2. req' = req /\ Me(p)' = Me(p) /\ WorldKept /\ Current(p)' = Current(p)
  BY DEF Stay, Quiet, Me, WorldKept, world, Current
<1>3. ProcessOK(p, place)'
  <2>1. CASE place = "failClean"
    BY <1>2, <2>1, CleanOK
  <2>2. CASE place \in Early
    <3>1. /\ req[p].m \in Mutations /\ Me(p).about = req[p].about /\ req[p].epoch <= Me(p).epoch
          /\ Me(p).status # "absent"
          /\ Current(p) => Me(p).status = "running" /\ Me(p).phase \in EarlyPhases(req[p].m)
      BY <1>1 DEF ProcessOK, AskedOK, ClaimOK
    <3>2. /\ place \notin LateA \cup LateD \cup Effects \cup Inside
      BY <1>1 DEF Late, Effects, Inside, LateA, LateD
    <3>3. AskedOK(p, place)'
      BY <1>1, <1>2, <2>2, <3>1, <3>2 DEF ProcessOK, AskedOK, Early, EarlyA, EarlyD
    <3>4. ClaimOK(p, place)'
      BY <1>2, <2>2, <3>1, PlacesAre DEF ClaimOK, EarlyPhases, WorldKept
    <3>5. LateOK(p, place)'
      BY <1>1, <2>2, <3>2 DEF LateOK, Early, EarlyA, EarlyD
    <3>6. SeenOK(p, place)'
      BY <2>2 DEF SeenOK, Early, EarlyA, EarlyD
    <3> QED
      BY <3>3, <3>4, <3>5, <3>6 DEF ProcessOK
  <2> QED
    BY <2>1, <2>2
<1> QED
  BY <1>1, <1>3, QuietStays

(* The reads before the effects preserve the invariant.                     *)
LEMMA ReadKeeps ==
    ASSUME ActivationInv, NEW p \in Processes, Read(p) \/ Check(p) \/ DRead(p)
    PROVE  ActivationInv'
<1>1. Quiet /\ Stay
  BY CountingIs DEF Read, Check, DRead, Quiet, ActivationInv
<1>2. CASE Read(p)
  <2>1. PICK place \in {"prepared", "failClean"} : Goto(p, place) /\ pc[p] = "read"
    BY <1>2 DEF Read
  <2> QED
    BY <1>1, <2>1, EarlyKeeps DEF Early, EarlyA, EarlyD
<1>3. CASE Check(p)
  <2>1. PICK place \in {"transitioning", "failClean"} :
           Goto(p, place) /\ pc[p] = "check" /\ (place = "transitioning" => active = req[p].about)
    BY <1>3 DEF Check
  <2> QED
    BY <1>1, <2>1, EarlyKeeps DEF Early, EarlyA, EarlyD
<1>4. CASE DRead(p)
  <2>1. PICK place \in {"dPrepared", "failClean"} :
           Goto(p, place) /\ pc[p] = "dRead" /\ (place = "dPrepared" => active = req[p].about)
    BY <1>4 DEF DRead
  <2> QED
    BY <1>1, <2>1, EarlyKeeps DEF Early, EarlyA, EarlyD
<1> QED
  BY <1>2, <1>3, <1>4

(* A checkpoint, and where it leads.                                        *)
LEMMA UpdateKeeps ==
    ASSUME ActivationInv, NEW p \in Processes, NEW here \in Early \cup Late, NEW ph \in Phases,
           NEW next \in Early \cup Late, NEW err \in {"failClean", "failUnknown"},
           Update(p, here, [Me(p) EXCEPT !.phase = ph], next, err),
           err = "failClean" => here \in Early,
           Owns(p) =>
              /\ Me(p).phase \in Recoverable => ph \in Recoverable
              /\ ph \in EarlyPhases(req[p].m) => Me(p).phase \in EarlyPhases(req[p].m)
              /\ req[p].m \in Deactivations =>
                    running \subseteq {Me(p).about} /\ route \in {Me(p).about, None},
           Owns(p) /\ req' = req /\ WorldKept /\ starts' = starts /\ intact' = intact
             /\ Me(p)'.phase = ph /\ Me(p)'.status = "running" /\ Me(p)'.epoch = Me(p).epoch
             /\ Me(p)'.about = Me(p).about
             /\ (\A n \in Mutations \ {req[p].m} : row'[n] = row[n])
             => ProcessOK(p, next)'
    PROVE  ActivationInv'
<1>0. /\ pc[p] = here /\ RowFree(req[p].m) /\ Stay /\ UNCHANGED <<held, world, aux>>
      /\ requests' = requests /\ req' = req
  BY DEF Update, Stay
<1>1. PICK m \in Mutations : m = req[p].m
  <2>1. ProcessOK(p, here)
    BY <1>0 DEF ActivationInv
  <2> QED
    BY <2>1, AskedFor
<1>2. /\ ActivationTypeOK /\ here \in Claims /\ err \in Claims /\ next \in Claims
      /\ err \notin Early \cup Late /\ err \in Places /\ next \in Places /\ row[m] \in Rows
      /\ ProcessOK(p, here) /\ next # "failClean"
  BY <1>0, PlacesAre DEF ActivationInv, ActivationTypeOK, Claims, Early, EarlyA, EarlyD, Late,
                         LateA, LateD
<1>3. Counting
  BY <1>2, <1>0, CountingIs DEF Update
<1>4. WorldKept /\ starts' = starts /\ intact' = intact
  BY <1>0 DEF WorldKept, world, aux
<1>5. Me(p).status # "absent"
  BY <1>2 DEF ProcessOK, ClaimOK
<1>6. ASSUME row' = row, Goto(p, err) PROVE ActivationInv'
  <2>1. Quiet /\ Me(p)' = Me(p)
    BY <1>0, <1>3, <1>6 DEF Quiet, Me
  <2>2. ProcessOK(p, err)'
    <3>1. CASE err = "failClean"
      BY <1>0, <1>4, <2>1, <3>1, CleanOK
    <3>2. CASE err = "failUnknown"
      BY <1>0, <1>2, <1>5, <2>1, <3>2, UnknownOK
    <3> QED
      BY <3>1, <3>2
  <2> QED
    BY <1>0, <1>2, <1>6, <2>1, <2>2, QuietStays
<1>7. ASSUME Owns(p), row' = [row EXCEPT ![req[p].m] = [Me(p) EXCEPT !.phase = ph]]
      PROVE  /\ Framed(p) /\ \A n \in Mutations : row'[n].epoch = row[n].epoch
             /\ Me(p)'.phase = ph /\ Me(p)'.status = "running" /\ Me(p)'.epoch = Me(p).epoch
             /\ Me(p)'.about = Me(p).about
             /\ \A n \in Mutations \ {req[p].m} : row'[n] = row[n]
  <2>1. RowStep(req[p].m, [Me(p) EXCEPT !.phase = ph])
    BY <1>0, <1>3, <1>7 DEF RowStep
  <2>2. Framed(p)
    BY <1>0, <1>7, <2>1, FrameSave
  <2>3. row'[m] = [row[m] EXCEPT !.phase = ph] /\ \A n \in Mutations : n # m => row'[n] = row[n]
    BY <1>1, <1>2, <1>7 DEF ActivationTypeOK, Me
  <2>4. row'[m].phase = ph /\ row'[m].status = row[m].status /\ row'[m].epoch = row[m].epoch
        /\ row'[m].about = row[m].about /\ row[m].status = "running"
    BY <1>1, <1>2, <1>7, <2>3 DEF Rows, Owns, Me
  <2> QED
    BY <1>0, <1>1, <2>2, <2>3, <2>4 DEF Me
<1>8. ASSUME Owns(p), row' = [row EXCEPT ![req[p].m] = [Me(p) EXCEPT !.phase = ph]], Goto(p, next)
      PROVE  ActivationInv'
  <2>1. ProcessOK(p, next)' /\ Framed(p) /\ \A n \in Mutations : row'[n].epoch = row[n].epoch
    BY <1>0, <1>4, <1>7, <1>8
  <2>2. Current(p)
    BY <1>8 DEF Owns, Current
  <2> QED
    BY <1>0, <1>2, <1>8, <2>1, <2>2, StayKeeps
<1>9. ASSUME Owns(p), row' = [row EXCEPT ![req[p].m] = [Me(p) EXCEPT !.phase = ph]], Goto(p, err)
      PROVE  ActivationInv'
  <2>1. /\ Framed(p) /\ \A n \in Mutations : row'[n].epoch = row[n].epoch
        /\ Me(p)'.status = Me(p).status /\ Me(p)'.epoch = Me(p).epoch
        /\ Me(p)'.about = Me(p).about /\ Me(p)'.status # "absent"
    BY <1>7, <1>9 DEF Owns
  <2>2. ProcessOK(p, err)'
    <3>1. CASE err = "failClean"
      BY <1>0, <1>4, <2>1, <3>1, CleanOK
    <3>2. CASE err = "failUnknown"
      BY <1>0, <1>2, <2>1, <3>2, UnknownOK
    <3> QED
      BY <3>1, <3>2
  <2> QED
    BY <1>0, <1>2, <1>9, <2>1, <2>2, StayKeeps
<1> QED
  BY <1>6, <1>8, <1>9 DEF Update

(* The checkpoint prepared of an activation.                                *)
LEMMA SavePreparedKeeps ==
    ASSUME ActivationInv, NEW p \in Processes, Save(p, "prepared", "check", "failClean")
    PROVE  ActivationInv'
<1>1. pc[p] = "prepared" /\ ProcessOK(p, "prepared")
  BY DEF Save, Update, ActivationInv
<1>2. /\ req[p].m \in Activations /\ req[p].m \in Mutations /\ req[p].about # req[p].m
      /\ req[p].m \notin Deactivations
      /\ Me(p).about = req[p].about
      /\ Owns(p) => Me(p).phase \in {"none", "prepared"}
      /\ EarlyPhases(req[p].m) = {"none", "prepared"}
  BY <1>1, MutationsAre
     DEF ProcessOK, AskedOK, ClaimOK, Claims, Early, EarlyA, EarlyPhases, Owns, Current
<1>3. ASSUME Owns(p), req' = req, Me(p)'.phase = "prepared", Me(p)'.status = "running",
             Me(p)'.epoch = Me(p).epoch, Me(p)'.about = Me(p).about
      PROVE  ProcessOK(p, "check")'
  <2>1. Me(p).epoch = req[p].epoch /\ Me(p).epoch \in Nat
    <3>1. ActivationTypeOK
      BY DEF ActivationInv
    <3> QED
      BY <1>2, <1>3, <3>1, Fields DEF Owns, Me
  <2>2. AskedOK(p, "check")'
    BY <1>2, <1>3 DEF AskedOK, EarlyD, LateD
  <2>3. ClaimOK(p, "check")'
    BY <1>2, <1>3, <2>1 DEF ClaimOK, EarlyPhases
  <2>4. LateOK(p, "check")'
    BY DEF LateOK, Late, LateA, LateD, Effects, Inside
  <2>5. SeenOK(p, "check")'
    BY DEF SeenOK
  <2> QED
    BY <2>2, <2>3, <2>4, <2>5 DEF ProcessOK
<1>4. /\ "prepared" \in Early \cup Late /\ "check" \in Early \cup Late /\ "prepared" \in Phases
      /\ "prepared" \in Early
      /\ Owns(p) => Me(p).phase \notin Recoverable
  BY <1>2 DEF Early, EarlyA, Phases, ActivationPhases, Recoverable
<1> QED
  BY <1>1, <1>2, <1>3, <1>4, UpdateKeeps DEF Save

(* The checkpoint transitioning: the effects of an activation may begin.    *)
LEMMA SaveTransitioningKeeps ==
    ASSUME ActivationInv, NEW p \in Processes, Save(p, "transitioning", "enterSwitch", "failClean")
    PROVE  ActivationInv'
<1>1. pc[p] = "transitioning" /\ ProcessOK(p, "transitioning") /\ RowsOK /\ WorldOK
  BY DEF Save, Update, ActivationInv
<1>2. /\ req[p].m \in Activations /\ req[p].m \in Mutations /\ req[p].about # req[p].m
      /\ req[p].m \notin Deactivations
      /\ Me(p).about = req[p].about
      /\ Owns(p) => Me(p).phase \in {"none", "prepared"} /\ active = req[p].about
      /\ EarlyPhases(req[p].m) = {"none", "prepared"}
  BY <1>1, MutationsAre
     DEF ProcessOK, AskedOK, ClaimOK, Claims, Early, EarlyA, EarlyPhases, Owns, Current
<1>3. ASSUME Owns(p), req' = req, WorldKept, starts' = starts, Me(p)'.phase = "transitioning",
             Me(p)'.status = "running", Me(p)'.epoch = Me(p).epoch, Me(p)'.about = Me(p).about
      PROVE  ProcessOK(p, "enterSwitch")'
  <2>1. Me(p).epoch = req[p].epoch /\ Me(p).epoch \in Nat
    <3>1. ActivationTypeOK
      BY DEF ActivationInv
    <3> QED
      BY <1>2, <1>3, <3>1, Fields DEF Owns, Me
  <2>2. starts[req[p].m] = 0 /\ Steady
    <3>1. ActiveRow(req[p].m) /\ row[req[p].m].phase \in EarlyPhases(req[p].m)
      BY <1>2, <1>3 DEF ActiveRow, Owns, Me
    <3> QED
      BY <1>1, <1>2, <3>1 DEF RowsOK, WorldOK
  <2>3. AskedOK(p, "enterSwitch")'
    BY <1>2, <1>3 DEF AskedOK, EarlyD, LateD
  <2>4. ClaimOK(p, "enterSwitch")'
    BY <1>2, <1>3, <2>1 DEF ClaimOK, Early, EarlyA, EarlyD
  <2>5. LateOK(p, "enterSwitch")'
    <3>1. PhaseAt(req[p].m, "enterSwitch", "transitioning")
      BY DEF PhaseAt
    <3>2. WorldAt(req[p].m, req[p].about, "enterSwitch")'
      BY <1>2, <1>3, <2>2 DEF WorldAt, Steady, WorldKept
    <3>3. ActiveRow(req[p].m)' /\ PhaseAt(req[p].m, "enterSwitch", Me(p).phase)'
      BY <1>3, <3>1 DEF ActiveRow, Me, PhaseAt
    <3> QED
      BY <1>3, <2>2, <3>2, <3>3 DEF LateOK, LateD, Inside
  <2>6. SeenOK(p, "enterSwitch")'
    BY DEF SeenOK
  <2> QED
    BY <2>3, <2>4, <2>5, <2>6 DEF ProcessOK
<1>4. /\ "transitioning" \in Early \cup Late /\ "enterSwitch" \in Early \cup Late
      /\ "transitioning" \in Phases /\ "transitioning" \in Early
      /\ "transitioning" \notin EarlyPhases(req[p].m)
      /\ Owns(p) => Me(p).phase \notin Recoverable
  BY <1>2 DEF Early, EarlyA, Late, LateA, Phases, ActivationPhases, Recoverable
<1> QED
  BY <1>1, <1>2, <1>3, <1>4, UpdateKeeps DEF Save

(* The checkpoint prepared of a deactivation: its effects may begin.        *)
LEMMA DPreparedKeeps ==
    ASSUME ActivationInv, NEW p \in Processes, DPrepared(p)
    PROVE  ActivationInv'
<1>1. pc[p] = "dPrepared" /\ ProcessOK(p, "dPrepared") /\ RowsOK /\ WorldOK /\ ActivationTypeOK
  BY DEF DPrepared, Update, ActivationInv
<1>2. /\ req[p].m \in Deactivations /\ req[p].m \in Mutations /\ req[p].about \in Activations
      /\ req[p].m \notin Activations
      /\ Me(p).about = req[p].about
      /\ Owns(p) => Me(p).phase = "none" /\ active = req[p].about
      /\ EarlyPhases(req[p].m) = {"none"}
  BY <1>1, MutationsAre
     DEF ProcessOK, AskedOK, ClaimOK, Claims, Early, EarlyD, EarlyPhases, Owns, Current
<1>3. ASSUME Owns(p)
      PROVE  /\ starts[req[p].m] = 0 /\ Steady /\ ActiveRow(req[p].m)
             /\ running = {req[p].about} /\ route = req[p].about
             /\ row[req[p].about].status \in Terminal
  <2>1. ActiveRow(req[p].m) /\ row[req[p].m].phase \in EarlyPhases(req[p].m)
    BY <1>2, <1>3 DEF ActiveRow, Owns, Me
  <2>2. starts[req[p].m] = 0 /\ Steady
    BY <1>1, <1>2, <2>1 DEF RowsOK, WorldOK
  <2>3. running = {req[p].about} /\ route = req[p].about
    BY <1>2, <1>3, <2>2, MutationsAre DEF Steady
  <2>4. row[req[p].about].status # "absent" /\ ~ActiveRow(req[p].about)
        /\ row[req[p].about].status \in Statuses
    <3>1. req[p].about # None /\ req[p].about \in Mutations /\ req[p].about # req[p].m
      BY <1>2, MutationsAre
    <3> QED
      BY <1>1, <1>2, <1>3, <2>1, <3>1, Fields DEF RowsOK, WorldOK
  <2> QED
    BY <2>1, <2>2, <2>3, <2>4 DEF ActiveRow, Statuses, Terminal
<1>4. ASSUME Owns(p), req' = req, WorldKept, starts' = starts, Me(p)'.phase = "prepared",
             Me(p)'.status = "running", Me(p)'.epoch = Me(p).epoch, Me(p)'.about = Me(p).about,
             \A n \in Mutations \ {req[p].m} : row'[n] = row[n]
      PROVE  ProcessOK(p, "enterStop")'
  <2>1. Me(p).epoch = req[p].epoch /\ Me(p).epoch \in Nat
    BY <1>1, <1>2, <1>4, Fields DEF Owns, Me
  <2>3. AskedOK(p, "enterStop")'
    BY <1>2, <1>4 DEF AskedOK, EarlyA, LateA
  <2>4. ClaimOK(p, "enterStop")'
    BY <1>2, <1>4, <2>1 DEF ClaimOK, Early, EarlyA, EarlyD
  <2>5. LateOK(p, "enterStop")'
    <3>1. PhaseAt(req[p].m, "enterStop", "prepared")
      BY DEF PhaseAt
    <3>2. WorldAt(req[p].m, req[p].about, "enterStop")'
      BY <1>2, <1>3, <1>4 DEF WorldAt, WorldKept
    <3>3. ActiveRow(req[p].m)' /\ PhaseAt(req[p].m, "enterStop", Me(p).phase)'
      BY <1>4, <3>1 DEF ActiveRow, Me, PhaseAt
    <3>4. row'[req[p].about].status \in Terminal
      BY <1>2, <1>3, <1>4, MutationsAre
    <3> QED
      BY <1>3, <1>4, <3>2, <3>3, <3>4 DEF LateOK, Inside, Terminal
  <2>6. SeenOK(p, "enterStop")'
    BY DEF SeenOK
  <2> QED
    BY <2>3, <2>4, <2>5, <2>6 DEF ProcessOK
<1>5. /\ "dPrepared" \in Early \cup Late /\ "enterStop" \in Early \cup Late
      /\ "prepared" \in Phases /\ "dPrepared" \in Early
      /\ "prepared" \notin EarlyPhases(req[p].m)
      /\ Owns(p) => Me(p).phase \notin Recoverable
  BY <1>2 DEF Early, EarlyD, Late, LateD, Phases, ActivationPhases, Recoverable
<1>6. Owns(p) /\ req[p].m \in Deactivations =>
         running \subseteq {Me(p).about} /\ route \in {Me(p).about, None}
  BY <1>2, <1>3
<1> QED
  BY <1>1, <1>2, <1>4, <1>5, <1>6, UpdateKeeps DEF DPrepared

(* The checkpoints after an effect.                                         *)
After(here, next) ==
    \/ here = "started" /\ next = "ready"
    \/ here = "healthy" /\ next = "enterRoute"
    \/ here = "routed" /\ next = "enterWrite"
    \/ here = "committed" /\ next = "success"
    \/ here = "stopped" /\ next = "enterUnroute"
    \/ here = "unrouted" /\ next = "enterRetire"
    \/ here = "retired" /\ next = "success"

(* A checkpoint between the effects.                                        *)
LEMMA SaveLateKeeps ==
    ASSUME ActivationInv, NEW p \in Processes, NEW here, NEW next, After(here, next),
           Save(p, here, next, "failUnknown")
    PROVE  ActivationInv'
<1>1. pc[p] = here /\ ProcessOK(p, here) /\ RowsOK /\ WorldOK /\ ActivationTypeOK
  BY DEF Save, Update, ActivationInv
<1>2. /\ here \in Late /\ next \in Late /\ here \in Phases /\ here \in Claims /\ next \in Claims
      /\ here \in LateD => next \in LateD \cup {"success"}
      /\ here \in LateA => next \in LateA \cup {"success"}
      /\ here \in LateA \cup LateD
      /\ next \in LateA => here \in LateA
      /\ next \in LateD => here \in LateD
      /\ next \in Effects => here \in Effects
      /\ next \notin Early \cup Inside
      /\ next \notin {"enterSwitch", "stopOld", "startNew", "enterStop", "stop"}
  BY DEF After, Late, LateA, LateD, Phases, ActivationPhases, RemovalPhases, Claims, Effects,
         Early, EarlyA, EarlyD, Inside
<1>3. /\ req[p].m \in Mutations /\ Me(p).about = req[p].about
      /\ here \in LateA => req[p].m \in Activations /\ req[p].about # req[p].m
      /\ here \in LateD => /\ req[p].m \in Deactivations /\ req[p].m \notin Activations
                           /\ req[p].about \in Activations
                           /\ row[req[p].about].status \in Terminal
      /\ PhaseAt(req[p].m, here, Me(p).phase)
  BY <1>1, <1>2, MutationsAre DEF ProcessOK, AskedOK, ClaimOK, LateOK
<1>4. Owns(p) => ActiveRow(req[p].m) /\ WorldAt(req[p].m, req[p].about, here)
                 /\ row[req[p].m].phase # "none"
  <2>1. Owns(p) => ActiveRow(req[p].m)
    BY DEF Owns, Me, ActiveRow
  <2>2. Me(p).phase # "none"
    BY <1>3 DEF After, PhaseAt
  <2> QED
    BY <1>1, <1>2, <2>1, <2>2 DEF ProcessOK, LateOK, Me
<1>5. Me(p).phase \in Recoverable => here \in Recoverable
  BY <1>3 DEF After, PhaseAt, Recoverable
<1>6. here \notin EarlyPhases(req[p].m)
  BY DEF After, EarlyPhases
<1>7. Owns(p) /\ req[p].m \in Deactivations =>
         running \subseteq {Me(p).about} /\ route \in {Me(p).about, None}
  BY <1>1, <1>4 DEF WorldOK, Me
<1>8. ASSUME Owns(p), req' = req, WorldKept, starts' = starts, Me(p)'.phase = here,
             Me(p)'.status = "running", Me(p)'.epoch = Me(p).epoch, Me(p)'.about = Me(p).about,
             \A n \in Mutations \ {req[p].m} : row'[n] = row[n]
      PROVE  ProcessOK(p, next)'
  <2>1. Me(p).epoch = req[p].epoch /\ Me(p).epoch \in Nat
    BY <1>1, <1>3, <1>8, Fields DEF Owns, Me
  <2>2. AskedOK(p, next)'
    <3>1. next \notin {"allocate", "begin", "verify", "recRead", "recClaim", "recFail", "observe",
                       "recover", "confirm", "dBegin", "dRecover", "gone", "rRead", "rVerify",
                       "rCommit"}
      BY DEF After
    <3> QED
      BY <1>2, <1>3, <1>8, <3>1 DEF AskedOK, Early
  <2>3. ClaimOK(p, next)'
    <3>1. next # "failClean" /\ next \notin {"transitioning", "dPrepared"}
      BY DEF After
    <3> QED
      BY <1>2, <1>3, <1>8, <2>1, <3>1 DEF ClaimOK
  <2>4. LateOK(p, next)'
    <3>1. PhaseAt(req[p].m, next, here)
      BY <1>3 DEF After, PhaseAt, LateA, LateD
    <3>2. WorldAt(req[p].m, req[p].about, next)
      BY <1>3, <1>4, <1>8 DEF After, WorldAt, LateA, LateD
    <3>3. WorldAt(req[p].m, req[p].about, next)'
      BY <1>8, <3>2 DEF WorldAt, WorldKept, Steady
    <3>4. ActiveRow(req[p].m)' /\ PhaseAt(req[p].m, next, Me(p).phase)'
      BY <1>8, <3>1 DEF ActiveRow, Me, PhaseAt
    <3>5. next \in LateD => row'[req[p].about].status \in Terminal
      BY <1>2, <1>3, <1>8, MutationsAre
    <3> QED
      BY <1>2, <1>8, <3>3, <3>4, <3>5 DEF LateOK, Terminal
  <2>5. SeenOK(p, next)'
    BY DEF SeenOK, After
  <2> QED
    BY <2>2, <2>3, <2>4, <2>5 DEF ProcessOK
<1> QED
  BY <1>1, <1>2, <1>5, <1>6, <1>7, <1>8, UpdateKeeps DEF Save

(* From one place of the effects to the next, with the row as it is.        *)
LEMMA LateOn ==
    ASSUME ActivationInv, NEW p \in Processes, pc[p] \in Late, NEW next \in LateA \cup LateD,
           req' = req, row' = row, intact' = intact,
           next \in LateA => pc[p] \in LateA, next \in LateD => pc[p] \in LateD,
           PhaseAt(req[p].m, next, Me(p).phase),
           ActiveRow(req[p].m) => WorldAt(req[p].m, req[p].about, next)',
           next \in Effects => pc[p] \in Effects,
           next \in {"enterSwitch", "stopOld", "startNew", "enterStop", "stop"} =>
              starts'[req[p].m] = 0,
           next \in Inside /\ intact =>
              held'[req[p].m] = p /\ Me(p).status = "running" /\ Current(p)
    PROVE  ProcessOK(p, next)'
<1>1. ProcessOK(p, pc[p]) /\ pc[p] \in Claims /\ Me(p)' = Me(p) /\ Current(p)' = Current(p)
  BY PlacesAre DEF ActivationInv, Me, Current
<1>2. next \in Late /\ next \in Claims /\ next \notin Early /\ next # "failClean"
      /\ next \notin {"transitioning", "dPrepared"}
      /\ next \notin {"allocate", "begin", "verify", "recRead", "recClaim", "recFail", "observe",
                      "recover", "confirm", "dBegin", "dRecover", "gone", "rRead", "rVerify",
                      "rCommit"}
  BY DEF Late, LateA, LateD, Claims, Early, EarlyA, EarlyD
<1>3. AskedOK(p, next)'
  BY <1>1, <1>2 DEF ProcessOK, AskedOK, Early
<1>4. ClaimOK(p, next)'
  BY <1>1, <1>2 DEF ProcessOK, ClaimOK
<1>5. LateOK(p, next)'
  <2>1. /\ pc[p] \in Effects => ActiveRow(req[p].m)
        /\ pc[p] \in LateD => row[req[p].about].status \in Terminal
        /\ ActiveRow(req[p].m)' = ActiveRow(req[p].m)
    BY <1>1 DEF ProcessOK, LateOK, ActiveRow
  <2>2. PhaseAt(req[p].m, next, Me(p).phase)'
    BY <1>1 DEF PhaseAt
  <2> QED
    BY <1>1, <1>2, <2>1, <2>2 DEF LateOK, Terminal
<1>6. SeenOK(p, next)'
  BY <1>2 DEF SeenOK
<1> QED
  BY <1>3, <1>4, <1>5, <1>6 DEF ProcessOK

(* The lock is taken, or given back.                                        *)
LEMMA HeldIs ==
    ASSUME ActivationInv, NEW p \in Processes, held' = held \/ held' = Left(p), intact' = intact
    PROVE  /\ held' \in [Mutations -> Processes \cup {None}]
           /\ \A q \in Processes : q # p => HeldKept(q)
BY DEF ActivationInv, ActivationTypeOK, Left, HeldKept

Entering(p, here, next) ==
    \/ here = "enterSwitch" /\ next = "startNew" /\ req[p].about = None
    \/ here = "enterSwitch" /\ next = "stopOld" /\ req[p].about # None
    \/ here = "enterRoute" /\ next = "routeNew"
    \/ here = "enterWrite" /\ next = "writeActive"
    \/ here = "enterStop" /\ next = "stop"
    \/ here = "enterUnroute" /\ next = "unroute"
    \/ here = "enterRetire" /\ next = "retire"

(* A process enters the transaction of an effect only under its claim.      *)
LEMMA EnterKeeps ==
    ASSUME ActivationInv, NEW p \in Processes, NEW here, NEW next, Entering(p, here, next),
           Enter(p, here, next)
    PROVE  ActivationInv'
<1>1. /\ pc[p] = here /\ ProcessOK(p, here) /\ ActivationTypeOK /\ RowFree(req[p].m) /\ Stay
      /\ row' = row /\ UNCHANGED <<world, aux>> /\ requests' = requests /\ req' = req
      /\ alloc' = alloc /\ starts' = starts /\ hasty' = hasty /\ intact' = intact
      /\ WorldKept /\ RetiredKept
  BY DEF Enter, ActivationInv, Stay, aux, world, WorldKept, RetiredKept
<1>2. /\ here \in Late /\ next \in Late /\ here \in Claims /\ next \in Claims
      /\ next \in LateA \cup LateD /\ next \in Inside
      /\ next \in LateA => here \in LateA
      /\ next \in LateD => here \in LateD
      /\ next \in Effects => here \in Effects
      /\ next \in {"startNew", "stopOld", "stop"} =>
            here \in {"enterSwitch", "stopOld", "startNew", "enterStop", "stop"}
      /\ next \notin {"enterSwitch", "enterStop"}
      /\ next \in Places /\ "failUnknown" \in Places /\ "failUnknown" \in Claims
      /\ "failUnknown" \notin Late /\ next # "failClean"
  BY DEF Entering, Late, LateA, LateD, Claims, Effects, Inside, Early, EarlyA, EarlyD, Places
<1>3. Counting
  BY <1>1, CountingIs DEF Enter
<1>4. req[p].m \in Mutations /\ Me(p).status # "absent" /\ Me(p)' = Me(p)
  BY <1>1, <1>2, AskedFor DEF ProcessOK, ClaimOK, Me
<1>5. ASSUME held' = held, Goto(p, "failUnknown") PROVE ActivationInv'
  <2>1. Quiet
    BY <1>1, <1>3, <1>5 DEF Quiet
  <2>2. ProcessOK(p, "failUnknown")'
    BY <1>1, <1>2, <1>4, UnknownOK
  <2> QED
    BY <1>1, <1>2, <1>5, <2>1, <2>2, QuietStays
<1>6. ASSUME Owns(p), held' = [held EXCEPT ![req[p].m] = p], Goto(p, next) PROVE ActivationInv'
  <2>1. /\ held' \in [Mutations -> Processes \cup {None}]
        /\ \A q \in Processes : q # p => HeldKept(q)
        /\ held'[req[p].m] = p
    BY <1>1, <1>4, <1>6, MutationsAre DEF ActivationTypeOK, HeldKept, RowFree
  <2>2. Framed(p)
    <3>1. /\ alloc' \in [Activations -> {"none", "held", "retired"}] /\ hasty' \subseteq Activations
      BY <1>1 DEF ActivationTypeOK
    <3> QED
      BY <1>1, <1>3, <2>1, <3>1, FrameQuiet
  <2>3. Me(p).status = "running" /\ Current(p) /\ ActiveRow(req[p].m)
    BY <1>6 DEF Owns, Current, Me, ActiveRow
  <2>4. WorldAt(req[p].m, req[p].about, here) /\ PhaseAt(req[p].m, here, Me(p).phase)
    BY <1>1, <1>2, <2>3 DEF ProcessOK, LateOK
  <2>5. PhaseAt(req[p].m, next, Me(p).phase)
    BY <2>4 DEF Entering, PhaseAt
  <2>6. WorldAt(req[p].m, req[p].about, next)
    BY <2>4 DEF Entering, WorldAt, Steady
  <2>7. WorldAt(req[p].m, req[p].about, next)'
    BY <1>1, <2>6 DEF WorldAt, WorldKept, Steady
  <2>8. next \in {"enterSwitch", "stopOld", "startNew", "enterStop", "stop"} =>
           starts'[req[p].m] = 0
    BY <1>1, <1>2 DEF ProcessOK, LateOK
  <2>9. ProcessOK(p, next)'
    BY <1>1, <1>2, <2>1, <2>3, <2>5, <2>7, <2>8, LateOn
  <2> QED
    BY <1>1, <1>2, <1>6, <2>2, <2>9, StayKeeps
<1> QED
  BY <1>5, <1>6 DEF Enter

(* An effect leads on, or to a failure.                                     *)
LEMMA EffectLeads ==
    ASSUME ActivationInv, NEW p \in Processes, pc[p] \in Late, NEW next \in LateA \cup LateD,
           Framed(p), Stay, row' = row,
           (Goto(p, next) /\ ProcessOK(p, next)') \/ Goto(p, "failUnknown")
    PROVE  ActivationInv'
<1>1. /\ pc[p] \in Claims /\ next \in Places /\ next \in Late /\ next # "failClean"
      /\ "failUnknown" \in Places /\ "failUnknown" \notin Late
      /\ ProcessOK(p, pc[p]) /\ req' = req
      /\ \A m \in Mutations : row'[m].epoch = row[m].epoch
  BY PlacesAre DEF ActivationInv, Late, LateA, LateD, Places, Inside, Stay
<1>2. Me(p)' = Me(p) /\ Me(p).status # "absent"
  BY <1>1 DEF ProcessOK, ClaimOK, Me
<1>3. CASE Goto(p, next) /\ ProcessOK(p, next)'
  BY <1>1, <1>3, StayKeeps
<1>4. CASE Goto(p, "failUnknown")
  <2>1. ProcessOK(p, "failUnknown")'
    BY <1>1, <1>2, UnknownOK
  <2> QED
    BY <1>1, <1>4, <2>1, StayKeeps
<1> QED
  BY <1>3, <1>4

(* What a process knows that is about to change something.                  *)
LEMMA EffectFacts ==
    ASSUME ActivationInv, NEW p \in Processes, pc[p] \in Effects \cap Inside
    PROVE  /\ ActivationTypeOK /\ pc[p] \in Late /\ req[p].m \in Mutations
           /\ ActiveRow(req[p].m) /\ Me(p).about = req[p].about
           /\ PhaseAt(req[p].m, pc[p], Me(p).phase)
           /\ WorldAt(req[p].m, req[p].about, pc[p])
           /\ starts[req[p].m] <= 1
           /\ pc[p] \in {"stopOld", "startNew", "stop"} => starts[req[p].m] = 0
           /\ intact => held[req[p].m] = p /\ Me(p).status = "running" /\ Current(p)
           /\ pc[p] \in LateA => req[p].m \in Activations /\ req[p].m \notin Deactivations
                                 /\ req[p].about # req[p].m
           /\ pc[p] \in LateD => req[p].m \in Deactivations /\ req[p].about \in Activations
           /\ req[p].m \in Deactivations =>
                 running \subseteq {Me(p).about} /\ route \in {Me(p).about, None}
<1>1. /\ ActivationTypeOK /\ RowsOK /\ WorldOK /\ ProcessOK(p, pc[p])
      /\ pc[p] \in Late /\ pc[p] \in Claims /\ pc[p] \in Inside /\ pc[p] \in Effects
  BY PlacesAre DEF ActivationInv
<1>2. req[p].m \in Mutations /\ Me(p).phase \notin EarlyPhases(req[p].m)
  BY <1>1, LateIs
<1>3. /\ ActiveRow(req[p].m) /\ Me(p).about = req[p].about
      /\ PhaseAt(req[p].m, pc[p], Me(p).phase)
      /\ pc[p] \in {"stopOld", "startNew", "stop"} => starts[req[p].m] = 0
      /\ intact => held[req[p].m] = p /\ Me(p).status = "running" /\ Current(p)
  BY <1>1 DEF ProcessOK, LateOK, ClaimOK
<1>4. WorldAt(req[p].m, req[p].about, pc[p])
  BY <1>1, <1>3 DEF ProcessOK, LateOK
<1>5. starts[req[p].m] <= 1
  BY <1>1, <1>2 DEF RowsOK
<1>6. req[p].m \in Deactivations =>
         running \subseteq {Me(p).about} /\ route \in {Me(p).about, None}
  BY <1>1, <1>2, <1>3 DEF WorldOK, Me, EarlyPhases
<1> QED
  BY <1>1, <1>2, <1>3, <1>4, <1>5, <1>6, AskedFor, MutationsAre

(* The previous release is stopped.                                         *)
LEMMA StopOldKeeps ==
    ASSUME ActivationInv, NEW p \in Processes, StopOld(p)
    PROVE  ActivationInv'
<1>1. pc[p] = "stopOld" /\ pc[p] \in Effects \cap Inside /\ pc[p] \in LateA
  BY DEF StopOld, Effect, Effects, Inside, LateA
<1>2. /\ row' = row /\ hasty' = hasty /\ intact' = intact /\ requests' = requests /\ Stay
      /\ starts' = starts /\ alloc' = alloc /\ active' = active /\ route' = route
      /\ running' \in {running, running \ {req[p].about}}
      /\ held' = held \/ held' = Left(p)
      /\ \/ Goto(p, "startNew") /\ running' = running \ {req[p].about} /\ held' = held
         \/ Goto(p, "failUnknown")
      /\ Calm \/ Disturbed
  BY DEF StopOld, Effect, Runs, world, Uncounted
<1>3. /\ ActivationTypeOK /\ pc[p] \in Late /\ req[p].m \in Mutations
      /\ PhaseAt(req[p].m, "stopOld", Me(p).phase)
      /\ Steady /\ active = req[p].about
      /\ starts[req[p].m] = 0
      /\ intact => held[req[p].m] = p /\ Me(p).status = "running" /\ Current(p)
      /\ req[p].m \notin Deactivations
  BY <1>1, EffectFacts DEF WorldAt
<1>4. Framed(p)
  <2>1. Counting
    BY <1>2, <1>3, CountingIs
  <2>2. /\ held' \in [Mutations -> Processes \cup {None}]
        /\ \A q \in Processes : q # p => HeldKept(q)
    BY <1>2, HeldIs
  <2>3. /\ active' \in Activations \cup {None} /\ running' \subseteq Activations
        /\ route' \in Activations \cup {None} /\ starts' \in [Mutations -> 0..2]
    BY <1>2, <1>3 DEF ActivationTypeOK
  <2>4. (\E x : running' \subseteq {x}) /\ \A a \in Activations : StaysOut(a)
    BY <1>2 DEF ActivationInv, WorldOK, StaysOut
  <2>5. starts'[req[p].m] <= 1
    BY <1>2, <1>3
  <2> QED
    BY <1>1, <1>2, <1>3, <2>1, <2>2, <2>3, <2>4, <2>5, FrameEffect
<1>5. ASSUME Goto(p, "startNew"), running' = running \ {req[p].about}, held' = held
      PROVE  ProcessOK(p, "startNew")'
  <2>1. running' = {}
    BY <1>3, <1>5 DEF Steady
  <2>2. WorldAt(req[p].m, req[p].about, "startNew")'
    BY <1>2, <1>3, <2>1 DEF WorldAt, Stay
  <2>3. PhaseAt(req[p].m, "startNew", Me(p).phase)
    BY <1>3 DEF PhaseAt
  <2>4. "startNew" \in LateA /\ "startNew" \notin LateD /\ "stopOld" \in Effects
    BY DEF LateA, LateD, Effects
  <2> QED
    BY <1>1, <1>2, <1>3, <1>5, <2>2, <2>3, <2>4, LateOn DEF Stay
<1> QED
  BY <1>2, <1>3, <1>4, <1>5, EffectLeads DEF LateA

(* The new release is started after the previous one was stopped.           *)
LEMMA StartNewKeeps ==
    ASSUME ActivationInv, NEW p \in Processes, StartNew(p)
    PROVE  ActivationInv'
<1>1. pc[p] = "startNew" /\ pc[p] \in Effects \cap Inside /\ pc[p] \in LateA
  BY DEF StartNew, Effect, Effects, Inside, LateA
<1>2. /\ row' = row /\ hasty' = hasty /\ intact' = intact /\ requests' = requests /\ Stay
      /\ Counted(p) /\ alloc' = alloc /\ active' = active /\ route' = route
      /\ running' \in {running, running \cup {req[p].m}}
      /\ held' = held \/ held' = Left(p)
      /\ \/ Goto(p, "started") /\ running' = running \cup {req[p].m}
         \/ Goto(p, "failUnknown")
      /\ Calm \/ Disturbed
  BY DEF StartNew, Effect, Runs, world
<1>3. /\ ActivationTypeOK /\ pc[p] \in Late /\ req[p].m \in Mutations /\ req[p].m \in Activations
      /\ PhaseAt(req[p].m, "startNew", Me(p).phase)
      /\ running = {} /\ active = req[p].about
      /\ starts[req[p].m] = 0
      /\ req[p].m \notin Deactivations
  BY <1>1, EffectFacts DEF WorldAt
<1>4. Framed(p)
  <2>1. Counting
    BY <1>2, <1>3, CountingIs
  <2>2. /\ held' \in [Mutations -> Processes \cup {None}]
        /\ \A q \in Processes : q # p => HeldKept(q)
    BY <1>2, HeldIs
  <2>3. /\ active' \in Activations \cup {None} /\ running' \subseteq Activations
        /\ route' \in Activations \cup {None}
    BY <1>2, <1>3 DEF ActivationTypeOK
  <2>4. /\ running' \subseteq {req[p].m}
        /\ \A a \in Activations : a # req[p].m => StaysOut(a)
    BY <1>2, <1>3 DEF StaysOut
  <2>5. /\ starts' \in [Mutations -> 0..2] /\ starts'[req[p].m] <= 1
        /\ \A n \in Mutations : n # req[p].m => starts'[n] = starts[n]
    BY <1>2, <1>3 DEF Counted, ActivationTypeOK
  <2> QED
    BY <1>1, <1>2, <1>3, <2>1, <2>2, <2>3, <2>4, <2>5, FrameEffect
<1>5. ASSUME Goto(p, "started"), running' = running \cup {req[p].m}
      PROVE  ProcessOK(p, "started")'
  <2>1. running' = {req[p].m}
    BY <1>3, <1>5
  <2>2. WorldAt(req[p].m, req[p].about, "started")'
    BY <1>2, <1>3, <2>1 DEF WorldAt, Stay
  <2>3. PhaseAt(req[p].m, "started", Me(p).phase)
    BY <1>3 DEF PhaseAt
  <2>4. "started" \in LateA /\ "started" \notin LateD \cup Inside /\ "startNew" \in Effects
    BY DEF LateA, LateD, Effects, Inside
  <2> QED
    BY <1>1, <1>2, <1>3, <1>5, <2>2, <2>3, <2>4, LateOn DEF Stay
<1> QED
  BY <1>2, <1>3, <1>4, <1>5, EffectLeads DEF LateA

(* The gateway is pointed to the new release.                               *)
LEMMA RouteNewKeeps ==
    ASSUME ActivationInv, NEW p \in Processes, RouteNew(p)
    PROVE  ActivationInv'
<1>1. pc[p] = "routeNew" /\ pc[p] \in Effects \cap Inside /\ pc[p] \in LateA
  BY DEF RouteNew, Effect, Effects, Inside, LateA
<1>2. /\ row' = row /\ hasty' = hasty /\ intact' = intact /\ requests' = requests /\ Stay
      /\ starts' = starts /\ alloc' = alloc /\ active' = active /\ running' = running
      /\ route' \in {route, req[p].m}
      /\ held' = held \/ held' = Left(p)
      /\ \/ Goto(p, "routed") /\ route' = req[p].m
         \/ Goto(p, "failUnknown")
      /\ Calm \/ Disturbed
  BY DEF RouteNew, Effect, Routes, world, Uncounted
<1>3. /\ ActivationTypeOK /\ pc[p] \in Late /\ req[p].m \in Mutations /\ req[p].m \in Activations
      /\ PhaseAt(req[p].m, "routeNew", Me(p).phase)
      /\ running = {req[p].m} /\ active = req[p].about
      /\ starts[req[p].m] <= 1
      /\ req[p].m \notin Deactivations
  BY <1>1, EffectFacts DEF WorldAt
<1>4. Framed(p)
  <2>1. Counting
    BY <1>2, <1>3, CountingIs
  <2>2. /\ held' \in [Mutations -> Processes \cup {None}]
        /\ \A q \in Processes : q # p => HeldKept(q)
    BY <1>2, HeldIs
  <2>3. /\ active' \in Activations \cup {None} /\ running' \subseteq Activations
        /\ route' \in Activations \cup {None} /\ starts' \in [Mutations -> 0..2]
    BY <1>2, <1>3 DEF ActivationTypeOK
  <2>4. /\ running' \subseteq {req[p].m}
        /\ \A a \in Activations : a # req[p].m => StaysOut(a)
    BY <1>2, <1>3 DEF StaysOut
  <2>5. starts'[req[p].m] <= 1
    BY <1>2, <1>3
  <2> QED
    BY <1>1, <1>2, <1>3, <2>1, <2>2, <2>3, <2>4, <2>5, FrameEffect
<1>5. ASSUME Goto(p, "routed"), route' = req[p].m
      PROVE  ProcessOK(p, "routed")'
  <2>2. WorldAt(req[p].m, req[p].about, "routed")'
    BY <1>2, <1>3, <1>5 DEF WorldAt, Stay
  <2>3. PhaseAt(req[p].m, "routed", Me(p).phase)
    BY <1>3 DEF PhaseAt
  <2>4. "routed" \in LateA /\ "routed" \notin LateD \cup Inside /\ "routeNew" \in Effects
    BY DEF LateA, LateD, Effects, Inside
  <2> QED
    BY <1>1, <1>2, <1>3, <1>5, <2>2, <2>3, <2>4, LateOn DEF Stay
<1> QED
  BY <1>2, <1>3, <1>4, <1>5, EffectLeads DEF LateA

(* The new release becomes the active one.                                  *)
LEMMA WriteActiveKeeps ==
    ASSUME ActivationInv, NEW p \in Processes, WriteActive(p)
    PROVE  ActivationInv'
<1>1. pc[p] = "writeActive" /\ pc[p] \in Effects \cap Inside /\ pc[p] \in LateA
  BY DEF WriteActive, Effect, Effects, Inside, LateA
<1>2. /\ row' = row /\ hasty' = hasty /\ intact' = intact /\ requests' = requests /\ Stay
      /\ starts' = starts /\ alloc' = alloc /\ route' = route /\ running' = running
      /\ active' \in {active, req[p].m}
      /\ held' = held \/ held' = Left(p)
      /\ \/ Goto(p, "verifyIn") /\ active' = req[p].m /\ held' = held
         \/ Goto(p, "failUnknown")
      /\ Calm \/ Disturbed
  BY DEF WriteActive, Effect, Records, world, Uncounted
<1>3. /\ ActivationTypeOK /\ pc[p] \in Late /\ req[p].m \in Mutations /\ req[p].m \in Activations
      /\ PhaseAt(req[p].m, "writeActive", Me(p).phase)
      /\ running = {req[p].m} /\ route = req[p].m
      /\ starts[req[p].m] <= 1
      /\ intact => held[req[p].m] = p /\ Me(p).status = "running" /\ Current(p)
      /\ req[p].m \notin Deactivations
  BY <1>1, EffectFacts DEF WorldAt
<1>4. Framed(p)
  <2>1. Counting
    BY <1>2, <1>3, CountingIs
  <2>2. /\ held' \in [Mutations -> Processes \cup {None}]
        /\ \A q \in Processes : q # p => HeldKept(q)
    BY <1>2, HeldIs
  <2>3. /\ active' \in Activations \cup {None} /\ running' \subseteq Activations
        /\ route' \in Activations \cup {None} /\ starts' \in [Mutations -> 0..2]
    BY <1>2, <1>3 DEF ActivationTypeOK
  <2>4. /\ running' \subseteq {req[p].m}
        /\ \A a \in Activations : a # req[p].m => StaysOut(a)
    BY <1>2, <1>3 DEF StaysOut
  <2>5. starts'[req[p].m] <= 1
    BY <1>2, <1>3
  <2> QED
    BY <1>1, <1>2, <1>3, <2>1, <2>2, <2>3, <2>4, <2>5, FrameEffect
<1>5. ASSUME Goto(p, "verifyIn"), active' = req[p].m, held' = held
      PROVE  ProcessOK(p, "verifyIn")'
  <2>2. WorldAt(req[p].m, req[p].about, "verifyIn")'
    BY <1>2, <1>3, <1>5 DEF WorldAt, Stay
  <2>3. PhaseAt(req[p].m, "verifyIn", Me(p).phase)
    BY <1>3 DEF PhaseAt
  <2>4. "verifyIn" \in LateA /\ "verifyIn" \notin LateD
    BY DEF LateA, LateD
  <2> QED
    BY <1>1, <1>2, <1>3, <1>5, <2>2, <2>3, <2>4, LateOn DEF Stay, Effects
<1> QED
  BY <1>2, <1>3, <1>4, <1>5, EffectLeads DEF LateA

(* A deactivation stops the release.                                        *)
LEMMA StopKeeps ==
    ASSUME ActivationInv, NEW p \in Processes, Stop(p)
    PROVE  ActivationInv'
<1>1. pc[p] = "stop" /\ pc[p] \in Effects \cap Inside /\ pc[p] \in LateD
  BY DEF Stop, Effect, Effects, Inside, LateD
<1>2. /\ row' = row /\ hasty' = hasty /\ intact' = intact /\ requests' = requests /\ Stay
      /\ Counted(p) /\ alloc' = alloc /\ active' = active /\ route' = route
      /\ running' \in {running, running \ {req[p].about}}
      /\ held' = held \/ held' = Left(p)
      /\ \/ Goto(p, "stopped") /\ running' = running \ {req[p].about}
         \/ Goto(p, "failUnknown")
      /\ Calm \/ Disturbed
  BY DEF Stop, Effect, Runs, world
<1>3. /\ ActivationTypeOK /\ pc[p] \in Late /\ req[p].m \in Mutations
      /\ PhaseAt(req[p].m, "stop", Me(p).phase)
      /\ req[p].about \in Activations /\ Me(p).about = req[p].about
      /\ running \subseteq {req[p].about} /\ route \in {req[p].about, None}
      /\ running = {req[p].about} /\ route = req[p].about /\ active = req[p].about
      /\ starts[req[p].m] = 0
      /\ starts[req[p].m] <= 1
      /\ intact => held[req[p].m] = p /\ Me(p).status = "running" /\ Current(p)
  BY <1>1, EffectFacts DEF WorldAt
<1>4. Framed(p)
  <2>1. Counting
    BY <1>2, <1>3, CountingIs
  <2>2. /\ held' \in [Mutations -> Processes \cup {None}]
        /\ \A q \in Processes : q # p => HeldKept(q)
    BY <1>2, HeldIs
  <2>3. /\ active' \in Activations \cup {None} /\ running' \subseteq Activations
        /\ route' \in Activations \cup {None}
    BY <1>2, <1>3 DEF ActivationTypeOK
  <2>4. /\ running' \subseteq {req[p].about} /\ route' \in {req[p].about, None}
        /\ \A a \in Activations : StaysOut(a)
    BY <1>2, <1>3, MutationsAre DEF StaysOut
  <2>5. /\ starts' \in [Mutations -> 0..2] /\ starts'[req[p].m] <= 1
        /\ \A n \in Mutations : n # req[p].m => starts'[n] = starts[n]
    BY <1>2, <1>3 DEF Counted, ActivationTypeOK
  <2> QED
    BY <1>1, <1>2, <1>3, <2>1, <2>2, <2>3, <2>4, <2>5, FrameEffect
<1>5. ASSUME Goto(p, "stopped"), running' = running \ {req[p].about}
      PROVE  ProcessOK(p, "stopped")'
  <2>1. WorldAt(req[p].m, req[p].about, "stopped")'
    BY <1>2, <1>3, <1>5 DEF WorldAt, Stay
  <2>2. PhaseAt(req[p].m, "stopped", Me(p).phase)
    BY <1>3 DEF PhaseAt
  <2>3. "stopped" \in LateD /\ "stopped" \notin LateA /\ "stop" \in Effects
        /\ "stopped" \notin Inside
    BY DEF LateA, LateD, Effects, Inside
  <2> QED
    BY <1>1, <1>2, <1>3, <1>5, <2>1, <2>2, <2>3, LateOn DEF Stay
<1> QED
  BY <1>2, <1>3, <1>4, <1>5, EffectLeads DEF LateD

(* It removes the route of a release that does not run.                     *)
LEMMA UnrouteKeeps ==
    ASSUME ActivationInv, NEW p \in Processes, Unroute(p)
    PROVE  ActivationInv'
<1>1. pc[p] = "unroute" /\ pc[p] \in Effects \cap Inside /\ pc[p] \in LateD
  BY DEF Unroute, Effect, Effects, Inside, LateD
<1>2. /\ row' = row /\ hasty' = hasty /\ intact' = intact /\ requests' = requests /\ Stay
      /\ starts' = starts /\ alloc' = alloc /\ active' = active /\ running' = running
      /\ route' \in {route, None}
      /\ held' = held \/ held' = Left(p)
      /\ \/ Goto(p, "clear") /\ route' = None /\ held' = held
         \/ Goto(p, "failUnknown")
      /\ Calm \/ Disturbed
  BY DEF Unroute, Effect, Routes, world, Uncounted
<1>3. /\ ActivationTypeOK /\ pc[p] \in Late /\ req[p].m \in Mutations
      /\ PhaseAt(req[p].m, "unroute", Me(p).phase)
      /\ req[p].about \in Activations /\ Me(p).about = req[p].about
      /\ running \subseteq {req[p].about} /\ route \in {req[p].about, None}
      /\ running = {} /\ active = req[p].about
      /\ starts[req[p].m] <= 1
      /\ intact => held[req[p].m] = p /\ Me(p).status = "running" /\ Current(p)
  BY <1>1, EffectFacts DEF WorldAt
<1>4. Framed(p)
  <2>1. Counting
    BY <1>2, <1>3, CountingIs
  <2>2. /\ held' \in [Mutations -> Processes \cup {None}]
        /\ \A q \in Processes : q # p => HeldKept(q)
    BY <1>2, HeldIs
  <2>3. /\ active' \in Activations \cup {None} /\ running' \subseteq Activations
        /\ route' \in Activations \cup {None}
    BY <1>2, <1>3 DEF ActivationTypeOK
  <2>4. /\ running' \subseteq {req[p].about} /\ route' \in {req[p].about, None}
        /\ \A a \in Activations : StaysOut(a)
    BY <1>2, <1>3, MutationsAre DEF StaysOut
  <2>5. /\ starts' \in [Mutations -> 0..2] /\ starts'[req[p].m] <= 1
        /\ \A n \in Mutations : n # req[p].m => starts'[n] = starts[n]
    BY <1>2, <1>3 DEF Counted, ActivationTypeOK
  <2> QED
    BY <1>1, <1>2, <1>3, <2>1, <2>2, <2>3, <2>4, <2>5, FrameEffect
<1>5. ASSUME Goto(p, "clear"), route' = None, held' = held
      PROVE  ProcessOK(p, "clear")'
  <2>1. WorldAt(req[p].m, req[p].about, "clear")'
    BY <1>2, <1>3, <1>5 DEF WorldAt, Stay
  <2>2. PhaseAt(req[p].m, "clear", Me(p).phase)
    BY <1>3 DEF PhaseAt
  <2>3. "clear" \in LateD /\ "clear" \notin LateA /\ "unroute" \in Effects
    BY DEF LateA, LateD, Effects, Inside
  <2> QED
    BY <1>1, <1>2, <1>3, <1>5, <2>1, <2>2, <2>3, LateOn DEF Stay
<1> QED
  BY <1>2, <1>3, <1>4, <1>5, EffectLeads DEF LateD

(* It clears the active release.                                            *)
LEMMA ClearKeeps ==
    ASSUME ActivationInv, NEW p \in Processes, Clear(p)
    PROVE  ActivationInv'
<1>1. pc[p] = "clear" /\ pc[p] \in Effects \cap Inside /\ pc[p] \in LateD
  BY DEF Clear, Effect, Effects, Inside, LateD
<1>2. /\ row' = row /\ hasty' = hasty /\ intact' = intact /\ requests' = requests /\ Stay
      /\ starts' = starts /\ alloc' = alloc /\ route' = route /\ running' = running
      /\ active' \in {active, None}
      /\ held' = held \/ held' = Left(p)
      /\ \/ Goto(p, "unrouted") /\ active' = None
         \/ Goto(p, "failUnknown")
      /\ Calm \/ Disturbed
  BY DEF Clear, Effect, Records, world, Uncounted
<1>3. /\ ActivationTypeOK /\ pc[p] \in Late /\ req[p].m \in Mutations
      /\ PhaseAt(req[p].m, "clear", Me(p).phase)
      /\ req[p].about \in Activations /\ Me(p).about = req[p].about
      /\ running \subseteq {req[p].about} /\ route \in {req[p].about, None}
      /\ running = {} /\ route = None /\ active = req[p].about
      /\ starts[req[p].m] <= 1
      /\ intact => held[req[p].m] = p /\ Me(p).status = "running" /\ Current(p)
  BY <1>1, EffectFacts DEF WorldAt
<1>4. Framed(p)
  <2>1. Counting
    BY <1>2, <1>3, CountingIs
  <2>2. /\ held' \in [Mutations -> Processes \cup {None}]
        /\ \A q \in Processes : q # p => HeldKept(q)
    BY <1>2, HeldIs
  <2>3. /\ active' \in Activations \cup {None} /\ running' \subseteq Activations
        /\ route' \in Activations \cup {None}
    BY <1>2, <1>3 DEF ActivationTypeOK
  <2>4. /\ running' \subseteq {req[p].about} /\ route' \in {req[p].about, None}
        /\ \A a \in Activations : StaysOut(a)
    BY <1>2, <1>3, MutationsAre DEF StaysOut
  <2>5. /\ starts' \in [Mutations -> 0..2] /\ starts'[req[p].m] <= 1
        /\ \A n \in Mutations : n # req[p].m => starts'[n] = starts[n]
    BY <1>2, <1>3 DEF Counted, ActivationTypeOK
  <2> QED
    BY <1>1, <1>2, <1>3, <2>1, <2>2, <2>3, <2>4, <2>5, FrameEffect
<1>5. ASSUME Goto(p, "unrouted"), active' = None
      PROVE  ProcessOK(p, "unrouted")'
  <2>1. WorldAt(req[p].m, req[p].about, "unrouted")'
    BY <1>2, <1>3, <1>5 DEF WorldAt, Stay
  <2>2. PhaseAt(req[p].m, "unrouted", Me(p).phase)
    BY <1>3 DEF PhaseAt
  <2>3. "unrouted" \in LateD /\ "unrouted" \notin LateA /\ "clear" \in Effects
        /\ "unrouted" \notin Inside
    BY DEF LateA, LateD, Effects, Inside
  <2> QED
    BY <1>1, <1>2, <1>3, <1>5, <2>1, <2>2, <2>3, LateOn DEF Stay
<1> QED
  BY <1>2, <1>3, <1>4, <1>5, EffectLeads DEF LateD

(* A look at the outcome, before the lock is given back.                    *)
LEMMA VerifiesKeep ==
    ASSUME ActivationInv, NEW p \in Processes, VerifyIn(p) \/ VerifyGone(p)
    PROVE  ActivationInv'
<1>1. PICK here \in {"verifyIn", "verifyGone"}, next \in {"committed", "retired"} :
         /\ pc[p] = here /\ (here = "verifyIn" <=> next = "committed")
         /\ row' = row /\ UNCHANGED <<world, hasty, intact, requests>> /\ Stay
         /\ starts' = starts /\ (Calm \/ Disturbed)
         /\ held' = held \/ held' = Left(p)
         /\ Goto(p, next) \/ Goto(p, "failUnknown")
  BY DEF VerifyIn, VerifyGone, Effect, Looks, Uncounted
<1>2. /\ ActivationTypeOK /\ here \in Late /\ here \in Claims /\ ProcessOK(p, here)
      /\ req' = req /\ WorldKept /\ RetiredKept /\ alloc' = alloc
      /\ hasty' = hasty /\ intact' = intact /\ requests' = requests
  BY <1>1, PlacesAre DEF ActivationInv, Late, LateA, LateD, Stay, world, WorldKept, RetiredKept
<1>3. Framed(p)
  <2>1. Counting
    BY <1>1, <1>2, CountingIs
  <2>2. /\ held' \in [Mutations -> Processes \cup {None}]
        /\ \A q \in Processes : q # p => HeldKept(q)
    BY <1>1, <1>2, HeldIs
  <2>3. alloc' \in [Activations -> {"none", "held", "retired"}] /\ hasty' \subseteq Activations
    BY <1>2 DEF ActivationTypeOK
  <2> QED
    BY <1>1, <1>2, <2>1, <2>2, <2>3, FrameQuiet
<1>4. ProcessOK(p, next)'
  <2>1. /\ PhaseAt(req[p].m, here, Me(p).phase)
        /\ ActiveRow(req[p].m) => WorldAt(req[p].m, req[p].about, here)
    BY <1>2 DEF ProcessOK, LateOK
  <2>2. PhaseAt(req[p].m, next, Me(p).phase)
    BY <1>1, <2>1 DEF PhaseAt
  <2>3. ActiveRow(req[p].m) => WorldAt(req[p].m, req[p].about, next)
    BY <1>1, <2>1 DEF WorldAt
  <2>4. ActiveRow(req[p].m) => WorldAt(req[p].m, req[p].about, next)'
    BY <1>2, <2>3 DEF WorldAt, WorldKept, Steady
  <2>5. /\ next \in LateA \cup LateD /\ next \notin Inside \cup Effects
        /\ next \in LateA => here \in LateA
        /\ next \in LateD => here \in LateD
        /\ next \notin {"enterSwitch", "stopOld", "startNew", "enterStop", "stop"}
    BY <1>1 DEF LateA, LateD, Inside, Effects
  <2> QED
    BY <1>1, <1>2, <2>2, <2>4, <2>5, LateOn
<1> QED
  BY <1>1, <1>2, <1>3, <1>4, EffectLeads DEF LateA, LateD

(* It gives the ports back when the release is neither running nor routed.  *)
LEMMA RetireKeeps ==
    ASSUME ActivationInv, NEW p \in Processes, Retire(p)
    PROVE  ActivationInv'
<1>1. /\ pc[p] = "retire"
      /\ row' = row /\ UNCHANGED <<active, running, route, hasty, intact, requests>> /\ Stay
      /\ starts' = starts /\ (Calm \/ Disturbed)
      /\ held' = held \/ held' = Left(p)
      /\ \/ Goto(p, "verifyGone") /\ held' = held
         \/ Goto(p, "failUnknown")
      /\ \/ alloc' = alloc
         \/ /\ alloc' = [alloc EXCEPT ![req[p].about] = "retired"]
            /\ req[p].about \notin running /\ route # req[p].about /\ active = None
  BY DEF Retire, Effect, Retires, Uncounted, world
<1>2. /\ ActivationTypeOK /\ "retire" \in Late /\ "retire" \in Claims /\ ProcessOK(p, "retire")
      /\ "retire" \in LateD /\ "retire" \in Inside
      /\ req' = req /\ WorldKept /\ hasty' = hasty /\ intact' = intact /\ requests' = requests
  BY <1>1, PlacesAre DEF ActivationInv, Late, LateD, Inside, Stay, WorldKept
<1>3. /\ req[p].about \in Activations /\ row[req[p].about].status \in Terminal
      /\ intact => held[req[p].m] = p /\ Me(p).status = "running" /\ Current(p)
      /\ PhaseAt(req[p].m, "retire", Me(p).phase)
      /\ ActiveRow(req[p].m) => WorldAt(req[p].m, req[p].about, "retire")
  BY <1>2 DEF ProcessOK, AskedOK, LateOK
<1>4. /\ alloc' \in [Activations -> {"none", "held", "retired"}]
      /\ RetiredKept
      /\ \A a \in Activations : alloc'[a] = "retired" =>
            \/ alloc[a] = "retired"
            \/ row[a].status \in Terminal /\ a \notin running /\ route # a /\ active # a
  BY <1>1, <1>2, <1>3, MutationsAre DEF ActivationTypeOK, RetiredKept
<1>5. Framed(p)
  <2>1. Counting
    BY <1>1, <1>2, CountingIs
  <2>2. /\ held' \in [Mutations -> Processes \cup {None}]
        /\ \A q \in Processes : q # p => HeldKept(q)
    BY <1>1, <1>2, HeldIs
  <2>3. hasty' \subseteq Activations
    BY <1>2 DEF ActivationTypeOK
  <2> QED
    BY <1>1, <1>2, <1>4, <2>1, <2>2, <2>3, FrameQuiet
<1>6. ASSUME held' = held PROVE ProcessOK(p, "verifyGone")'
  <2>1. PhaseAt(req[p].m, "verifyGone", Me(p).phase)
    BY <1>3 DEF PhaseAt
  <2>2. ActiveRow(req[p].m) => WorldAt(req[p].m, req[p].about, "verifyGone")'
    BY <1>2, <1>3 DEF WorldAt, WorldKept
  <2>3. "verifyGone" \in LateD /\ "verifyGone" \notin LateA \cup Effects
    BY DEF LateA, LateD, Effects
  <2> QED
    BY <1>1, <1>2, <1>3, <1>6, <2>1, <2>2, <2>3, LateOn
<1> QED
  BY <1>1, <1>2, <1>5, <1>6, EffectLeads DEF LateD

(* requireReady.                                                            *)
LEMMA ReadyKeeps ==
    ASSUME ActivationInv, NEW p \in Processes, Ready(p)
    PROVE  ActivationInv'
<1>1. /\ pc[p] = "ready" /\ Stay /\ (Goto(p, "healthy") \/ Goto(p, "failUnknown"))
      /\ UNCHANGED <<row, held, world, aux, requests>> /\ (Calm \/ Disturbed)
  BY DEF Ready
<1>2. /\ ActivationTypeOK /\ "ready" \in Late /\ ProcessOK(p, "ready") /\ "ready" \in LateA
      /\ "ready" \in Effects /\ req' = req /\ WorldKept /\ row' = row /\ intact' = intact
  BY <1>1 DEF ActivationInv, Late, LateA, Effects, Stay, WorldKept, world, aux
<1>3. Quiet /\ Framed(p)
  BY <1>1, <1>2, CountingIs, QuietFrame DEF Quiet
<1>4. ProcessOK(p, "healthy")'
  <2>1. /\ PhaseAt(req[p].m, "ready", Me(p).phase)
        /\ ActiveRow(req[p].m) => WorldAt(req[p].m, req[p].about, "ready")
    BY <1>2 DEF ProcessOK, LateOK
  <2>2. PhaseAt(req[p].m, "healthy", Me(p).phase)
    BY <2>1 DEF PhaseAt
  <2>3. ActiveRow(req[p].m) => WorldAt(req[p].m, req[p].about, "healthy")'
    BY <1>2, <2>1 DEF WorldAt, WorldKept
  <2>4. "healthy" \in LateA /\ "healthy" \notin LateD \cup Inside
    BY DEF LateA, LateD, Inside
  <2> QED
    BY <1>1, <1>2, <2>2, <2>3, <2>4, LateOn
<1> QED
  BY <1>1, <1>2, <1>3, <1>4, EffectLeads DEF LateA

(* The mutation is finished as a success when all of its effects are in.    *)
LEMMA SuccessKeeps ==
    ASSUME ActivationInv, NEW p \in Processes, Success(p)
    PROVE  ActivationInv'
<1>1. /\ pc[p] = "success" /\ "success" \in Late /\ "success" \in Claims
      /\ ProcessOK(p, "success") /\ RowFree(req[p].m)
      /\ UNCHANGED <<held, world, aux>> /\ Counting /\ ActivationTypeOK
      /\ "failUnknown" \in Claims /\ "failUnknown" \in Places /\ "failUnknown" \notin Late
  BY CountingIs DEF Success, ActivationInv, Late, LateA, LateD, Claims, Places
<1>2. req[p].m \in Mutations /\ Me(p).status # "absent"
  BY <1>1 DEF ProcessOK, AskedOK, ClaimOK
<1>3. ASSUME Owns(p), row' = [row EXCEPT ![req[p].m] = Finished(p, "succeeded")]
      PROVE  /\ Framed(p) /\ row'[req[p].m] = Finished(p, "succeeded")
             /\ \A n \in Mutations : row'[n].epoch = row[n].epoch
  <2>1. ActiveRow(req[p].m)
    BY <1>3 DEF Owns, ActiveRow, Me
  <2>2. WorldAt(req[p].m, req[p].about, "success")
    BY <1>1, <2>1 DEF ProcessOK, LateOK
  <2>3. Steady
    BY <1>2, <2>2, MutationsAre DEF WorldAt, Steady
  <2>4. RowStep(req[p].m, Finished(p, "succeeded")) /\ "succeeded" \in Terminal
    BY <1>1, <1>3 DEF RowStep, Terminal
  <2>5. Framed(p)
    BY <1>1, <1>3, <2>3, <2>4, FrameFinish
  <2>6. row'[req[p].m] = Finished(p, "succeeded")
        /\ \A n \in Mutations : n # req[p].m => row'[n] = row[n]
    BY <1>1, <1>2, <1>3 DEF ActivationTypeOK
  <2>7. Finished(p, "succeeded").epoch = row[req[p].m].epoch
    BY DEF Finished, Me
  <2> QED
    BY <2>5, <2>6, <2>7
<1>4. ASSUME Owns(p), row' = [row EXCEPT ![req[p].m] = Finished(p, "succeeded")], End(p, TRUE)
      PROVE  ActivationInv'
  <2>1. row'[req[p].m].status = "succeeded" /\ Framed(p)
    BY <1>3, <1>4 DEF Finished
  <2> QED
    BY <1>2, <1>4, <2>1, EndKeeps
<1>5. ASSUME row' = row, Goto(p, "failUnknown"), Stay PROVE ActivationInv'
  <2>1. Quiet /\ Me(p)' = Me(p) /\ req' = req
    BY <1>1, <1>5 DEF Quiet, Me, Stay
  <2>2. ProcessOK(p, "failUnknown")'
    BY <1>1, <1>2, <2>1, UnknownOK
  <2> QED
    BY <1>1, <1>5, <2>1, <2>2, QuietStays
<1>6. ASSUME Owns(p), row' = [row EXCEPT ![req[p].m] = Finished(p, "succeeded")],
             Goto(p, "failUnknown"), Stay
      PROVE  ActivationInv'
  <2>1. /\ Framed(p) /\ row'[req[p].m] = Finished(p, "succeeded") /\ req' = req
        /\ \A n \in Mutations : row'[n].epoch = row[n].epoch
    BY <1>3, <1>6 DEF Stay
  <2>2. Me(p)'.status # "absent" /\ Me(p)'.about = Me(p).about /\ Me(p)'.epoch = Me(p).epoch
    BY <2>1 DEF Finished, Me
  <2>3. ProcessOK(p, "failUnknown")'
    BY <1>1, <2>1, <2>2, UnknownOK
  <2> QED
    BY <1>1, <1>6, <2>1, <2>3, StayKeeps
<1> QED
  BY <1>4, <1>5, <1>6 DEF Success

(* A failure is final before the effects and unknown after them.            *)
LEMMA FailsKeep ==
    ASSUME ActivationInv, NEW p \in Processes, FailClean(p) \/ FailUnknown(p)
    PROVE  ActivationInv'
<1>1. PICK here \in {"failClean", "failUnknown"}, status \in {"failed_terminal", "outcome_unknown"} :
         Fail(p, here, status) /\ (status = "failed_terminal" => here = "failClean")
  BY DEF FailClean, FailUnknown
<1>2. /\ pc[p] = here /\ here \in Claims /\ ProcessOK(p, here) /\ RowFree(req[p].m)
      /\ UNCHANGED <<held, world, aux>> /\ Counting /\ End(p, FALSE) /\ status \in Terminal
  BY <1>1, CountingIs DEF Fail, ActivationInv, Claims, Terminal
<1>3. CASE row' = row
  <2>1. Quiet
    BY <1>2, <1>3 DEF Quiet
  <2> QED
    BY <1>2, <2>1, QuietEnds
<1>4. CASE Owns(p) /\ row' = [row EXCEPT ![req[p].m] = Finished(p, status)]
  <2>1. status # "outcome_unknown" => Steady /\ pc[p] \in Late \cup {"failClean"}
    BY <1>1, <1>2, <1>4 DEF ProcessOK, ClaimOK, Owns, Current
  <2>2. RowStep(req[p].m, Finished(p, status))
    BY <1>2, <1>4 DEF RowStep
  <2>3. Framed(p)
    BY <1>2, <1>4, <2>1, <2>2, FrameFinish
  <2> QED
    BY <1>2, <2>3, EndKeeps
<1> QED
  BY <1>1, <1>3, <1>4 DEF Fail

(* The answers that rest on a verdict.                                      *)
LEMMA AnswersKeep ==
    ASSUME ActivationInv, NEW p \in Processes, Verify(p) \/ Confirm(p) \/ GoneYet(p)
    PROVE  ActivationInv'
<1>1. /\ pc[p] \in {"verify", "confirm", "gone"} /\ ProcessOK(p, pc[p])
      /\ UNCHANGED <<row, held, world, aux, requests>>
      /\ Calm \/ Disturbed
  BY DEF Verify, Confirm, GoneYet, ActivationInv
<1>2. Quiet
  BY <1>1, CountingIs DEF Quiet, ActivationInv
<1>3. req[p].m \in Mutations /\ Me(p).status = "succeeded"
  BY <1>1, AskedFor DEF Reading, ProcessOK, SeenOK
<1>4. PICK b : End(p, b)
  BY DEF Verify, Confirm, GoneYet
<1> QED
  BY <1>2, <1>3, <1>4, QuietEnds

(* A place where a request only reads.                                      *)
LEMMA ReadingOK ==
    ASSUME NEW p, NEW place \in Reading, req'[p].m \in Mutations,
           place \in {"dRecover", "gone"} =>
              req'[p].m \in Deactivations /\ req'[p].about \in Activations,
           place \notin {"dRecover", "gone"} => req'[p].m \in Activations,
           SeenOK(p, place)'
    PROVE  ProcessOK(p, place)' /\ place \in Places \ Claims
<1>1. place \in Places \ Claims
  BY DEF Reading, Places, Claims, Early, EarlyA, EarlyD, Late, LateA, LateD
<1>2. AskedOK(p, place)'
  BY <1>1 DEF AskedOK, Reading, Claims, Early, EarlyA, EarlyD, Late, LateA, LateD
<1>3. ClaimOK(p, place)'
  BY <1>1, PlacesAre DEF ClaimOK, Claims, Early, EarlyA, EarlyD
<1>4. LateOK(p, place)'
  BY DEF LateOK, Reading, Late, LateA, LateD, Effects, Inside
<1> QED
  BY <1>1, <1>2, <1>3, <1>4 DEF ProcessOK

(* Reconciliation reads the row.                                            *)
LEMMA RecReadKeeps ==
    ASSUME ActivationInv, NEW p \in Processes, RecRead(p)
    PROVE  ActivationInv'
<1>1. /\ pc[p] = "recRead" /\ ProcessOK(p, "recRead") /\ ActivationTypeOK
      /\ UNCHANGED <<row, held, world, aux, requests>>
      /\ Calm \/ Disturbed
  BY DEF RecRead, ActivationInv
<1>2. Quiet /\ Framed(p)
  BY <1>1, CountingIs, QuietFrame DEF Quiet
<1>3. req[p].m \in Activations /\ req[p].m \in Mutations
  BY <1>1, MutationsAre DEF ProcessOK, AskedOK
<1>4. CASE End(p, FALSE)
  BY <1>2, <1>4, QuietEnds
<1>5. ASSUME Me(p).phase \in Recoverable,
             Me(p).status \in {"succeeded", "outcome_unknown", "running"}, req' = Noted(p),
             Goto(p, IF Me(p).status = "running" THEN "recClaim" ELSE "observe"),
             UNCHANGED <<lifecycle, told>>
      PROVE  ActivationInv'
  <2>1. PICK r \in Reqs : /\ req' = [req EXCEPT ![p] = r] /\ r.m = req[p].m
                          /\ r.unknown <=> Me(p).status = "outcome_unknown"
    BY <1>1, <1>3, <1>5, NotedIs
  <2>2. PICK place \in {"recClaim", "observe"} :
           Goto(p, place) /\ (place = "observe" => Me(p).status # "running")
    BY <1>5
  <2>3. req'[p] = r /\ Me(p)' = Me(p)
    BY <1>1, <2>1 DEF Me, ActivationTypeOK
  <2>4. SeenOK(p, place)'
    BY <1>5, <2>1, <2>2, <2>3 DEF SeenOK, Recoverable
  <2>5. ProcessOK(p, place)' /\ place \in Places \ Claims
    BY <1>3, <2>1, <2>3, <2>4, ReadingOK DEF Reading
  <2>6. lifecycle' \in Processes \cup {None} /\ told' = told
    BY <1>1, <1>5 DEF ActivationTypeOK
  <2> QED
    BY <1>2, <2>1, <2>2, <2>5, <2>6, TurnKeeps
<1> QED
  BY <1>4, <1>5 DEF RecRead

(* It takes over a claim that nobody keeps alive.                           *)
LEMMA RecClaimKeeps ==
    ASSUME ActivationInv, NEW p \in Processes, RecClaim(p)
    PROVE  ActivationInv'
<1>1. /\ pc[p] = "recClaim" /\ ProcessOK(p, "recClaim") /\ ActivationTypeOK
      /\ RowFree(req[p].m) /\ UNCHANGED <<held, world, aux, requests>> /\ Counting
  BY CountingIs DEF RecClaim, ActivationInv
<1>2. req[p].m \in Activations /\ req[p].m \in Mutations /\ Me(p).phase \in Recoverable
  BY <1>1, MutationsAre DEF ProcessOK, AskedOK, SeenOK
<1>3. ASSUME Resumable(p), Claim(p, "recFail") PROVE ActivationInv'
  BY <1>1, <1>3, ClaimKeeps
<1>4. ASSUME Me(p).status \in {"succeeded", "outcome_unknown"}, req' = Noted(p),
             Goto(p, "observe"), UNCHANGED <<row, lifecycle, told>>
      PROVE  ActivationInv'
  <2>1. PICK r \in Reqs : /\ req' = [req EXCEPT ![p] = r] /\ r.m = req[p].m
                          /\ r.unknown <=> Me(p).status = "outcome_unknown"
    BY <1>1, <1>2, <1>4, NotedIs
  <2>2. Quiet /\ Framed(p)
    BY <1>1, <1>4, QuietFrame DEF Quiet
  <2>3. req'[p] = r /\ Me(p)' = Me(p)
    BY <1>1, <1>4, <2>1 DEF Me, ActivationTypeOK
  <2>4. SeenOK(p, "observe")'
    BY <1>2, <1>4, <2>1, <2>3 DEF SeenOK, Recoverable
  <2>5. ProcessOK(p, "observe")' /\ "observe" \in Places \ Claims
    BY <1>2, <2>1, <2>3, <2>4, ReadingOK DEF Reading
  <2>6. lifecycle' \in Processes \cup {None} /\ told' = told
    BY <1>1, <1>4 DEF ActivationTypeOK
  <2> QED
    BY <1>4, <2>1, <2>2, <2>5, <2>6, TurnKeeps
<1>5. ASSUME End(p, FALSE), row' = row PROVE ActivationInv'
  <2>1. Quiet
    BY <1>1, <1>5 DEF Quiet
  <2> QED
    BY <1>5, <2>1, QuietEnds
<1>6. ASSUME Disturbed, End(p, FALSE),
             \/ Resumable(p) /\ row' = [row EXCEPT ![req[p].m] = Claimed(p)]
             \/ UNCHANGED row
      PROVE  ActivationInv'
  BY <1>1, <1>6, LostClaimKeeps
<1> QED
  BY <1>3, <1>4, <1>5, <1>6 DEF RecClaim

(* It finishes the row that it took over as unknown.                        *)
LEMMA RecFailKeeps ==
    ASSUME ActivationInv, NEW p \in Processes, RecFail(p)
    PROVE  ActivationInv'
<1>1. /\ pc[p] = "recFail" /\ "recFail" \in Claims /\ ProcessOK(p, "recFail") /\ ActivationTypeOK
      /\ RowFree(req[p].m) /\ UNCHANGED <<held, world, aux, requests>> /\ Counting
  BY CountingIs DEF RecFail, ActivationInv, Claims
<1>2. req[p].m \in Activations /\ req[p].m \in Mutations /\ Me(p).phase \in Recoverable
  BY <1>1, MutationsAre DEF ProcessOK, AskedOK, SeenOK
<1>3. ASSUME Owns(p), row' = [row EXCEPT ![req[p].m] = Finished(p, "outcome_unknown")]
      PROVE  Framed(p) /\ row'[req[p].m] = Finished(p, "outcome_unknown")
  <2>1. RowStep(req[p].m, Finished(p, "outcome_unknown")) /\ "outcome_unknown" \in Terminal
    BY <1>1, <1>3 DEF RowStep, Terminal
  <2>2. row'[req[p].m] = Finished(p, "outcome_unknown")
    BY <1>1, <1>2, <1>3 DEF ActivationTypeOK
  <2> QED
    BY <1>1, <1>3, <2>1, <2>2, FrameFinish
<1>4. ASSUME Owns(p), row' = [row EXCEPT ![req[p].m] = Finished(p, "outcome_unknown")],
             req' = [req EXCEPT ![p].unknown = TRUE], Goto(p, "observe"),
             UNCHANGED <<lifecycle, told>>
      PROVE  ActivationInv'
  <2>1. PICK r \in Reqs : r = [req[p] EXCEPT !.unknown = TRUE]
    <3>1. req[p] \in Reqs
      BY <1>1 DEF ActivationTypeOK
    <3>2. [req[p] EXCEPT !.unknown = TRUE] \in Reqs
      BY <3>1 DEF Reqs
    <3> QED
      BY <3>2
  <2>2. req' = [req EXCEPT ![p] = r] /\ req'[p] = r
    BY <1>1, <1>4, <2>1 DEF ActivationTypeOK
  <2>3. r.m = req[p].m /\ r.unknown = TRUE
    <3>1. req[p] \in Reqs
      BY <1>1 DEF ActivationTypeOK
    <3> QED
      BY <2>1, <3>1 DEF Reqs
  <2>4. Framed(p) /\ Me(p)' = Finished(p, "outcome_unknown")
    BY <1>3, <1>4, <2>2, <2>3 DEF Me
  <2>5. SeenOK(p, "observe")'
    BY <1>2, <2>2, <2>3, <2>4 DEF SeenOK, Finished, Recoverable
  <2>6. ProcessOK(p, "observe")' /\ "observe" \in Places \ Claims
    BY <1>2, <2>2, <2>3, <2>5, ReadingOK DEF Reading
  <2>7. lifecycle' \in Processes \cup {None} /\ told' = told
    BY <1>1, <1>4 DEF ActivationTypeOK
  <2> QED
    BY <1>4, <2>2, <2>4, <2>6, <2>7, TurnKeeps
<1>5. ASSUME Owns(p), row' = [row EXCEPT ![req[p].m] = Finished(p, "outcome_unknown")],
             End(p, FALSE)
      PROVE  ActivationInv'
  BY <1>3, <1>5, EndKeeps
<1>6. ASSUME End(p, FALSE), row' = row PROVE ActivationInv'
  <2>1. Quiet
    BY <1>1, <1>6 DEF Quiet
  <2> QED
    BY <1>6, <2>1, QuietEnds
<1> QED
  BY <1>4, <1>5, <1>6 DEF RecFail

(* It asks the runtime and the gateway what serves.                         *)
LEMMA ObserveWorldKeeps ==
    ASSUME ActivationInv, NEW p \in Processes, ObserveWorld(p)
    PROVE  ActivationInv'
<1>1. /\ pc[p] = "observe" /\ ProcessOK(p, "observe") /\ ActivationTypeOK
      /\ UNCHANGED <<row, held, world, aux, requests>>
      /\ Calm \/ Disturbed
  BY DEF ObserveWorld, Observe, ActivationInv
<1>2. Quiet
  BY <1>1, CountingIs DEF Quiet
<1>3. /\ req[p].m \in Activations /\ req[p].m \in Mutations /\ Me(p).phase \in Recoverable
      /\ Me(p).status \in {"succeeded", "outcome_unknown"}
      /\ ~req[p].unknown => Me(p).status = "succeeded"
  BY <1>1, MutationsAre DEF ProcessOK, AskedOK, SeenOK
<1>4. CASE End(p, FALSE)
  BY <1>2, <1>4, QuietEnds
<1>5. ASSUME Confirmed(p), Goto(p, IF req[p].unknown THEN "recover" ELSE "confirm"), Stay
      PROVE  ActivationInv'
  <2>1. PICK place \in {"recover", "confirm"} :
           Goto(p, place) /\ (place = "confirm" => Me(p).status = "succeeded")
    BY <1>3, <1>5
  <2>2. req' = req /\ Me(p)' = Me(p)
    BY <1>1, <1>5 DEF Me, Stay
  <2>3. Serves(req[p].m)'
    BY <1>1, <1>5, <2>2 DEF Confirmed, Serves, world
  <2>4. SeenOK(p, place)'
    BY <1>3, <2>1, <2>2, <2>3 DEF SeenOK, Recoverable
  <2>5. ProcessOK(p, place)' /\ place \in Places \ Claims
    BY <1>3, <2>2, <2>4, ReadingOK DEF Reading
  <2> QED
    BY <1>2, <1>5, <2>1, <2>5, QuietStays
<1> QED
  BY <1>4, <1>5 DEF ObserveWorld, Observe

(* An unknown outcome becomes a success that was observed.                  *)
LEMMA RecoversKeep ==
    ASSUME ActivationInv, NEW p \in Processes,
           Recover(p, "recover", "confirm") \/ Recover(p, "dRecover", "gone")
    PROVE  ActivationInv'
<1>1. PICK here \in {"recover", "dRecover"}, next \in {"confirm", "gone"} :
         Recover(p, here, next) /\ (here = "recover" <=> next = "confirm")
  OBVIOUS
<1>2. /\ pc[p] = here /\ ProcessOK(p, here) /\ ActivationTypeOK
      /\ RowFree(req[p].m) /\ UNCHANGED <<held, world, aux, requests>> /\ Counting
  BY <1>1, CountingIs DEF Recover, ActivationInv
<1>3. /\ req[p].m \in Mutations
      /\ here = "recover" => req[p].m \in Activations
      /\ here = "dRecover" => req[p].m \in Deactivations /\ req[p].about \in Activations
  BY <1>2, MutationsAre DEF ProcessOK, AskedOK
<1>4. ASSUME Me(p).status = "outcome_unknown",
             row' = [row EXCEPT ![req[p].m].status = "succeeded"]
      PROVE  Framed(p) /\ row'[req[p].m].status = "succeeded"
  <2>1. row' = [row EXCEPT ![req[p].m] = [Me(p) EXCEPT !.status = "succeeded"]]
    BY <1>4 DEF Me
  <2>2. RowStep(req[p].m, [Me(p) EXCEPT !.status = "succeeded"])
    BY <1>2, <2>1 DEF RowStep
  <2>3. row'[req[p].m].status = "succeeded"
    BY <1>2, <1>3, <1>4 DEF ActivationTypeOK, Rows
  <2> QED
    BY <1>2, <1>4, <2>2, <2>3, FrameRecover
<1>5. ASSUME Me(p).status = "outcome_unknown",
             row' = [row EXCEPT ![req[p].m].status = "succeeded"], Goto(p, next), Stay
      PROVE  ActivationInv'
  <2>1. Framed(p) /\ req' = req /\ Me(p)'.status = "succeeded"
    BY <1>4, <1>5 DEF Me, Stay
  <2>2. SeenOK(p, next)'
    BY <2>1 DEF SeenOK
  <2>3. ProcessOK(p, next)' /\ next \in Places \ Claims
    BY <1>1, <1>3, <2>1, <2>2, ReadingOK DEF Reading
  <2> QED
    BY <1>5, <2>1, <2>3, StayKeeps
<1>6. ASSUME Me(p).status = "outcome_unknown",
             row' = [row EXCEPT ![req[p].m].status = "succeeded"], End(p, FALSE)
      PROVE  ActivationInv'
  BY <1>4, <1>6, EndKeeps
<1>7. ASSUME row' = row, End(p, FALSE) PROVE ActivationInv'
  <2>1. Quiet
    BY <1>2, <1>7 DEF Quiet
  <2> QED
    BY <1>7, <2>1, QuietEnds
<1> QED
  BY <1>1, <1>5, <1>6, <1>7 DEF Recover

(* A retirement reads and writes outside of the journal.                    *)
LEMMA RetirePlaceOK ==
    ASSUME NEW p, NEW place \in {"rVerify", "rCommit"}, req'[p].about \in Activations,
           SeenOK(p, place)'
    PROVE  ProcessOK(p, place)' /\ place \in Places \ Claims
<1>1. place \in Places \ Claims
  BY DEF Places, Claims, Early, EarlyA, EarlyD, Late, LateA, LateD
<1>2. AskedOK(p, place)'
  BY <1>1 DEF AskedOK, Claims, Early, EarlyA, EarlyD, Late, LateA, LateD
<1>3. ClaimOK(p, place)'
  BY <1>1, PlacesAre DEF ClaimOK
<1>4. LateOK(p, place)'
  BY DEF LateOK, Late, LateA, LateD, Effects, Inside
<1> QED
  BY <1>1, <1>2, <1>3, <1>4 DEF ProcessOK

(* A retirement reads the row of the release and what is active.            *)
LEMMA RetireReadKeeps ==
    ASSUME ActivationInv, NEW p \in Processes, RetireRead(p)
    PROVE  ActivationInv'
<1>0. PICK a : a = req[p].about
  OBVIOUS
<1>1. /\ pc[p] = "rRead" /\ ProcessOK(p, "rRead") /\ ActivationTypeOK
      /\ row' = row /\ held' = held /\ UNCHANGED world /\ starts' = starts /\ intact' = intact
      /\ Counting
  BY CountingIs DEF RetireRead, ActivationInv
<1>2. a \in Activations /\ a \in Mutations
  BY <1>0, <1>1, MutationsAre DEF ProcessOK, AskedOK
<1>3. hasty \subseteq hasty' /\ hasty' \subseteq Activations
  BY <1>0, <1>1, <1>2 DEF RetireRead, ActivationTypeOK
<1>4. Framed(p)
  <2>1. WorldKept /\ RetiredKept /\ alloc' = alloc
    BY <1>1 DEF world, WorldKept, RetiredKept
  <2>2. /\ \A q \in Processes : HeldKept(q)
        /\ held' \in [Mutations -> Processes \cup {None}]
        /\ alloc' \in [Activations -> {"none", "held", "retired"}]
    BY <1>1, <2>1 DEF HeldKept, ActivationTypeOK
  <2> QED
    BY <1>1, <1>3, <2>1, <2>2, FrameQuiet
<1>5. CASE End(p, FALSE)
  BY <1>4, <1>5, EndKeeps
<1>6. ASSUME active # a, Goto(p, "rVerify"), Stay,
             hasty' = IF row[a].status \in {"absent", "running"} THEN hasty \cup {a} ELSE hasty
      PROVE  ActivationInv'
  <2>1. a \notin hasty' => row[a].status \in Terminal
    BY <1>1, <1>2, <1>6, Fields DEF Statuses, Terminal
  <2>2. req' = req /\ active' = active
    BY <1>1, <1>6 DEF Stay, world
  <2>3. SeenOK(p, "rVerify")'
    BY <1>0, <1>1, <1>6, <2>1, <2>2 DEF SeenOK, Terminal
  <2>4. ProcessOK(p, "rVerify")' /\ "rVerify" \in Places \ Claims
    BY <1>0, <1>2, <2>2, <2>3, RetirePlaceOK
  <2> QED
    BY <1>4, <1>6, <2>4, StayKeeps
<1> QED
  BY <1>0, <1>5, <1>6 DEF RetireRead

(* It finds the release neither running nor routed.                         *)
LEMMA RetireVerifyKeeps ==
    ASSUME ActivationInv, NEW p \in Processes, RetireVerify(p)
    PROVE  ActivationInv'
<1>0. PICK a : a = req[p].about
  OBVIOUS
<1>1. /\ pc[p] = "rVerify" /\ ProcessOK(p, "rVerify") /\ ActivationTypeOK
      /\ UNCHANGED <<row, held, world, aux, requests>>
      /\ Calm \/ Disturbed
  BY DEF RetireVerify, Observe, ActivationInv
<1>2. Quiet
  BY <1>1, CountingIs DEF Quiet
<1>3. /\ a \in Activations
      /\ intact /\ a \notin hasty => row[a].status \in Terminal /\ active # a
  BY <1>0, <1>1 DEF ProcessOK, AskedOK, SeenOK
<1>4. CASE End(p, FALSE)
  BY <1>2, <1>4, QuietEnds
<1>5. ASSUME a \notin running, route # a, Goto(p, "rCommit"), Stay PROVE ActivationInv'
  <2>1. /\ req' = req /\ active' = active /\ running' = running /\ route' = route
        /\ row' = row /\ hasty' = hasty /\ intact' = intact
    BY <1>1, <1>5 DEF Stay, world, aux
  <2>2. SeenOK(p, "rCommit")'
    BY <1>0, <1>3, <1>5, <2>1 DEF SeenOK, Terminal
  <2>3. ProcessOK(p, "rCommit")' /\ "rCommit" \in Places \ Claims
    BY <1>0, <1>3, <2>1, <2>2, RetirePlaceOK
  <2> QED
    BY <1>2, <1>5, <2>3, QuietStays
<1> QED
  BY <1>0, <1>4, <1>5 DEF RetireVerify, Observe

(* It gives the ports back.                                                 *)
LEMMA RetireCommitKeeps ==
    ASSUME ActivationInv, NEW p \in Processes, RetireCommit(p)
    PROVE  ActivationInv'
<1>1. /\ pc[p] = "rCommit" /\ ProcessOK(p, "rCommit") /\ ActivationTypeOK
      /\ row' = row /\ held' = held /\ WorldKept /\ starts' = starts /\ hasty' = hasty
      /\ intact' = intact /\ Counting /\ End(p, FALSE)
      /\ alloc' = alloc \/ alloc' = [alloc EXCEPT ![req[p].about] = "retired"]
  BY CountingIs DEF RetireCommit, ActivationInv, WorldKept, aux
<1>2. /\ req[p].about \in Activations
      /\ intact /\ req[p].about \notin hasty =>
            /\ row[req[p].about].status \in Terminal /\ active # req[p].about
            /\ req[p].about \notin running /\ route # req[p].about
  BY <1>1 DEF ProcessOK, AskedOK, SeenOK
<1>3. /\ alloc' \in [Activations -> {"none", "held", "retired"}] /\ RetiredKept
      /\ \A a \in Activations \ hasty' : intact /\ alloc'[a] = "retired" =>
            \/ alloc[a] = "retired"
            \/ row[a].status \in Terminal /\ a \notin running /\ route # a /\ active # a
  BY <1>1, <1>2 DEF ActivationTypeOK, RetiredKept
<1>4. /\ \A q \in Processes : HeldKept(q)
      /\ hasty' \subseteq Activations /\ held' \in [Mutations -> Processes \cup {None}]
  BY <1>1 DEF HeldKept, ActivationTypeOK
<1>5. Framed(p)
  BY <1>1, <1>3, <1>4, FrameQuiet
<1> QED
  BY <1>1, <1>5, EndKeeps

(* A process that dies leaves its row and its effects as they are.          *)
LEMMA CrashKeeps ==
    ASSUME ActivationInv, NEW p \in Processes, Crash(p)
    PROVE  ActivationInv'
<1>1. /\ row' = row /\ held' = Left(p) /\ WorldKept /\ RetiredKept /\ alloc' = alloc
      /\ starts' = starts /\ hasty' = hasty /\ intact' = intact /\ End(p, FALSE)
      /\ Counting /\ ActivationTypeOK
  BY CountingIs DEF Crash, ActivationInv, world, aux, WorldKept, RetiredKept
<1>2. /\ held' \in [Mutations -> Processes \cup {None}]
      /\ \A q \in Processes : q # p => HeldKept(q)
  BY <1>1, HeldIs
<1>3. alloc' \in [Activations -> {"none", "held", "retired"}] /\ hasty' \subseteq Activations
  BY <1>1 DEF ActivationTypeOK
<1>4. Framed(p)
  BY <1>1, <1>2, <1>3, FrameQuiet
<1> QED
  BY <1>1, <1>4, EndKeeps

-----------------------------------------------------------------------------
(* Time and failures: no process moves.                                     *)
LEMMA NobodyMoves ==
    ASSUME ActivationInv, ActivationTypeOK', RowsOK', UNCHANGED <<world, pc, req, told, hasty, starts>>,
           \A m \in Mutations : SameRow(m), intact' => intact,
           \A q \in Processes : HeldKept(q)
    PROVE  ActivationInv'
<1>1. WorldKept /\ RetiredKept /\ alloc' = alloc /\ pc' = pc /\ req' = req /\ told' = told
      /\ hasty' = hasty /\ starts' = starts
  BY DEF world, WorldKept, RetiredKept
<1>2. WorldOK'
  BY <1>1, WorldStands
<1>3. ToldIsRecorded'
  BY <1>1 DEF ActivationInv, ActivationTypeOK, ToldIsRecorded, SameRow
<1>4. VerdictsKept /\ \A a \in Activations : StaysOut(a)
  BY <1>1 DEF VerdictsKept, SameRow, StaysOut, WorldKept
<1>5. ASSUME NEW q \in Processes PROVE ProcessOK(q, pc[q])'
  <2>1. PICK here : here = pc[q]
    OBVIOUS
  <2>2. ProcessOK(q, here)
    BY <2>1 DEF ActivationInv
  <2>3. ProcessOK(q, here)'
    BY <1>1, <1>4, <2>2, ProcessStands
  <2> QED
    BY <1>1, <2>1, <2>3 DEF ProcessOK, AskedOK, ClaimOK, LateOK, SeenOK
<1>6. ASSUME NEW p \in Processes, NEW q \in Processes, p # q PROVE Apart(p, q)'
  <2>1. Apart(p, q) /\ ProcessOK(p, pc[p])
    BY <1>6 DEF ActivationInv
  <2>2. pc[p] = "failClean" => (Current(p)' <=> Current(p))
    <3>1. pc[p] = "failClean" => req[p].m \in Mutations
      BY <2>1 DEF ProcessOK, AskedOK, Claims
    <3> QED
      BY <1>1, <3>1 DEF Current, Me, SameRow
  <2> QED
    BY <1>1, <2>1, <2>2 DEF Apart
<1> QED
  BY <1>2, <1>3, <1>5, <1>6 DEF ActivationInv

(* A claim that is not renewed can be taken over.                           *)
LEMMA ExpireKeeps ==
    ASSUME ActivationInv, NEW m \in Mutations, Expire(m)
    PROVE  ActivationInv'
<1>1. /\ ActivationTypeOK /\ RowsOK /\ row[m].live
      /\ UNCHANGED <<held, lifecycle, world, pc, req, told, aux, requests>>
      /\ faults < MaxFaults /\ faults' = faults + 1
  BY DEF Expire, ActivationInv, Disturbed
<1>2. PICK new \in Rows : new = [row[m] EXCEPT !.live = FALSE] /\ row' = [row EXCEPT ![m] = new]
  <2>1. row[m] \in Rows
    BY <1>1 DEF ActivationTypeOK
  <2>2. [row[m] EXCEPT !.live = FALSE] \in Rows
    BY <2>1 DEF Rows
  <2> QED
    BY <1>1, <2>2 DEF Expire, ActivationTypeOK
<1>3. /\ row'[m] = new /\ \A n \in Mutations : n # m => row'[n] = row[n]
      /\ row' \in [Mutations -> Rows]
  BY <1>1, <1>2 DEF ActivationTypeOK
<1>4. /\ new.status = row[m].status /\ new.epoch = row[m].epoch /\ new.phase = row[m].phase
      /\ new.about = row[m].about /\ ~new.live
  <2>1. row[m] \in Rows
    BY <1>1 DEF ActivationTypeOK
  <2> QED
    BY <1>2, <2>1 DEF Rows
<1>5. \A n \in Mutations : SameRow(n)
  BY <1>3, <1>4 DEF SameRow
<1>6. faults \in Nat /\ MaxFaults \in Nat /\ \A n \in Mutations : row[n].epoch \in Nat
  BY <1>1, Fields, ActivationAssumption
<1>7. ActivationTypeOK'
  <2>1. faults' \in 0..MaxFaults
    BY <1>1, <1>6
  <2> QED
    BY <1>1, <1>3, <1>4, <2>1 DEF ActivationTypeOK, world, aux
<1>8. RowsOK'
  <2>1. starts' = starts
    BY <1>1 DEF aux
  <2>2. \A n \in Mutations : row[n].epoch <= faults + 1
    BY <1>1 DEF RowsOK
  <2>3. \A n \in Mutations : row'[n].epoch <= faults' /\ row'[n].epoch <= faults' + 1
    BY <1>1, <1>5, <1>6, <2>2 DEF SameRow
  <2>4. row[m].status = "running"
    BY <1>1 DEF ActivationTypeOK
  <2>5. \A n \in Mutations : row'[n].status = "absent" => row'[n] = NoRow
    BY <1>1, <1>3, <1>4, <2>4 DEF RowsOK
  <2>6. \A n \in Mutations :
           /\ n \in Deactivations /\ row'[n].status # "absent" => row'[n].about \in Activations
           /\ row'[n].phase \in EarlyPhases(n) => starts'[n] = 0
           /\ starts'[n] <= 1
    BY <1>1, <1>5, <2>1 DEF RowsOK, SameRow
  <2>7. \A x, n \in Mutations : ActiveRow(x)' /\ ActiveRow(n)' => x = n
    BY <1>1, <1>5 DEF RowsOK, SameRow, ActiveRow
  <2> QED
    BY <2>3, <2>5, <2>6, <2>7 DEF RowsOK, EarlyPhases, NoRow
<1>9. (intact' => intact) /\ (\A q \in Processes : HeldKept(q))
      /\ UNCHANGED <<world, pc, req, told, hasty, starts>>
  BY <1>1 DEF HeldKept, aux
<1> QED
  BY <1>5, <1>7, <1>8, <1>9, NobodyMoves

(* A lost lock or a lost transaction changes neither row nor world.         *)
LEMMA LossesKeep ==
    ASSUME ActivationInv,
           LoseLifecycle \/ (\E m \in Mutations : LoseTransaction(m)) \/ UNCHANGED vars
    PROVE  ActivationInv'
<1>1. /\ ActivationTypeOK /\ row' = row /\ requests' = requests
      /\ UNCHANGED <<world, pc, req, told, hasty, starts>> /\ (Calm \/ Disturbed)
      /\ lifecycle' \in {lifecycle, None}
      /\ \/ held' = held /\ intact' = intact
         \/ intact' = FALSE /\ \E m \in Mutations : held' = [held EXCEPT ![m] = None]
  BY DEF LoseLifecycle, LoseTransaction, vars, aux, ActivationInv, Calm
<1>2. Counting /\ faults' \in Nat
  BY <1>1, CountingIs, ActivationAssumption DEF Counting
<1>3. ActivationTypeOK'
  BY <1>1, <1>2 DEF ActivationTypeOK, world, Counting
<1>4. RowsOK'
  BY <1>1, <1>2, RowsStand DEF Counting
<1>5. (\A m \in Mutations : SameRow(m)) /\ (intact' => intact) /\ (\A q \in Processes : HeldKept(q))
  BY <1>1 DEF SameRow, HeldKept
<1> QED
  BY <1>1, <1>3, <1>4, <1>5, NobodyMoves

-----------------------------------------------------------------------------
(* The invariant holds at the start.                                        *)
LEMMA InitHolds == Init => ActivationInv
<1> SUFFICES ASSUME Init PROVE ActivationInv
  OBVIOUS
<1>1. /\ \A m \in Mutations : row[m] = NoRow /\ held[m] = None /\ starts[m] = 0
      /\ \A p \in Processes : pc[p] = "idle" /\ req[p] = NoReq
      /\ active = None /\ running = {} /\ route = None /\ told = {} /\ faults = 0
      /\ \A a \in Activations : alloc[a] = "none"
  BY DEF Init
<1>2. \A m \in Mutations :
         /\ row[m].status = "absent" /\ row[m].epoch = 0 /\ ~row[m].live
  BY <1>1 DEF NoRow
<1>3. ActivationTypeOK
  <2>1. NoRow \in Rows
    BY ActivationAssumption DEF NoRow, Rows, Statuses, Phases
  <2>2. "idle" \in Places
    BY DEF Places
  <2>3. 0 \in 0..MaxRequests /\ 0 \in 0..MaxFaults /\ 0 \in 0..2
    BY ActivationAssumption
  <2> QED
    BY <1>2, <2>1, <2>2, <2>3, NoReqIs DEF Init, ActivationTypeOK
<1>4. RowsOK
  <2>1. \A m \in Mutations : ~ActiveRow(m)
    BY <1>2 DEF ActiveRow
  <2> QED
    BY <1>1, <1>2, <2>1 DEF RowsOK
<1>5. WorldOK
  <2>1. \A m \in Mutations : ~ActiveRow(m)
    BY <1>2 DEF ActiveRow
  <2> QED
    BY <1>1, <2>1, MutationsAre DEF WorldOK, Steady
<1>6. ToldIsRecorded
  BY <1>1 DEF ToldIsRecorded
<1>7. ASSUME NEW p \in Processes PROVE ProcessOK(p, pc[p])
  <2>1. pc[p] = "idle"
    BY <1>1
  <2>2. "idle" \notin Claims \cup Late \cup Early \cup Effects \cup Inside \cup LateA \cup LateD
                        \cup EarlyA \cup EarlyD
    BY DEF Claims, Late, Early, Effects, Inside, LateA, LateD, EarlyA, EarlyD
  <2> QED
    BY <2>1, <2>2 DEF ProcessOK, AskedOK, ClaimOK, LateOK, SeenOK
<1>8. \A p, q \in Processes : Apart(p, q)
  BY <1>1 DEF Apart, Claims, Late, Early, LateA, LateD, EarlyA, EarlyD
<1> QED
  BY <1>3, <1>4, <1>5, <1>6, <1>7, <1>8 DEF ActivationInv

(* Every step preserves the invariant.                                      *)
LEMMA StepKeeps ==
    ASSUME ActivationInv, [Next]_vars
    PROVE  ActivationInv'
<1>1. CASE \E p \in Processes : RequestActivate(p) \/ RequestDeactivate(p)
                                \/ RequestReconcile(p) \/ RequestRetire(p)
  BY <1>1, RequestsKeep
<1>2. ASSUME NEW p \in Processes, Activate(p) PROVE ActivationInv'
  <2>1. CASE Allocate(p) \/ Begin(p) \/ Read(p) \/ Check(p)
    BY <2>1, AllocateKeeps, BeginKeeps, ReadKeeps
  <2>2. CASE \/ Save(p, "prepared", "check", "failClean")
             \/ Save(p, "transitioning", "enterSwitch", "failClean")
    BY <2>2, SavePreparedKeeps, SaveTransitioningKeeps
  <2>3. CASE \/ Save(p, "started", "ready", "failUnknown")
             \/ Save(p, "healthy", "enterRoute", "failUnknown")
             \/ Save(p, "routed", "enterWrite", "failUnknown")
             \/ Save(p, "committed", "success", "failUnknown")
    BY <2>3, SaveLateKeeps DEF After
  <2>4. CASE Enter(p, "enterSwitch", IF req[p].about = None THEN "startNew" ELSE "stopOld")
    <3>1. PICK next \in {"startNew", "stopOld"} :
             Enter(p, "enterSwitch", next) /\ (next = "startNew" <=> req[p].about = None)
      BY <2>4
    <3> QED
      BY <3>1, EnterKeeps DEF Entering
  <2>5. CASE Enter(p, "enterRoute", "routeNew") \/ Enter(p, "enterWrite", "writeActive")
    BY <2>5, EnterKeeps DEF Entering
  <2>6. CASE StopOld(p) \/ StartNew(p) \/ RouteNew(p) \/ WriteActive(p)
    BY <2>6, StopOldKeeps, StartNewKeeps, RouteNewKeeps, WriteActiveKeeps
  <2>7. CASE Ready(p) \/ VerifyIn(p) \/ Success(p) \/ Verify(p)
    BY <2>7, ReadyKeeps, VerifiesKeep, SuccessKeeps, AnswersKeep
  <2> QED
    BY <1>2, <2>1, <2>2, <2>3, <2>4, <2>5, <2>6, <2>7 DEF Activate
<1>3. ASSUME NEW p \in Processes, Reconcile(p) PROVE ActivationInv'
  BY <1>3, RecReadKeeps, RecClaimKeeps, RecFailKeeps, ObserveWorldKeeps, RecoversKeep, AnswersKeep
     DEF Reconcile
<1>4. ASSUME NEW p \in Processes, Deactivate(p) PROVE ActivationInv'
  <2>1. CASE DBegin(p) \/ DRead(p) \/ DPrepared(p)
    BY <2>1, DBeginKeeps, ReadKeeps, DPreparedKeeps
  <2>2. CASE \/ Save(p, "stopped", "enterUnroute", "failUnknown")
             \/ Save(p, "unrouted", "enterRetire", "failUnknown")
             \/ Save(p, "retired", "success", "failUnknown")
    BY <2>2, SaveLateKeeps DEF After
  <2>3. CASE \/ Enter(p, "enterStop", "stop") \/ Enter(p, "enterUnroute", "unroute")
             \/ Enter(p, "enterRetire", "retire")
    BY <2>3, EnterKeeps DEF Entering
  <2>4. CASE Stop(p) \/ Unroute(p) \/ Clear(p)
    BY <2>4, StopKeeps, UnrouteKeeps, ClearKeeps
  <2>5. CASE Retire(p) \/ VerifyGone(p) \/ Recover(p, "dRecover", "gone") \/ GoneYet(p)
    BY <2>5, RetireKeeps, VerifiesKeep, RecoversKeep, AnswersKeep
  <2> QED
    BY <1>4, <2>1, <2>2, <2>3, <2>4, <2>5 DEF Deactivate
<1>5. ASSUME NEW p \in Processes,
             RetireRequest(p) \/ FailClean(p) \/ FailUnknown(p) \/ Crash(p)
      PROVE  ActivationInv'
  BY <1>5, RetireReadKeeps, RetireVerifyKeeps, RetireCommitKeeps, FailsKeep, CrashKeeps
     DEF RetireRequest
<1>6. CASE \E m \in Mutations : Expire(m)
  BY <1>6, ExpireKeeps
<1>7. CASE LoseLifecycle \/ (\E m \in Mutations : LoseTransaction(m)) \/ UNCHANGED vars
  BY <1>7, LossesKeep
<1> QED
  BY <1>1, <1>2, <1>3, <1>4, <1>5, <1>6, <1>7 DEF Next, Serve

(* Rows, world and processes agree, whatever fails, dies, expires or is     *)
(* asked for at once.                                                       *)
THEOREM ActivationInvariant == Spec => []ActivationInv
<1>1. Init => ActivationInv
  BY InitHolds
<1>2. ActivationInv /\ [Next]_vars => ActivationInv'
  BY StepKeeps
<1> QED
  BY <1>1, <1>2, PTL DEF Spec

(* The effects of two processes never interleave, and what a client was     *)
(* told of a success is on record.                                          *)
THEOREM ActivationIsConsistent == Spec => []ActivationConsistent
<1>1. ASSUME ActivationInv PROVE ActivationConsistent
  <2>1. ASSUME intact, NEW p \in Processes, NEW q \in Processes, p # q,
               pc[p] \in Inside, pc[q] \in Inside
        PROVE  FALSE
    <3>1. ProcessOK(p, pc[p]) /\ ProcessOK(q, pc[q]) /\ RowsOK
      BY <1>1 DEF ActivationInv
    <3>2. /\ held[req[p].m] = p /\ ActiveRow(req[p].m) /\ req[p].m \in Mutations
          /\ held[req[q].m] = q /\ ActiveRow(req[q].m) /\ req[q].m \in Mutations
      BY <2>1, <3>1, AskedFor DEF ProcessOK, LateOK, ActiveRow, Me
    <3>3. req[p].m = req[q].m
      BY <3>1, <3>2 DEF RowsOK
    <3> QED
      BY <2>1, <3>2, <3>3
  <2> QED
    BY <1>1, <2>1 DEF ActivationConsistent, EffectsExclude, ActivationInv
<1> QED
  BY <1>1, ActivationInvariant, PTL

(* When no mutation is under way or in doubt, exactly the active release    *)
(* runs and is routed to.                                                   *)
THEOREM RestIsSettled == Spec => []Settled
<1>1. ActivationInv => Settled
  BY DEF ActivationInv, WorldOK, Steady, Settled
<1> QED
  BY <1>1, ActivationInvariant, PTL

(* Two releases of an application never run at the same time.               *)
THEOREM ReleasesExclude == Spec => []OneRelease
<1>1. ASSUME ActivationInv PROVE OneRelease
  <2>1. PICK x : running \subseteq {x}
    BY <1>1 DEF ActivationInv, WorldOK
  <2>2. IsFiniteSet({x}) /\ Cardinality({x}) = 1
    BY FS_Singleton
  <2>3. IsFiniteSet(running) /\ Cardinality(running) <= Cardinality({x})
    BY <2>1, <2>2, FS_Subset
  <2> QED
    BY <2>2, <2>3 DEF OneRelease
<1> QED
  BY <1>1, ActivationInvariant, PTL

(* The effects of a mutation are carried out at most once, however often    *)
(* it is retried, resumed or reconciled.                                    *)
THEOREM EffectsAreNotReplayed == Spec => []NoReplay
<1>1. ActivationInv => NoReplay
  BY DEF ActivationInv, RowsOK, NoReplay
<1> QED
  BY <1>1, ActivationInvariant, PTL

(* Ports are given back only by a release that is out of service, unless    *)
(* they were asked back while its activation was not concluded.             *)
THEOREM PortsAreFree == Spec => []RetiredIsGone
<1>1. ActivationInv => RetiredIsGone
  BY DEF ActivationInv, WorldOK, RetiredIsGone
<1> QED
  BY <1>1, ActivationInvariant, PTL

(* How a row changes: under a claim, or when its outcome was observed.      *)
RowMoves ==
    \/ row' = row
    \/ \E m \in Mutations :
          /\ row[m].status \in {"absent", "running"}
          /\ \A n \in Mutations : n # m => row'[n] = row[n]
    \/ \E p \in Processes :
          /\ pc[p] \in {"recover", "dRecover"} /\ Me(p).status = "outcome_unknown"
          /\ row' = [row EXCEPT ![req[p].m].status = "succeeded"]

(* A write under a claim touches a row that is absent or running.           *)
LEMMA MoveUnderClaim ==
    ASSUME ActivationInv, NEW p \in Processes, NEW new, req[p].m \in Mutations,
           Me(p).status \in {"absent", "running"},
           row' = [row EXCEPT ![req[p].m] = new]
    PROVE  RowMoves
<1>1. \A n \in Mutations : n # req[p].m => row'[n] = row[n]
  BY DEF ActivationInv, ActivationTypeOK
<1> QED
  BY <1>1 DEF RowMoves, Me

(* No step writes a row in another way.                                     *)
LEMMA RowsMove ==
    ASSUME ActivationInv, [Next]_vars
    PROVE  RowMoves
<1>1. ASSUME NEW p \in Processes, NEW here \in Claims, NEW new, NEW next, NEW err,
             Update(p, here, new, next, err)
      PROVE  RowMoves
  <2>1. req[p].m \in Mutations
    BY <1>1, AskedFor DEF Update, ActivationInv
  <2>2. row' = row \/ (Owns(p) /\ row' = [row EXCEPT ![req[p].m] = new])
    BY <1>1 DEF Update
  <2> QED
    BY <2>1, <2>2, MoveUnderClaim DEF Owns, RowMoves
<1>2. ASSUME NEW p \in Processes,
             Begin(p) \/ DBegin(p) \/ RecClaim(p) \/ Success(p) \/ RecFail(p)
             \/ FailClean(p) \/ FailUnknown(p)
      PROVE  RowMoves
  <2>1. req[p].m \in Mutations
    <3>1. ProcessOK(p, pc[p])
      BY DEF ActivationInv
    <3>2. pc[p] \in {"begin", "dBegin", "recClaim", "success", "recFail", "failClean", "failUnknown"}
      BY <1>2 DEF Begin, DBegin, BeginOr, RecClaim, Success, RecFail, FailClean, FailUnknown, Fail
    <3> QED
      BY <3>1, <3>2, MutationsAre DEF ProcessOK, AskedOK, Claims, Late
  <2>2. \/ row' = row
        \/ /\ Startable(p) \/ Resumable(p) \/ Owns(p)
           /\ \E new : row' = [row EXCEPT ![req[p].m] = new]
    BY <1>2 DEF Begin, DBegin, BeginOr, RecClaim, Claim, Success, RecFail, FailClean, FailUnknown,
                Fail
  <2> QED
    BY <2>1, <2>2, MoveUnderClaim DEF Startable, Resumable, Owns, RowMoves
<1>3. ASSUME NEW p \in Processes, NEW here \in {"recover", "dRecover"}, NEW next,
             Recover(p, here, next)
      PROVE  RowMoves
  BY <1>3 DEF Recover, RowMoves
<1>4. ASSUME NEW m \in Mutations, Expire(m) PROVE RowMoves
  <2>1. row[m].status = "running" /\ \A n \in Mutations : n # m => row'[n] = row[n]
    BY <1>4 DEF Expire, ActivationInv, ActivationTypeOK
  <2> QED
    BY <2>1 DEF RowMoves
<1>5. ASSUME NEW p \in Processes, Activate(p) PROVE RowMoves
  <2>1. /\ "prepared" \in Claims /\ "transitioning" \in Claims /\ "started" \in Claims
        /\ "healthy" \in Claims /\ "routed" \in Claims /\ "committed" \in Claims
    BY DEF Claims, Early, EarlyA, Late, LateA
  <2>2. CASE \/ Save(p, "prepared", "check", "failClean")
             \/ Save(p, "transitioning", "enterSwitch", "failClean")
             \/ Save(p, "started", "ready", "failUnknown")
             \/ Save(p, "healthy", "enterRoute", "failUnknown")
             \/ Save(p, "routed", "enterWrite", "failUnknown")
             \/ Save(p, "committed", "success", "failUnknown")
    BY <1>1, <2>1, <2>2 DEF Save
  <2>3. CASE Begin(p) \/ Success(p)
    BY <1>2, <2>3
  <2>4. CASE row' = row
    BY <2>4 DEF RowMoves
  <2>5. Allocate(p) \/ Read(p) \/ Check(p) \/ Ready(p) \/ Verify(p) => row' = row
    BY DEF Allocate, Read, Check, Ready, Verify
  <2>6. /\ Enter(p, "enterSwitch", IF req[p].about = None THEN "startNew" ELSE "stopOld") => row' = row
        /\ Enter(p, "enterRoute", "routeNew") => row' = row
        /\ Enter(p, "enterWrite", "writeActive") => row' = row
    BY DEF Enter
  <2>7. StopOld(p) \/ StartNew(p) \/ RouteNew(p) \/ WriteActive(p) \/ VerifyIn(p) => row' = row
    BY DEF StopOld, StartNew, RouteNew, WriteActive, VerifyIn, Effect
  <2> QED
    BY <1>5, <2>2, <2>3, <2>4, <2>5, <2>6, <2>7 DEF Activate
<1>6. ASSUME NEW p \in Processes, Deactivate(p) PROVE RowMoves
  <2>1. /\ "dPrepared" \in Claims /\ "stopped" \in Claims /\ "unrouted" \in Claims
        /\ "retired" \in Claims
    BY DEF Claims, Early, EarlyD, Late, LateD
  <2>2. CASE \/ DPrepared(p)
             \/ Save(p, "stopped", "enterUnroute", "failUnknown")
             \/ Save(p, "unrouted", "enterRetire", "failUnknown")
             \/ Save(p, "retired", "success", "failUnknown")
    BY <1>1, <2>1, <2>2 DEF Save, DPrepared
  <2>3. CASE DBegin(p) \/ Recover(p, "dRecover", "gone")
    BY <1>2, <1>3, <2>3
  <2>4. CASE row' = row
    BY <2>4 DEF RowMoves
  <2>5. DRead(p) \/ GoneYet(p) => row' = row
    BY DEF DRead, GoneYet
  <2>6. /\ Enter(p, "enterStop", "stop") => row' = row
        /\ Enter(p, "enterUnroute", "unroute") => row' = row
        /\ Enter(p, "enterRetire", "retire") => row' = row
    BY DEF Enter
  <2>7. Stop(p) \/ Unroute(p) \/ Clear(p) \/ Retire(p) \/ VerifyGone(p) => row' = row
    BY DEF Stop, Unroute, Clear, Retire, VerifyGone, Effect
  <2> QED
    BY <1>6, <2>2, <2>3, <2>4, <2>5, <2>6, <2>7 DEF Deactivate
<1>7. ASSUME NEW p \in Processes,
             RequestActivate(p) \/ RequestDeactivate(p) \/ RequestReconcile(p) \/ RequestRetire(p)
      PROVE  RowMoves
  <2>1. row' = row
    BY <1>7 DEF RequestActivate, RequestDeactivate, RequestReconcile, RequestRetire, LockedRequest,
                Request
  <2> QED
    BY <2>1 DEF RowMoves
<1>8. ASSUME NEW p \in Processes, Reconcile(p) \/ RetireRequest(p) \/ Crash(p) PROVE RowMoves
  <2>1. CASE RecRead(p) \/ ObserveWorld(p) \/ Confirm(p) \/ RetireRequest(p) \/ Crash(p)
    <3>1. row' = row
      BY <2>1 DEF RecRead, ObserveWorld, Observe, Confirm, RetireRequest, RetireRead, RetireVerify,
                  RetireCommit, Crash
    <3> QED
      BY <3>1 DEF RowMoves
  <2>2. CASE RecClaim(p) \/ RecFail(p) \/ Recover(p, "recover", "confirm")
    BY <1>2, <1>3, <2>2
  <2> QED
    BY <1>8, <2>1, <2>2 DEF Reconcile
<1>9. CASE LoseLifecycle \/ (\E m \in Mutations : LoseTransaction(m)) \/ UNCHANGED vars
  BY <1>9 DEF LoseLifecycle, LoseTransaction, vars, RowMoves
<1> QED
  BY <1>2, <1>4, <1>5, <1>6, <1>7, <1>8, <1>9 DEF Next, Serve

(* A verdict stands, and an unknown outcome becomes a success only while    *)
(* the activation is seen to serve, or the removal to be done.              *)
THEOREM VerdictsAreFinal == Spec => VerdictsStand
<1>1. ASSUME ActivationInv, [Next]_vars, NEW m \in Mutations
      PROVE  /\ row[m].status \in {"succeeded", "failed_terminal"} =>
                   row'[m].status = row[m].status
             /\ row[m].status = "outcome_unknown" /\ row'[m].status # "outcome_unknown" =>
                   /\ row'[m].status = "succeeded"
                   /\ IF m \in Activations THEN Serves(m) ELSE Gone(row[m].about)
  <2>1. CASE row' = row
    BY <2>1
  <2>2. CASE \E x \in Mutations : /\ row[x].status \in {"absent", "running"}
                                  /\ \A n \in Mutations : n # x => row'[n] = row[n]
    BY <2>2
  <2>3. CASE \E p \in Processes :
                /\ pc[p] \in {"recover", "dRecover"} /\ Me(p).status = "outcome_unknown"
                /\ row' = [row EXCEPT ![req[p].m].status = "succeeded"]
    <3>1. PICK p \in Processes :
             /\ pc[p] \in {"recover", "dRecover"} /\ Me(p).status = "outcome_unknown"
             /\ row' = [row EXCEPT ![req[p].m].status = "succeeded"]
      BY <2>3
    <3>2. ProcessOK(p, pc[p]) /\ ActivationTypeOK
      BY <1>1 DEF ActivationInv
    <3>3. CASE m # req[p].m
      BY <3>1, <3>2, <3>3 DEF ActivationTypeOK
    <3>4. CASE m = req[p].m
      <4>1. row[m].status = "outcome_unknown" /\ row'[m].status = "succeeded"
        BY <3>1, <3>2, <3>4 DEF ActivationTypeOK, Rows, Me
      <4>2. IF m \in Activations THEN Serves(m) ELSE Gone(row[m].about)
        BY <3>1, <3>2, <3>4, MutationsAre DEF ProcessOK, AskedOK, SeenOK, Me
      <4> QED
        BY <4>1, <4>2
    <3> QED
      BY <3>3, <3>4
  <2> QED
    BY <1>1, <2>1, <2>2, <2>3, RowsMove DEF RowMoves
<1>2. ActivationInv /\ [Next]_vars =>
         [\A m \in Mutations :
             /\ row[m].status \in {"succeeded", "failed_terminal"} =>
                   row'[m].status = row[m].status
             /\ row[m].status = "outcome_unknown" /\ row'[m].status # "outcome_unknown" =>
                   /\ row'[m].status = "succeeded"
                   /\ IF m \in Activations THEN Serves(m) ELSE Gone(row[m].about)]_vars
  BY <1>1
<1> QED
  BY <1>2, ActivationInvariant, PTL DEF Spec, VerdictsStand
=============================================================================
