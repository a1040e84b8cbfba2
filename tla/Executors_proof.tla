--------------------------- MODULE Executors_proof ---------------------------
(***************************************************************************)
(* What the executors promise, for any number of tasks, process ids and    *)
(* restarts and for every assignment of tasks and storages: ExecutorInv is *)
(* an inductive invariant of Executors, and the promises follow from it.   *)
(*                                                                         *)
(* A handler works for one task.  Frame says that the others see nothing   *)
(* of it that could disturb them, and there is a lemma for each handler.   *)
(***************************************************************************)
EXTENDS ExecutorInvariant, FiniteSetTheorems, SequenceTheorems, TLAPS

-----------------------------------------------------------------------------
(* Sequences: the events of a task and the two channels. *)

(* Appending adds one element, at the end. *)
LEMMA AppendElems ==
  ASSUME NEW S, NEW s \in Seq(S), NEW e \in S
  PROVE  /\ Append(s, e) \in Seq(S)
         /\ Elems(Append(s, e)) = Elems(s) \cup {e}
         /\ Len(Append(s, e)) = Len(s) + 1
         /\ \A i \in 1 .. Len(s) : Append(s, e)[i] = s[i]
         /\ Append(s, e)[Len(s) + 1] = e
BY AppendProperties DEF Elems

(* Taking the head of a channel leaves the other elements, shifted. *)
LEMMA TailElems ==
  ASSUME NEW S, NEW s \in Seq(S), s # <<>>
  PROVE  /\ Head(s) \in S /\ Head(s) = s[1] /\ Tail(s) \in Seq(S)
         /\ Len(s) \in Nat /\ Len(s) >= 1 /\ Len(Tail(s)) = Len(s) - 1
         /\ DOMAIN s = 1 .. Len(s) /\ DOMAIN Tail(s) = 1 .. Len(Tail(s))
         /\ \A i \in 1 .. Len(Tail(s)) : Tail(s)[i] = s[i + 1]
         /\ Elems(s) = {Head(s)} \cup Elems(Tail(s))
<1>1. /\ Head(s) \in S /\ Head(s) = s[1] /\ Tail(s) \in Seq(S)
      /\ Len(s) \in Nat /\ Len(s) >= 1 /\ Len(Tail(s)) = Len(s) - 1
      /\ DOMAIN s = 1 .. Len(s) /\ DOMAIN Tail(s) = 1 .. Len(Tail(s))
      /\ \A i \in 1 .. Len(Tail(s)) : Tail(s)[i] = s[i + 1]
  BY HeadTailProperties, LenProperties, EmptySeq
<1>2. ASSUME NEW i \in DOMAIN s
      PROVE  s[i] \in {Head(s)} \cup Elems(Tail(s))
  <2>1. CASE i = 1
    BY <2>1, <1>1
  <2>2. CASE i # 1
    <3>1. i - 1 \in 1 .. Len(Tail(s)) /\ (i - 1) + 1 = i
      BY <2>2, <1>1
    <3>2. Tail(s)[i - 1] = s[i]
      BY <3>1, <1>1
    <3> QED BY <3>1, <3>2, <1>1 DEF Elems
  <2> QED BY <2>1, <2>2
<1>3. ASSUME NEW i \in DOMAIN Tail(s)
      PROVE  Tail(s)[i] \in Elems(s)
  <2>1. i + 1 \in DOMAIN s /\ Tail(s)[i] = s[i + 1]
    BY <1>1
  <2> QED BY <2>1 DEF Elems
<1>4. Head(s) \in Elems(s)
  BY <1>1 DEF Elems
<1> QED BY <1>1, <1>2, <1>3, <1>4 DEF Elems

(* The events a handler sends: their names, and the terminal ones. *)
Ends(s) == \E e \in Elems(s) : e[1] \in Ended
EndsOnce(s) == \A i, j \in DOMAIN s : s[i][1] \in Ended /\ s[j][1] \in Ended => i = j

(* Events that are sent are added to those of the task; sending none that is
   terminal, or one where there was none, keeps terminal events single. *)
LEMMA ConcatEvents ==
  ASSUME NEW s \in Seq(Events), NEW ev \in Seq(Events)
  PROVE  /\ s \o ev \in Seq(Events)
         /\ Elems(s \o ev) = Elems(s) \cup Elems(ev)
         /\ Terminal(s \o ev) # {} <=> Terminal(s) # {} \/ Ends(ev)
         /\ ~Ends(ev) => Terminal(s \o ev) = Terminal(s)
         /\ Terminal(s) = {} /\ EndsOnce(ev) =>
              \A i, j \in Terminal(s \o ev) : i = j
<1> DEFINE t == s \o ev
<1>1. /\ t \in Seq(Events) /\ Len(t) = Len(s) + Len(ev)
      /\ Len(s) \in Nat /\ Len(ev) \in Nat
      /\ DOMAIN s = 1 .. Len(s) /\ DOMAIN ev = 1 .. Len(ev) /\ DOMAIN t = 1 .. Len(t)
      /\ \A i \in 1 .. Len(t) : t[i] = IF i <= Len(s) THEN s[i] ELSE ev[i - Len(s)]
  BY ConcatProperties, LenProperties
<1> HIDE DEF t
<1>2. \A i \in DOMAIN s : i \in DOMAIN t /\ t[i] = s[i]
  BY <1>1
<1>3. \A i \in DOMAIN ev : i + Len(s) \in DOMAIN t /\ t[i + Len(s)] = ev[i]
  BY <1>1
<1>4. \A i \in DOMAIN t :
        \/ i \in DOMAIN s /\ t[i] = s[i]
        \/ i - Len(s) \in DOMAIN ev /\ t[i] = ev[i - Len(s)]
  BY <1>1
<1>5. Elems(t) = Elems(s) \cup Elems(ev)
  BY <1>2, <1>3, <1>4 DEF Elems
<1>6. Terminal(t) # {} <=> Terminal(s) # {} \/ Ends(ev)
  BY <1>2, <1>3, <1>4 DEF Terminal, Ends, Elems
<1>7. ~Ends(ev) => Terminal(t) = Terminal(s)
  BY <1>2, <1>3, <1>4 DEF Terminal, Ends, Elems
<1>8. ASSUME Terminal(s) = {}, EndsOnce(ev), NEW i \in Terminal(t), NEW j \in Terminal(t)
      PROVE  i = j
  <2>1. /\ i \in DOMAIN t /\ t[i][1] \in Ended
        /\ j \in DOMAIN t /\ t[j][1] \in Ended
    BY <1>8 DEF Terminal
  <2>2. /\ i - Len(s) \in DOMAIN ev /\ ev[i - Len(s)][1] \in Ended
        /\ j - Len(s) \in DOMAIN ev /\ ev[j - Len(s)][1] \in Ended
    BY <2>1, <1>8, <1>4 DEF Terminal
  <2>3. i - Len(s) = j - Len(s)
    BY <2>2, <1>8 DEF EndsOnce
  <2> QED BY <2>1, <2>3, <1>1
<1> QED BY <1>1, <1>5, <1>6, <1>7, <1>8 DEF t

-----------------------------------------------------------------------------
(* The parts of a step that several handlers share. *)

(* A plan is taken from the task channel: no other plan of its key waits. *)
LEMMA PlanTaken ==
  ASSUME Types, PlansDistinct, NEW plan, NextPlan(plan)
  PROVE  /\ up = "up" /\ plan \in TaskPlan /\ plan \in Plans
         /\ plans' \in Seq(TaskPlan) /\ PlansDistinct'
         /\ Plans' = {p \in Plans : p.key # plan.key}
<1>1. plans \in Seq(TaskPlan) /\ plans # <<>> /\ plan = Head(plans) /\ plans' = Tail(plans) /\ up = "up"
  BY DEF Types, NextPlan
<1>2. /\ plan \in TaskPlan /\ plan = plans[1] /\ plans' \in Seq(TaskPlan)
      /\ Len(plans) \in Nat /\ Len(plans) >= 1 /\ Len(plans') = Len(plans) - 1
      /\ DOMAIN plans = 1 .. Len(plans) /\ DOMAIN plans' = 1 .. Len(plans')
      /\ \A i \in 1 .. Len(plans') : plans'[i] = plans[i + 1]
      /\ Plans = {plan} \cup Plans'
  BY <1>1, TailElems DEF Plans
<1>3. \A i \in DOMAIN plans' : i + 1 \in DOMAIN plans /\ plans'[i] = plans[i + 1] /\ i + 1 # 1
  BY <1>2
<1>4. PlansDistinct'
  <2> SUFFICES ASSUME NEW i \in DOMAIN plans', NEW j \in DOMAIN plans', plans'[i].key = plans'[j].key
               PROVE  i = j
    BY DEF PlansDistinct
  <2>1. i + 1 = j + 1
    BY <1>3 DEF PlansDistinct
  <2> QED BY <2>1, <1>2
<1>5. \A p \in Plans' : p.key # plan.key
  BY <1>2, <1>3 DEF PlansDistinct, Plans, Elems
<1> QED BY <1>1, <1>2, <1>4, <1>5

(* A request is taken from the cancel channel. *)
LEMMA CancelTaken ==
  ASSUME Types, NEW k, NextCancel(k)
  PROVE  /\ up = "up" /\ k \in Keys /\ k \in Requests /\ cancels' \in Seq(Keys)
         /\ Requests = {k} \cup Requests'
         /\ Single(k) => k \notin Requests'
         /\ \A u \in Keys : Single(u) => Single(u)'
<1>1. cancels \in Seq(Keys) /\ cancels # <<>> /\ k = Head(cancels) /\ cancels' = Tail(cancels) /\ up = "up"
  BY DEF Types, NextCancel
<1>2. /\ k \in Keys /\ k = cancels[1] /\ cancels' \in Seq(Keys)
      /\ Len(cancels) \in Nat /\ Len(cancels) >= 1 /\ Len(cancels') = Len(cancels) - 1
      /\ DOMAIN cancels = 1 .. Len(cancels) /\ DOMAIN cancels' = 1 .. Len(cancels')
      /\ \A i \in 1 .. Len(cancels') : cancels'[i] = cancels[i + 1]
      /\ Requests = {k} \cup Requests'
  BY <1>1, TailElems DEF Requests
<1>3. \A i \in DOMAIN cancels' : i + 1 \in DOMAIN cancels /\ cancels'[i] = cancels[i + 1] /\ i + 1 # 1
  BY <1>2
<1>4. ASSUME NEW u \in Keys, Single(u) PROVE Single(u)'
  <2> SUFFICES ASSUME NEW i \in DOMAIN cancels', NEW j \in DOMAIN cancels', cancels'[i] = u, cancels'[j] = u
               PROVE  i = j
    BY DEF Single
  <2>1. i + 1 = j + 1
    BY <1>3, <1>4 DEF Single
  <2> QED BY <2>1, <1>2
<1>5. Single(k) => k \notin Requests'
  BY <1>2, <1>3 DEF Single, Requests, Elems
<1> QED BY <1>1, <1>2, <1>4, <1>5

(* A request is put on the cancel channel. *)
LEMMA CancelPut ==
  ASSUME Types, NEW k \in Keys, cancels' = Append(cancels, k)
  PROVE  /\ cancels' \in Seq(Keys) /\ Requests' = Requests \cup {k}
         /\ \A u \in Keys : u # k \/ k \notin Requests => (Single(u) => Single(u)')
<1>1. cancels \in Seq(Keys)
  BY DEF Types
<1>2. /\ cancels' \in Seq(Keys) /\ Requests' = Requests \cup {k}
      /\ Len(cancels') = Len(cancels) + 1
      /\ \A i \in 1 .. Len(cancels) : cancels'[i] = cancels[i]
      /\ cancels'[Len(cancels) + 1] = k
  BY <1>1, AppendElems DEF Requests
<1>3. /\ Len(cancels) \in Nat /\ DOMAIN cancels = 1 .. Len(cancels)
      /\ DOMAIN cancels' = 1 .. Len(cancels')
  BY <1>1, <1>2, LenProperties
<1>4. ASSUME NEW u \in Keys, u # k \/ k \notin Requests, Single(u)
      PROVE  Single(u)'
  <2> SUFFICES ASSUME NEW i \in DOMAIN cancels', NEW j \in DOMAIN cancels', cancels'[i] = u, cancels'[j] = u
               PROVE  i = j
    BY DEF Single
  <2>1. \A n \in DOMAIN cancels : cancels[n] = k => k \in Requests
    BY DEF Requests, Elems
  <2>2. i \in DOMAIN cancels \/ i = Len(cancels) + 1
    BY <1>2, <1>3
  <2>3. j \in DOMAIN cancels \/ j = Len(cancels) + 1
    BY <1>2, <1>3
  <2> QED BY <2>1, <2>2, <2>3, <1>2, <1>3, <1>4 DEF Single
<1> QED BY <1>2, <1>4

(* Events are sent for one task. *)
LEMMA EventsSent ==
  ASSUME Types, NEW k \in Keys, NEW ev \in Seq(Events), Send(k, ev)
  PROVE  /\ sent' \in [Keys -> Seq(Events)]
         /\ \A u \in Keys : u # k => sent'[u] = sent[u]
         /\ Sent(k)' = Sent(k) \cup Elems(ev)
         /\ Settled(k)' <=> Settled(k) \/ Ends(ev)
         /\ ~Ends(ev) => Terminal(sent'[k]) = Terminal(sent[k])
         /\ ~Settled(k) /\ EndsOnce(ev) => \A i, j \in Terminal(sent'[k]) : i = j
<1>1. sent \in [Keys -> Seq(Events)] /\ sent[k] \in Seq(Events)
  BY DEF Types
<1>2. sent'[k] = sent[k] \o ev /\ (\A u \in Keys : u # k => sent'[u] = sent[u])
  BY <1>1 DEF Send
<1>3. sent' \in [Keys -> Seq(Events)]
  BY <1>1, <1>2, ConcatEvents DEF Send
<1>4. /\ Elems(sent'[k]) = Elems(sent[k]) \cup Elems(ev)
      /\ Terminal(sent'[k]) # {} <=> Terminal(sent[k]) # {} \/ Ends(ev)
      /\ ~Ends(ev) => Terminal(sent'[k]) = Terminal(sent[k])
      /\ Terminal(sent[k]) = {} /\ EndsOnce(ev) => \A i, j \in Terminal(sent'[k]) : i = j
  BY <1>1, <1>2, ConcatEvents
<1>5. Sent(k)' = Elems(sent'[k]) /\ (Settled(k)' <=> Terminal(sent'[k]) # {})
  BY DEF Sent, Settled
<1> QED BY <1>2, <1>3, <1>4, <1>5 DEF Sent, Settled

(* The short sequences that handlers send. *)
LEMMA ShortEvents ==
  /\ <<>> \in Seq(Events) /\ Elems(<<>>) = {} /\ ~Ends(<<>>) /\ EndsOnce(<<>>)
  /\ \A e \in Events :
       /\ <<e>> \in Seq(Events) /\ Elems(<<e>>) = {e}
       /\ Ends(<<e>>) <=> e[1] \in Ended
       /\ EndsOnce(<<e>>)
  /\ \A e, f \in Events :
       /\ <<e, f>> \in Seq(Events) /\ Elems(<<e, f>>) = {e, f}
       /\ Ends(<<e, f>>) <=> e[1] \in Ended \/ f[1] \in Ended
       /\ e[1] \notin Ended => EndsOnce(<<e, f>>)
<1>1. <<>> \in Seq(Events) /\ Elems(<<>>) = {} /\ ~Ends(<<>>) /\ EndsOnce(<<>>)
  BY EmptySeq DEF Elems, Ends, EndsOnce
<1>2. ASSUME NEW e \in Events
      PROVE  /\ <<e>> \in Seq(Events) /\ Elems(<<e>>) = {e}
             /\ Ends(<<e>>) <=> e[1] \in Ended
             /\ EndsOnce(<<e>>)
  BY DEF Elems, Ends, EndsOnce
<1>3. ASSUME NEW e \in Events, NEW f \in Events
      PROVE  /\ <<e, f>> \in Seq(Events) /\ Elems(<<e, f>>) = {e, f}
             /\ Ends(<<e, f>>) <=> e[1] \in Ended \/ f[1] \in Ended
             /\ e[1] \notin Ended => EndsOnce(<<e, f>>)
  BY DEF Elems, Ends, EndsOnce
<1> QED BY <1>1, <1>2, <1>3

(* The events, and which of them end a task. *)
LEMMA EventKinds ==
  /\ Running \in Events /\ Error \in Events /\ Cancelled \in Events
  /\ Running[1] \notin Ended /\ Error[1] \in Ended /\ Cancelled[1] \in Ended
  /\ \A d \in Tries :
       /\ Queued(d) \in Events /\ Queued(d)[1] \notin Ended
       /\ Complete(d) \in Events /\ Complete(d)[1] \in Ended
       /\ \A e \in {Running, Error, Cancelled} : Queued(d) # e /\ Complete(d) # e
       /\ \A b \in Tries : /\ Queued(d) # Complete(b)
                           /\ Queued(d) = Queued(b) => d = b
                           /\ Complete(d) = Complete(b) => d = b
BY DEF Events, Running, Error, Cancelled, Queued, Complete, Ended

(* Two events are one after the other. *)
LEMMA TwoInOrder ==
  ASSUME NEW S, NEW a \in S, NEW b \in S
  PROVE  Append(<<a>>, b) = <<a, b>>
<1> DEFINE s == <<a>>
           x == Append(s, b)
           y == <<a, b>>
<1>1. s \in Seq(S)
  OBVIOUS
<1>2. Len(s) = 1 /\ s[1] = a
  OBVIOUS
<1>3. y \in Seq(S) /\ Len(y) = 2 /\ y[1] = a /\ y[2] = b
  OBVIOUS
<1> HIDE DEF s
<1>4. /\ x \in Seq(S) /\ Len(x) = Len(s) + 1
      /\ \A i \in 1 .. Len(s) : x[i] = s[i]
      /\ x[Len(s) + 1] = b
  BY <1>1, AppendElems
<1> HIDE DEF x, y
<1>5. x \in Seq(S) /\ Len(x) = 2 /\ x[1] = a /\ x[2] = b
  BY <1>4, <1>2
<1>6. x = y
  <2>1. \A i \in 1 .. Len(x) : i = 1 \/ i = 2
    BY <1>5
  <2> QED BY <2>1, <1>3, <1>5, SeqEqual
<1> QED BY <1>6 DEF s, x, y

(* None, one or two events are sent. *)
LEMMA NoneSent ==
  ASSUME Types, NEW k \in Keys, sent' = sent \/ Send(k, <<>>)
  PROVE  /\ sent' \in [Keys -> Seq(Events)] /\ (\A u \in Keys : u # k => sent'[u] = sent[u])
         /\ Sent(k)' = Sent(k) /\ (Settled(k)' <=> Settled(k))
         /\ Terminal(sent'[k]) = Terminal(sent[k])
<1>1. CASE sent' = sent
  BY <1>1 DEF Types, Sent, Settled
<1>2. CASE Send(k, <<>>)
  <2>1. <<>> \in Seq(Events) /\ Elems(<<>>) = {} /\ ~Ends(<<>>)
    BY ShortEvents
  <2> DEFINE ev == <<>>
  <2>2. ev \in Seq(Events) /\ Elems(ev) = {} /\ ~Ends(ev) /\ Send(k, ev)
    BY <1>2, <2>1
  <2> HIDE DEF ev
  <2> QED BY <2>2, EventsSent
<1> QED BY <1>1, <1>2

(* One event is sent: it is terminal for the task when its name is. *)
LEMMA OneSent ==
  ASSUME Types, NEW k \in Keys, NEW e \in Events, Send(k, <<e>>)
  PROVE  /\ sent' \in [Keys -> Seq(Events)] /\ (\A u \in Keys : u # k => sent'[u] = sent[u])
         /\ Sent(k)' = Sent(k) \cup {e} /\ (Settled(k)' <=> Settled(k) \/ e[1] \in Ended)
         /\ e[1] \notin Ended => Terminal(sent'[k]) = Terminal(sent[k])
         /\ ~Settled(k) => \A i, j \in Terminal(sent'[k]) : i = j
<1> DEFINE ev == <<e>>
<1>1. ev \in Seq(Events) /\ Elems(ev) = {e} /\ (Ends(ev) <=> e[1] \in Ended) /\ EndsOnce(ev) /\ Send(k, ev)
  BY ShortEvents
<1> HIDE DEF ev
<1> QED BY <1>1, EventsSent

(* Two events are sent together, the first of them not terminal. *)
LEMMA TwoSent ==
  ASSUME Types, NEW k \in Keys, NEW e \in Events, NEW f \in Events, Send(k, <<e, f>>)
  PROVE  /\ sent' \in [Keys -> Seq(Events)] /\ (\A u \in Keys : u # k => sent'[u] = sent[u])
         /\ Sent(k)' = Sent(k) \cup {e, f}
         /\ Settled(k)' <=> Settled(k) \/ e[1] \in Ended \/ f[1] \in Ended
         /\ e[1] \notin Ended /\ f[1] \notin Ended => Terminal(sent'[k]) = Terminal(sent[k])
         /\ ~Settled(k) /\ e[1] \notin Ended => \A i, j \in Terminal(sent'[k]) : i = j
<1> DEFINE ev == <<e, f>>
<1>1. /\ ev \in Seq(Events) /\ Elems(ev) = {e, f} /\ (Ends(ev) <=> e[1] \in Ended \/ f[1] \in Ended)
      /\ (e[1] \notin Ended => EndsOnce(ev)) /\ Send(k, ev)
  BY ShortEvents
<1> HIDE DEF ev
<1> QED BY <1>1, EventsSent

-----------------------------------------------------------------------------
(* What a step for another task leaves of u, and what it may do to the     *)
(* things all tasks share.                                                 *)
Same(u) ==
  /\ handles'[u] = handles[u] /\ tasks'[u] = tasks[u]
  /\ tries'[u] = tries[u] /\ cancelled'[u] = cancelled[u] /\ (u \in held' <=> u \in held)
  /\ sent'[u] = sent[u] /\ stored'[u] = stored[u]
  /\ (lock' = u <=> lock = u)
  /\ \A p \in TaskPlan : p.key = u => (p \in Plans' <=> p \in Plans)
  /\ (u \in Requests' <=> u \in Requests) /\ (Single(u) => Single(u)')
  /\ \A d \in Tries :
       /\ jobs'[<<u, d>>] = jobs[<<u, d>>]
       /\ <<u, d>> \in stopped => <<u, d>> \in stopped'
       /\ <<u, d>> \in stopped' => <<u, d>> \in stopped \/ ByPidAlone
       /\ <<u, d>> \in lost' <=> <<u, d>> \in lost

Meanwhile ==
  /\ kind' = kind /\ os' = os /\ storage' = storage /\ restarts' = restarts
  /\ faults <= faults' /\ assets \subseteq assets'
  /\ up' = "up" => up = "up"
  /\ caller' = "up" => caller = "up"

(* Tries are counted from 1. *)
LEMMA TriesCounted == \A d \in Tries : d \in Nat /\ d # 0 /\ d <= MaxRestarts + 1
<1>1. MaxRestarts \in Nat
  BY ExecutorAssumption
<1> QED BY <1>1 DEF Tries

(* The tries of a task stay in range, and the job of a held one is one of  *)
(* them.                                                                   *)
LEMMA TriesInRange ==
  ASSUME Types, NEW u \in Keys, Tried(u)
  PROVE  /\ tries[u] \in 0 .. (MaxRestarts + 1)
         /\ stored[u] \in 0 .. (MaxRestarts + 1) /\ (stored[u] # 0 => stored[u] \in Tries)
         /\ u \in held => tries[u] \in Tries /\ Job(u) \in Tries
         /\ u \notin held => Try(u) \in Tries
<1>1. /\ tries[u] \in Nat /\ stored[u] \in {0} \cup Tries /\ restarts \in 0 .. MaxRestarts
      /\ MaxRestarts \in Nat
  BY ExecutorAssumption DEF Types
<1> QED BY <1>1 DEF Tried, Job, Try, Tries

(* A step for another task keeps what the invariant says of u. *)
LEMMA Frame ==
  ASSUME Types, Types', NEW u \in Keys, KeyInv(u), Same(u), Meanwhile
  PROVE  KeyInv(u)'
<1>1. /\ Job(u)' = Job(u) /\ PlanJob(u)' = PlanJob(u)
      /\ Sent(u)' = Sent(u) /\ (Settled(u)' <=> Settled(u)) /\ Terminal(sent[u])' = Terminal(sent[u])
      /\ (Idle(u)' <=> Idle(u)) /\ (WritesItself' <=> WritesItself)
      /\ (faults' = 0 => faults = 0)
      /\ (SettleOnce(u)' => SettleOnce(u)) /\ (FirstLife' => FirstLife)
  <2>1. faults' = 0 => faults = 0
    BY DEF Meanwhile, Types
  <2>2. (SettleOnce(u)' => SettleOnce(u)) /\ (FirstLife' => FirstLife)
    BY <2>1 DEF SettleOnce, FirstLife, Same, Meanwhile
  <2> QED BY <2>1, <2>2 DEF Same, Meanwhile, Job, PlanJob, Sent, Settled, Terminal, Idle, WritesItself
<1>2. /\ (Pending(u)' <=> Pending(u))
      /\ \A p \in Plans' : p.key = u => p \in Plans
  <2>1. (\A p \in Plans : p \in TaskPlan) /\ (\A p \in Plans' : p \in TaskPlan)
    <3>1. plans \in Seq(TaskPlan) /\ plans' \in Seq(TaskPlan)
      BY DEF Types
    <3> QED BY <3>1, LenProperties, ElementOfSeq DEF Plans, Elems
  <2> QED BY <2>1 DEF Pending, Same
<1>3. /\ tries[u] \in Nat /\ stored[u] \in {0} \cup Tries
      /\ stored[u] # 0 => stored[u] \in Tries
      /\ kind \in Kinds /\ restarts \in Nat
  BY DEF Types
<1>4. /\ u \in held => tries[u] \in Tries /\ Job(u) \in Tries
      /\ Pending(u) \/ ~Idle(u) => u \in held
  BY TriesInRange DEF KeyInv, Slot
<1>5. Abroad(u)' \subseteq Abroad(u)
  BY DEF Abroad, Same
<1>6. Tried(u)'
  BY <1>1, <1>3 DEF KeyInv, Tried, Same, Meanwhile, Types
<1>7. Slot(u)'
  BY <1>1, <1>2 DEF KeyInv, Slot, Same, Meanwhile, Idle
<1>8. Created(u)'
  BY <1>1, <1>2, <1>3, <1>4 DEF KeyInv, Created, Same, Meanwhile
<1>9. Asked(u)'
  BY <1>1, <1>2, <1>4 DEF KeyInv, Asked, Same, Meanwhile, ByPidAlone
<1>10. Accounted(u)'
  BY <1>1, <1>2, <1>5 DEF KeyInv, Accounted, Same, Meanwhile
<1>11. Written(u)'
  BY <1>1, <1>2 DEF KeyInv, Written, Same, Meanwhile, WorkOutput, Output, AssetSpec, path, StorageOf
<1>12. Settling(u)'
  BY <1>1, <1>2 DEF KeyInv, Settling, Same, Meanwhile
<1>13. Watched(u)'
  <2> SUFFICES ASSUME faults' = 0
               PROVE  /\ kind = "nexus" /\ tasks[u].phase = "done" => jobs'[<<u, Job(u)>>] \in Ended
                      /\ kind = "qrmi" /\ tasks[u].phase \in {"ready", "fetching", "broken", "logging", "done", "failed"} =>
                           jobs'[<<u, Job(u)>>] \in Ended
    BY <1>1 DEF Watched, Same, Meanwhile
  <2> QED BY <1>1, <1>4 DEF KeyInv, Watched, Same, Idle
<1>14. Cancelling(u)'
  BY <1>1, <1>2, <1>4 DEF KeyInv, Cancelling, Same, Meanwhile, Honoured, Types
<1> QED BY <1>6, <1>7, <1>8, <1>9, <1>10, <1>11, <1>12, <1>13, <1>14 DEF KeyInv

-----------------------------------------------------------------------------
(* Steps of the callers, of the jobs and of the process. *)

(* process_tasks stays as it is, and nothing that explains it goes away. *)
LEMMA ServiceKept ==
  ASSUME ServiceFailsOnlyOnCancel, up' = up, kind' = kind, restarts' = restarts, cancelled' = cancelled,
         \A j \in Jobs : jobs[j] = "panicked" => jobs'[j] = "panicked"
  PROVE  ServiceFailsOnlyOnCancel'
BY DEF ServiceFailsOnlyOnCancel

(* The step of one task keeps the invariant when it keeps its own part. *)
LEMMA OwnStep ==
  ASSUME ExecutorInv, Types', PlansDistinct', ServiceFailsOnlyOnCancel', Meanwhile,
         NEW k \in Keys, KeyInv(k)', \A u \in Keys \ {k} : Same(u)
  PROVE  ExecutorInv'
BY Frame DEF ExecutorInv

(* What the five forms of execute() have in common.  The task is put on    *)
(* the channel, with a job of its own (remote executors without a stored   *)
(* handle), the stored one, or none; or run() ends.                        *)
Accepted(k) ==
  IF kind \in Remote /\ stored[k] = 0
  THEN jobs' = [jobs EXCEPT ![<<k, Try(k)>>] = "queued"]
  ELSE jobs' = jobs

Executing(k) ==
  /\ Due(k) /\ Taken(k)
  /\ mishaps' \in Nat /\ faults' \in Nat /\ faults <= faults'
  /\ assets \subseteq assets' /\ assets' \subseteq AssetSpecs
  /\ \/ caller' = "dead" /\ plans' = plans /\ jobs' = jobs
     \/ /\ Accepted(k)
        /\ WritesItself => Registry[storage.work] = "file"
        /\ \/ caller' = "dead" /\ plans' = plans
           \/ /\ caller' = caller
              /\ plans' = Append(plans, [key |-> k, job |-> PlanJob(k)', out |-> Try(k)])
  /\ UNCHANGED <<service, cancels, cancelled, record, pids, stopped, setup, restarts>>

(* Executing a task keeps the invariant. *)
LEMMA ExecutingKeeps ==
  ASSUME ExecutorInv, NEW k \in Keys, Executing(k)
  PROVE  ExecutorInv'
<1> DEFINE plan == [key |-> k, job |-> PlanJob(k)', out |-> Try(k)]
<1>0. Types /\ KeyInv(k) /\ PlansDistinct /\ ServiceFailsOnlyOnCancel
  BY DEF ExecutorInv
<1>1. /\ up' = up /\ handles' = handles /\ tasks' = tasks /\ lock' = lock /\ cancels' = cancels
      /\ cancelled' = cancelled /\ sent' = sent /\ stored' = stored /\ lost' = lost /\ pids' = pids
      /\ stopped' = stopped /\ kind' = kind /\ os' = os /\ load' = load /\ storage' = storage /\ restarts' = restarts
  BY DEF Executing, service, record, setup
<1>2. /\ k \in load /\ k \notin held /\ ~Settled(k) /\ caller = "up"
      /\ tries' = [tries EXCEPT ![k] = @ + 1] /\ held' = held \cup {k}
      /\ mishaps' \in Nat /\ faults' \in Nat /\ faults <= faults'
      /\ assets \subseteq assets' /\ assets' \subseteq AssetSpecs
      /\ WritesItself' = WritesItself
  BY <1>1 DEF Executing, Due, Taken, WritesItself
<1>3. /\ tries[k] \in Nat /\ tries'[k] = tries[k] + 1 /\ Try(k) = tries[k] + 1 /\ Try(k) \in Tries
      /\ tries' \in [Keys -> Nat]
      /\ tries[k] <= restarts /\ stored[k] <= tries[k] /\ restarts \in Nat /\ stored[k] \in {0} \cup Tries
      /\ stored[k] \in Nat
      /\ k \notin held => Try(k) \in Tries
  BY <1>0, <1>2, TriesInRange DEF Types, Try, KeyInv, Tried
<1>4. PlanJob(k)' = IF kind = "inmemory" THEN 0
                    ELSE IF kind = "subprocess" THEN stored[k]
                    ELSE IF kind \in Remote /\ stored[k] # 0 THEN stored[k] ELSE Try(k)
  BY <1>1, <1>3 DEF PlanJob, Job
<1>5. plan \in TaskPlan
  BY <1>3, <1>4 DEF TaskPlan
<1>6. /\ Idle(k) /\ ~Pending(k)
      /\ \A p \in Plans : p.key # k
  BY <1>0, <1>2 DEF KeyInv, Slot, Pending
<1>7. \/ caller' = "dead" /\ plans' = plans /\ jobs' = jobs
      \/ /\ Accepted(k)
         /\ WritesItself => Registry[storage.work] = "file"
         /\ \/ caller' = "dead" /\ plans' = plans
            \/ caller' = caller /\ plans' = Append(plans, plan)
  BY DEF Executing
<1> HIDE DEF plan
<1>8. /\ plans' \in Seq(TaskPlan) /\ PlansDistinct'
      /\ \/ Plans' = Plans /\ caller' = "dead"
         \/ Plans' = Plans \cup {plan} /\ caller' = caller /\ Accepted(k)
            /\ (WritesItself => Registry[storage.work] = "file")
  <2>1. CASE plans' = plans
    BY <2>1, <1>0, <1>7 DEF Types, PlansDistinct, Plans
  <2>2. CASE plans' = Append(plans, plan)
    <3>1. plans \in Seq(TaskPlan)
      BY <1>0 DEF Types
    <3>2. /\ plans' \in Seq(TaskPlan) /\ Plans' = Plans \cup {plan}
          /\ Len(plans') = Len(plans) + 1
          /\ \A i \in 1 .. Len(plans) : plans'[i] = plans[i]
          /\ plans'[Len(plans) + 1] = plan
      BY <3>1, <2>2, <1>5, AppendElems DEF Plans
    <3>3. /\ Len(plans) \in Nat /\ DOMAIN plans = 1 .. Len(plans) /\ DOMAIN plans' = 1 .. Len(plans')
      BY <3>1, <3>2, LenProperties
    <3>4. PlansDistinct'
      <4> SUFFICES ASSUME NEW i \in DOMAIN plans', NEW j \in DOMAIN plans', plans'[i].key = plans'[j].key
                   PROVE  i = j
        BY DEF PlansDistinct
      <4>1. \A n \in DOMAIN plans : plans[n].key # k
        BY <1>6 DEF Plans, Elems
      <4>2. plan.key = k
        BY DEF plan
      <4>3. i \in DOMAIN plans \/ i = Len(plans) + 1
        BY <3>2, <3>3
      <4>4. j \in DOMAIN plans \/ j = Len(plans) + 1
        BY <3>2, <3>3
      <4> QED BY <4>1, <4>2, <4>3, <4>4, <3>2, <3>3, <1>0 DEF PlansDistinct
    <3> QED BY <3>2, <3>4, <2>2, <1>7, <1>5
  <2> QED BY <2>1, <2>2, <1>7
<1>9. /\ jobs' \in [Processes -> {"none"} \cup Live \cup Ended]
      /\ \A j \in Processes : j # <<k, Try(k)>> => jobs'[j] = jobs[j]
      /\ jobs'[<<k, Try(k)>>] # jobs[<<k, Try(k)>>] =>
           /\ jobs'[<<k, Try(k)>>] = "queued" /\ kind \in Remote /\ stored[k] = 0
           /\ WritesItself => Registry[storage.work] = "file"
      /\ Accepted(k) /\ kind \in Remote /\ stored[k] = 0 => jobs'[<<k, Try(k)>>] = "queued"
      /\ jobs[<<k, Try(k)>>] = "none"
      /\ \A d \in Tries : <<k, d>> \in Processes /\ (jobs[<<k, d>>] # "none" => jobs'[<<k, d>>] = jobs[<<k, d>>])
  <2>1. /\ jobs \in [Processes -> {"none"} \cup Live \cup Ended]
        /\ \A d \in Tries : <<k, d>> \in Processes
    BY <1>0 DEF Types, Processes, Jobs
  <2>2. jobs[<<k, Try(k)>>] = "none"
    BY <1>0, <1>3 DEF KeyInv, Created
  <2> QED BY <2>1, <2>2, <1>3, <1>7 DEF Accepted, Live
<1>10. Types'
  BY <1>0, <1>1, <1>2, <1>3, <1>8, <1>9 DEF Types, Stoppable, ByPidAlone
<1>11. Meanwhile
  BY <1>1, <1>2, <1>8 DEF Meanwhile
<1>12. ASSUME NEW u \in Keys \ {k} PROVE Same(u)
  <2>1. plan.key = k
    BY DEF plan
  <2>2. \A d \in Tries : <<u, d>> \in Processes /\ <<u, d>> # <<k, Try(k)>>
    BY DEF Processes, Jobs
  <2> QED BY <2>1, <2>2, <1>0, <1>1, <1>2, <1>8, <1>9 DEF Same, Requests, Single, Types
<1>13. ServiceFailsOnlyOnCancel'
  <2>1. \A j \in Jobs : jobs[j] = "panicked" => jobs'[j] = "panicked"
    BY <1>9 DEF Jobs, Processes
  <2> QED BY <2>1, <1>0, <1>1, ServiceKept
<1>14. /\ k \in held' /\ Idle(k)' /\ (Settled(k)' <=> Settled(k)) /\ Sent(k)' = Sent(k)
       /\ Terminal(sent[k])' = Terminal(sent[k]) /\ (Requests' = Requests) /\ (Single(k)' <=> Single(k))
       /\ \A p \in Plans' : p.key = k => p = plan
       /\ plan.key = k /\ plan.out = Try(k) /\ plan.job = PlanJob(k)'
       /\ Pending(k)' => caller' = caller /\ Accepted(k) /\ (WritesItself => Registry[storage.work] = "file")
       /\ caller' = "up" => Pending(k)'
       /\ Job(k)' = IF kind \in Remote /\ stored[k] # 0 THEN stored[k] ELSE Try(k)
  <2>1. plan.key = k /\ plan.out = Try(k) /\ plan.job = PlanJob(k)'
    BY DEF plan
  <2>2. /\ \A p \in Plans' : p.key = k => p = plan
        /\ Pending(k)' => caller' = caller /\ Accepted(k) /\ (WritesItself => Registry[storage.work] = "file")
        /\ caller' = "up" => Pending(k)'
    BY <2>1, <1>2, <1>6, <1>8 DEF Pending
  <2>3. Job(k)' = IF kind \in Remote /\ stored[k] # 0 THEN stored[k] ELSE Try(k)
    BY <1>1, <1>3 DEF Job
  <2>4. /\ k \in held' /\ Idle(k)' /\ (Settled(k)' <=> Settled(k)) /\ Sent(k)' = Sent(k)
        /\ Terminal(sent[k])' = Terminal(sent[k]) /\ (Requests' = Requests) /\ (Single(k)' <=> Single(k))
    BY <1>1, <1>2, <1>6 DEF Idle, Settled, Sent, Terminal, Requests, Single
  <2> QED BY <2>1, <2>2, <2>3, <2>4
<1>15. Tried(k)'
  BY TriesCounted, <1>0, <1>1, <1>2, <1>3, <1>9, <1>14 DEF KeyInv, Tried
<1>16. Slot(k)'
  BY <1>0, <1>1, <1>2, <1>3, <1>6, <1>14 DEF KeyInv, Slot, Idle
<1>17. Created(k)'
  BY TriesCounted, <1>0, <1>1, <1>2, <1>3, <1>9, <1>14 DEF KeyInv, Created, Tried
<1>18. Asked(k)'
  BY TriesCounted, <1>0, <1>1, <1>2, <1>3, <1>9, <1>14 DEF KeyInv, Asked, ByPidAlone
<1>19. Accounted(k)'
  <2>1. Abroad(k) \subseteq {stored[k]} /\ (kind = "inmemory" => Abroad(k) = {})
    BY <1>0, <1>2, <1>6 DEF KeyInv, Accounted
  <2>2. Abroad(k)' \subseteq Abroad(k) \cup {Try(k)}
    BY <1>1, <1>9 DEF Abroad
  <2>3. jobs'[<<k, Try(k)>>] = jobs[<<k, Try(k)>>] => Try(k) \notin Abroad(k)'
    BY <1>9 DEF Abroad, Live
  <2>4. stored[k] = 0 => Abroad(k) = {}
    BY <2>1, TriesCounted DEF Abroad
  <2> QED BY <2>1, <2>2, <2>3, <2>4, <1>1, <1>9, <1>14 DEF Accounted, Remote, Schedulers
<1>20. Written(k)'
  BY <1>0, <1>1, <1>2, <1>9, <1>14 DEF KeyInv, Written, WorkOutput, Output, AssetSpec, path, StorageOf
<1>21. Settling(k)' /\ Watched(k)'
  BY <1>0, <1>1, <1>2, <1>14 DEF KeyInv, Settling, Watched, Settled, Idle
<1>22. Cancelling(k)'
  <2>1. FirstLife' => FirstLife
    BY <1>0, <1>1, <1>2, <1>8 DEF FirstLife, Types
  <2> QED BY <2>1, <1>0, <1>1, <1>2, <1>14 DEF KeyInv, Cancelling, FirstLife
<1> QED BY <1>0, <1>8, <1>10, <1>11, <1>12, <1>13, <1>15, <1>16, <1>17, <1>18, <1>19, <1>20, <1>21, <1>22,
           OwnStep DEF KeyInv

(* Calls of the outside world fail at the cost of a mishap. *)
LEMMA Mishaps ==
  ASSUME Types, Fault \/ NoFault
  PROVE  /\ mishaps' \in Nat /\ faults' \in Nat /\ faults <= faults'
         /\ Fault => faults' # 0
BY DEF Types, Fault, NoFault, Mishap

(* Assets that are copied, reserved or saved for a task. *)
LEMMA AssetsTyped ==
  ASSUME Types, NEW k \in Keys, NEW d \in Tries
  PROVE  /\ assets \subseteq TransferInput(k, d).assets /\ TransferInput(k, d).assets \subseteq AssetSpecs
         /\ assets \subseteq TransferOutput(k, d).assets /\ TransferOutput(k, d).assets \subseteq AssetSpecs
         /\ storage.work # storage.output => Output(k, d) \in TransferOutput(k, d).assets
         /\ storage.work = storage.output => Output(k, d) = WorkOutput(k, d)
         /\ WorkOutput(k, d) \in AssetSpecs /\ Output(k, d) \in AssetSpecs
<1>1. /\ storage.input \in DOMAIN Registry /\ storage.work \in DOMAIN Registry
      /\ storage.output \in DOMAIN Registry
      /\ assets \subseteq AssetSpecs
  BY DEF Types, Storages
<1>2. d \in 0 .. (MaxRestarts + 1)
  BY TriesCounted DEF Tries
<1>3. /\ WorkOutput(k, d) \in AssetSpecs /\ Output(k, d) \in AssetSpecs
      /\ <<storage.work, <<k, d, "in">>>> \in AssetSpecs
  BY <1>1, <1>2 DEF WorkOutput, Output, AssetSpec, AssetKey, AssetSpecs
<1>4. TransferInput(k, d).assets = assets \/ TransferInput(k, d).assets = assets \cup {<<storage.work, <<k, d, "in">>>>}
  BY DEF TransferInput, transfer_assets, AssetSpec, AssetKey, storage_save, StorageOf
<1>5. /\ storage.work # storage.output => TransferOutput(k, d).assets = assets \cup {Output(k, d)}
      /\ storage.work = storage.output => TransferOutput(k, d).assets = assets
      /\ storage.work = storage.output => Output(k, d) = WorkOutput(k, d)
  BY DEF TransferOutput, transfer_assets, WorkOutput, Output, AssetSpec, AssetKey, storage_save, StorageOf
<1> QED BY <1>1, <1>3, <1>4, <1>5

(* The five forms of execute(). *)
LEMMA InMemoryExecuteKeeps ==
  ASSUME ExecutorInv, NEW k \in Keys, InMemoryExecute(k) PROVE ExecutorInv'
<1>1. Types /\ kind = "inmemory" /\ kind' = kind
  BY DEF ExecutorInv, InMemoryExecute, budget, setup
<1>2. PlanJob(k)' = 0 /\ (Accepted(k) <=> jobs' = jobs) /\ ~WritesItself
  BY <1>1 DEF PlanJob, Accepted, Remote, Schedulers, WritesItself
<1>3. mishaps \in Nat /\ faults \in Nat /\ faults <= faults /\ assets \subseteq AssetSpecs
  BY <1>1 DEF Types
<1>4. Executing(k)
  BY <1>1, <1>2, <1>3 DEF InMemoryExecute, Enqueue, Executing, outside, budget, setup, service, record
<1> QED BY <1>4, ExecutingKeeps

(* execute() of the subprocess executor hands a worker the paths of its
   assets, or fails and ends run(). *)
LEMMA SubprocessExecuteKeeps ==
  ASSUME ExecutorInv, NEW k \in Keys, SubprocessExecute(k) PROVE ExecutorInv'
<1>1. Types /\ kind = "subprocess" /\ kind' = kind /\ Due(k)
  BY DEF ExecutorInv, SubprocessExecute, setup
<1>2. /\ stored' = stored => PlanJob(k)' = stored[k]
      /\ Accepted(k) <=> jobs' = jobs
  BY <1>1 DEF PlanJob, Accepted, Remote, Schedulers
<1>3. assets \subseteq TransferInput(k, Try(k)).assets /\ TransferInput(k, Try(k)).assets \subseteq AssetSpecs
  BY <1>1, TriesInRange, AssetsTyped DEF ExecutorInv, KeyInv, Due
<1>4. assets \subseteq AssetSpecs
  BY <1>1 DEF Types
<1>5. mishaps' \in Nat /\ faults' \in Nat /\ faults <= faults'
  BY <1>1, Mishaps DEF SubprocessExecute
<1>6. build_outputs(k) => Registry[storage.work] = "file"
  BY DEF build_outputs, path, WorkOutput, AssetSpec, StorageOf
<1>7. Executing(k)
  <2>1. CASE ExecuteErr(k) /\ UNCHANGED assets
    BY <2>1, <1>1, <1>4, <1>5 DEF SubprocessExecute, ExecuteErr, Executing
  <2>2. CASE build_outputs(k) /\ Enqueue(k, stored[k]) /\ assets' = TransferInput(k, Try(k)).assets
    <3>1. stored' = stored
      BY <2>2 DEF Enqueue, record
    <3> QED BY <3>1, <2>2, <1>1, <1>2, <1>3, <1>5, <1>6 DEF SubprocessExecute, Enqueue, Executing
  <2> QED BY <2>1, <2>2 DEF SubprocessExecute
<1> QED BY <1>7, ExecutingKeeps

(* execute() of the HPC executor submits a job or takes up the stored one. *)
LEMMA HpcExecuteKeeps ==
  ASSUME ExecutorInv, NEW k \in Keys, HpcExecute(k) PROVE ExecutorInv'
<1>1. Types /\ kind \in Schedulers /\ kind \in Remote /\ kind' = kind /\ Due(k)
  BY DEF ExecutorInv, HpcExecute, setup, Remote
<1>2. ASSUME stored' = stored, tries' = [tries EXCEPT ![k] = @ + 1]
      PROVE  PlanJob(k)' = IF stored[k] # 0 THEN stored[k] ELSE Try(k)
  BY <1>1, <1>2 DEF PlanJob, Job, Try, Types, Schedulers
<1>3. assets \subseteq TransferInput(k, Try(k)).assets /\ TransferInput(k, Try(k)).assets \subseteq AssetSpecs
  BY <1>1, TriesInRange, AssetsTyped DEF ExecutorInv, KeyInv, Due
<1>4. assets \subseteq AssetSpecs
  BY <1>1 DEF Types
<1>5. mishaps' \in Nat /\ faults' \in Nat /\ faults <= faults'
  BY <1>1, Mishaps DEF HpcExecute
<1>6. OutputsReserved(k) => Registry[storage.work] = "file"
  BY DEF OutputsReserved, path, WorkOutput, AssetSpec, StorageOf
<1>7. Executing(k)
  <2>1. CASE ExecuteErr(k) /\ UNCHANGED <<jobs, assets>>
    BY <2>1, <1>1, <1>4, <1>5 DEF HpcExecute, ExecuteErr, Executing
  <2>2. CASE stored[k] # 0 /\ OutputsReserved(k) /\ Enqueue(k, stored[k]) /\ UNCHANGED <<jobs, assets>>
    <3>1. stored' = stored /\ tries' = [tries EXCEPT ![k] = @ + 1]
      BY <2>2 DEF Enqueue, record, Taken
    <3> QED BY <3>1, <2>2, <1>1, <1>2, <1>4, <1>5, <1>6 DEF HpcExecute, Enqueue, Executing, Accepted
  <2>3. CASE stored[k] = 0 /\ OutputsReserved(k) /\ HpcSubmit(k)
    <3>1. CASE ExecuteErr(k) /\ UNCHANGED <<jobs, assets>>
      BY <3>1, <2>1
    <3>2. CASE /\ jobs' = [jobs EXCEPT ![<<k, Try(k)>>] = "queued"]
               /\ Enqueue(k, Try(k)) /\ assets' = TransferInput(k, Try(k)).assets
      <4>1. stored' = stored /\ tries' = [tries EXCEPT ![k] = @ + 1]
        BY <3>2 DEF Enqueue, record, Taken
      <4> QED BY <4>1, <3>2, <2>3, <1>1, <1>2, <1>3, <1>5, <1>6 DEF HpcExecute, Enqueue, Executing, Accepted
    <3> QED BY <3>1, <3>2, <2>3 DEF HpcSubmit
  <2> QED BY <2>1, <2>2, <2>3 DEF HpcExecute
<1> QED BY <1>7, ExecutingKeeps

(* execute() of the Nexus executor submits a job or takes up the stored one. *)
LEMMA NexusExecuteKeeps ==
  ASSUME ExecutorInv, NEW k \in Keys, NexusExecute(k) PROVE ExecutorInv'
<1>1. Types /\ kind = "nexus" /\ kind \in Remote /\ kind' = kind /\ Due(k) /\ ~WritesItself
  BY DEF ExecutorInv, NexusExecute, setup, Remote, WritesItself, Schedulers
<1>2. ASSUME stored' = stored, tries' = [tries EXCEPT ![k] = @ + 1]
      PROVE  PlanJob(k)' = IF stored[k] # 0 THEN stored[k] ELSE Try(k)
  BY <1>1, <1>2 DEF PlanJob, Job, Try, Types
<1>3. mishaps' \in Nat /\ faults' \in Nat /\ faults <= faults'
  BY <1>1, Mishaps DEF NexusExecute
<1>4. assets \subseteq AssetSpecs /\ assets' = assets
  BY <1>1 DEF Types, NexusExecute
<1>5. Executing(k)
  <2>1. CASE ExecuteErr(k) /\ UNCHANGED jobs
    BY <2>1, <1>1, <1>3, <1>4 DEF NexusExecute, ExecuteErr, Executing
  <2>2. CASE stored[k] # 0 /\ Enqueue(k, stored[k]) /\ UNCHANGED jobs
    <3>1. stored' = stored /\ tries' = [tries EXCEPT ![k] = @ + 1]
      BY <2>2 DEF Enqueue, record, Taken
    <3> QED BY <3>1, <2>2, <1>1, <1>2, <1>3, <1>4 DEF NexusExecute, Enqueue, Executing, Accepted
  <2>3. CASE stored[k] = 0 /\ NexusSubmit(k)
    <3>1. stored' = stored /\ tries' = [tries EXCEPT ![k] = @ + 1]
      BY <2>3 DEF NexusSubmit, Enqueue, record, Taken
    <3> QED BY <3>1, <2>3, <1>1, <1>2, <1>3, <1>4 DEF NexusExecute, NexusSubmit, Enqueue, Executing, Accepted
  <2> QED BY <2>1, <2>2, <2>3 DEF NexusExecute
<1> QED BY <1>5, ExecutingKeeps

(* execute() of the QRMI executor submits a task or takes up the stored one. *)
LEMMA QrmiExecuteKeeps ==
  ASSUME ExecutorInv, NEW k \in Keys, QrmiExecute(k) PROVE ExecutorInv'
<1>1. Types /\ kind = "qrmi" /\ kind \in Remote /\ kind' = kind /\ Due(k) /\ ~WritesItself
  BY DEF ExecutorInv, QrmiExecute, setup, Remote, WritesItself, Schedulers
<1>2. ASSUME stored' = stored, tries' = [tries EXCEPT ![k] = @ + 1]
      PROVE  PlanJob(k)' = IF stored[k] # 0 THEN stored[k] ELSE Try(k)
  BY <1>1, <1>2 DEF PlanJob, Job, Try, Types
<1>3. mishaps' \in Nat /\ faults' \in Nat /\ faults <= faults'
  BY <1>1, Mishaps DEF QrmiExecute
<1>4. assets \subseteq AssetSpecs /\ assets' = assets
  BY <1>1 DEF Types, QrmiExecute
<1>5. Executing(k)
  <2>1. CASE ExecuteErr(k) /\ UNCHANGED jobs
    BY <2>1, <1>1, <1>3, <1>4 DEF QrmiExecute, ExecuteErr, Executing
  <2>2. CASE stored[k] # 0 /\ Enqueue(k, stored[k]) /\ UNCHANGED jobs
    <3>1. stored' = stored /\ tries' = [tries EXCEPT ![k] = @ + 1]
      BY <2>2 DEF Enqueue, record, Taken
    <3> QED BY <3>1, <2>2, <1>1, <1>2, <1>3, <1>4 DEF QrmiExecute, Enqueue, Executing, Accepted
  <2>3. CASE stored[k] = 0 /\ jobs' = [jobs EXCEPT ![<<k, Try(k)>>] = "queued"] /\ Enqueue(k, Try(k))
    <3>1. stored' = stored /\ tries' = [tries EXCEPT ![k] = @ + 1]
      BY <2>3 DEF Enqueue, record, Taken
    <3> QED BY <3>1, <2>3, <1>1, <1>2, <1>3, <1>4 DEF QrmiExecute, Enqueue, Executing, Accepted
  <2> QED BY <2>1, <2>2, <2>3 DEF QrmiExecute
<1> QED BY <1>5, ExecutingKeeps

(* cancel() puts a request on the channel. *)
LEMMA CancelKeeps ==
  ASSUME ExecutorInv, NEW k \in Keys, Cancel(k) PROVE ExecutorInv'
<1>0. Types /\ KeyInv(k) /\ PlansDistinct /\ ServiceFailsOnlyOnCancel
  BY DEF ExecutorInv
<1>1. /\ up' = up /\ handles' = handles /\ tasks' = tasks /\ lock' = lock /\ plans' = plans
      /\ caller' = caller /\ tries' = tries /\ held' = held
      /\ sent' = sent /\ stored' = stored /\ lost' = lost /\ pids' = pids /\ jobs' = jobs /\ assets' = assets
      /\ stopped' = stopped /\ kind' = kind /\ os' = os /\ load' = load /\ storage' = storage
      /\ faults' = faults /\ restarts' = restarts
  BY DEF Cancel, service, outside, record, setup
<1>2. /\ mishaps' \in Nat /\ cancelled' \in [Keys -> Nat] /\ cancelled'[k] = cancelled[k] + 1
      /\ cancelled[k] \in Nat /\ \A u \in Keys : u # k => cancelled'[u] = cancelled[u]
  BY <1>0 DEF Cancel, Mishap, Types
<1>3. /\ cancels' \in Seq(Keys) /\ Requests' = Requests \cup {k}
      /\ \A u \in Keys : u # k \/ k \notin Requests => (Single(u) => Single(u)')
  BY <1>0, CancelPut DEF Cancel
<1>4. Types'
  BY <1>0, <1>1, <1>2, <1>3 DEF Types, Stoppable, ByPidAlone
<1>5. PlansDistinct' /\ Meanwhile
  BY <1>0, <1>1 DEF PlansDistinct, Meanwhile, Types
<1>6. ASSUME NEW u \in Keys \ {k} PROVE Same(u)
  BY <1>1, <1>2, <1>3 DEF Same, Plans
<1>7. ServiceFailsOnlyOnCancel'
  BY <1>2 DEF ServiceFailsOnlyOnCancel
<1>8. /\ Job(k)' = Job(k) /\ PlanJob(k)' = PlanJob(k) /\ Plans' = Plans
      /\ Sent(k)' = Sent(k) /\ (Settled(k)' <=> Settled(k)) /\ Terminal(sent[k])' = Terminal(sent[k])
      /\ (Idle(k)' <=> Idle(k)) /\ (Pending(k)' <=> Pending(k)) /\ (WritesItself' <=> WritesItself)
      /\ (SettleOnce(k)' => SettleOnce(k)) /\ (FirstLife' => FirstLife) /\ Abroad(k)' = Abroad(k)
      /\ (Honoured(k)' <=> Honoured(k))
  BY <1>1, <1>2 DEF Job, PlanJob, Plans, Sent, Settled, Terminal, Idle, Pending, WritesItself, SettleOnce,
     FirstLife, Abroad, Honoured
<1>9. Tried(k)' /\ Slot(k)' /\ Created(k)'
  BY <1>0, <1>1, <1>8 DEF KeyInv, Tried, Slot, Created
<1>10. Asked(k)'
  BY <1>0, <1>1, <1>2, <1>3, <1>8 DEF KeyInv, Asked, ByPidAlone
<1>11. Accounted(k)' /\ Settling(k)' /\ Watched(k)'
  BY <1>0, <1>1, <1>8 DEF KeyInv, Accounted, Settling, Watched
<1>12. Written(k)'
  BY <1>0, <1>1, <1>8 DEF KeyInv, Written, WorkOutput, Output, AssetSpec, path, StorageOf
<1>13. Cancelling(k)'
  <2>1. k \notin Requests => Single(k)
    BY DEF Requests, Elems, Single
  <2>2. cancelled'[k] = 1 => k \notin Requests /\ handles[k] # "cancelBefore"
    BY <1>0, <1>2 DEF KeyInv, Asked
  <2> QED BY <2>1, <2>2, <1>0, <1>1, <1>3, <1>8 DEF KeyInv, Cancelling
<1> QED BY <1>0, <1>4, <1>5, <1>6, <1>7, <1>9, <1>10, <1>11, <1>12, <1>13, OwnStep DEF KeyInv

(* A job runs and ends. *)
LEMMA JobStepKeeps ==
  ASSUME ExecutorInv, NEW j \in Jobs, JobStep(j) PROVE ExecutorInv'
<1> DEFINE k == j[1]
           d == j[2]
<1>a. k \in Keys /\ d \in Tries /\ j = <<k, d>> /\ j \in Processes
  BY DEF Jobs, Processes
<1> HIDE DEF k, d
<1>0. Types /\ KeyInv(k) /\ PlansDistinct /\ ServiceFailsOnlyOnCancel
  BY <1>a DEF ExecutorInv
<1>1. /\ up' = up /\ handles' = handles /\ tasks' = tasks /\ lock' = lock /\ plans' = plans /\ cancels' = cancels
      /\ caller' = caller /\ tries' = tries /\ held' = held /\ cancelled' = cancelled
      /\ sent' = sent /\ stored' = stored /\ lost' = lost /\ pids' = pids
      /\ stopped' = stopped /\ kind' = kind /\ os' = os /\ load' = load /\ storage' = storage
      /\ faults' = faults /\ restarts' = restarts /\ mishaps' = mishaps
  BY DEF JobStep, service, api, record, budget, setup
<1>2. WorkOutput(k, d) \in AssetSpecs
  BY <1>a, <1>0, AssetsTyped
<1>3. /\ jobs \in [Processes -> {"none"} \cup Live \cup Ended]
      /\ jobs' \in [Processes -> {"none"} \cup Live \cup Ended]
      /\ \A i \in Processes : i # j => jobs'[i] = jobs[i]
      /\ jobs[j] \in Live /\ jobs'[j] \in {"running"} \cup Ended
      /\ jobs'[j] = "cancelled" => j \in stopped
      /\ jobs'[j] = "panicked" => kind = "inmemory"
      /\ jobs'[j] = "complete" /\ WritesItself => WorkOutput(k, d) \in assets'
      /\ assets \subseteq assets' /\ assets' \subseteq AssetSpecs
  <2>1. jobs \in [Processes -> {"none"} \cup Live \cup Ended] /\ assets \subseteq AssetSpecs
    BY <1>0 DEF Types
  <2>2. CASE jobs[j] = "queued" /\ jobs' = [jobs EXCEPT ![j] = "running"] /\ UNCHANGED assets
    BY <2>1, <2>2, <1>a DEF Live, Ended
  <2>3. CASE /\ jobs[j] = "running"
             /\ \E end \in Outcomes :
                  /\ jobs' = [jobs EXCEPT ![j] = end]
                  /\ assets' = IF end = "complete" /\ WritesItself
                               THEN save_assets({WorkOutput(j[1], j[2])}) ELSE assets
    BY <2>1, <2>3, <1>a, <1>2 DEF Live, Ended, Outcomes, run_builtin, save_assets, storage_save, k, d
  <2>4. CASE jobs[j] \in Live /\ j \in stopped /\ jobs' = [jobs EXCEPT ![j] = "cancelled"] /\ UNCHANGED assets
    BY <2>1, <2>4, <1>a DEF Live, Ended
  <2> QED BY <2>2, <2>3, <2>4 DEF JobStep
<1>4. Types'
  BY <1>0, <1>1, <1>3 DEF Types, Stoppable, ByPidAlone
<1>5. PlansDistinct' /\ Meanwhile
  BY <1>0, <1>1, <1>3 DEF PlansDistinct, Meanwhile, Types
<1>6. ASSUME NEW u \in Keys \ {k} PROVE Same(u)
  <2>1. \A e \in Tries : <<u, e>> \in Processes /\ <<u, e>> # j
    BY <1>a DEF Processes, Jobs
  <2> QED BY <2>1, <1>1, <1>3 DEF Same, Plans, Requests, Single
<1>7. ServiceFailsOnlyOnCancel'
  <2>1. \A i \in Jobs : jobs[i] = "panicked" => jobs'[i] = "panicked"
    BY <1>3 DEF Jobs, Processes, Live
  <2> QED BY <2>1, <1>0, <1>1, ServiceKept
<1>8. /\ Job(k)' = Job(k) /\ PlanJob(k)' = PlanJob(k) /\ Plans' = Plans
      /\ Sent(k)' = Sent(k) /\ (Settled(k)' <=> Settled(k)) /\ Terminal(sent[k])' = Terminal(sent[k])
      /\ (Idle(k)' <=> Idle(k)) /\ (Pending(k)' <=> Pending(k)) /\ (WritesItself' <=> WritesItself)
      /\ (SettleOnce(k)' => SettleOnce(k)) /\ (FirstLife' => FirstLife)
      /\ Requests' = Requests /\ (Single(k)' <=> Single(k))
  BY <1>1 DEF Job, PlanJob, Plans, Sent, Settled, Terminal, Idle, Pending, WritesItself, SettleOnce,
     FirstLife, Requests, Single
<1>9. \A e \in Tries :
        /\ jobs'[<<k, e>>] = "none" <=> jobs[<<k, e>>] = "none"
        /\ jobs[<<k, e>>] \in Ended => jobs'[<<k, e>>] = jobs[<<k, e>>]
        /\ jobs'[<<k, e>>] \in Live => jobs[<<k, e>>] \in Live
        /\ jobs'[<<k, e>>] = "cancelled" => jobs[<<k, e>>] = "cancelled" \/ <<k, e>> \in stopped
        /\ jobs'[<<k, e>>] = "complete" => jobs[<<k, e>>] = "complete" \/ e = d
        /\ jobs'[<<k, e>>] = "panicked" => jobs[<<k, e>>] = "panicked" \/ kind = "inmemory"
  <2>1. \A e \in Tries : <<k, e>> \in Processes
    BY <1>a DEF Processes, Jobs
  <2> QED BY <2>1, <1>3, <1>a DEF Live, Ended
<1>10. /\ k \in held => tries[k] \in Tries /\ Job(k) \in Tries
       /\ stored[k] # 0 => stored[k] \in Tries
       /\ Pending(k) \/ ~Idle(k) => k \in held
  BY <1>a, <1>0, TriesInRange DEF KeyInv, Slot
<1>11. Tried(k)' /\ Slot(k)'
  BY <1>0, <1>1, <1>8, <1>9, <1>10 DEF KeyInv, Tried, Slot
<1>12. Created(k)'
  BY <1>0, <1>1, <1>8, <1>9, <1>10 DEF KeyInv, Created
<1>13. Asked(k)'
  <2>1. tries[k] \in Nat
    BY <1>0, <1>a DEF Types
  <2> QED BY <2>1, <1>0, <1>1, <1>8, <1>9, <1>10 DEF KeyInv, Asked, ByPidAlone
<1>14. Accounted(k)'
  <2>1. Abroad(k)' \subseteq Abroad(k)
    BY <1>1, <1>9 DEF Abroad
  <2> QED BY <2>1, <1>0, <1>1, <1>8 DEF KeyInv, Accounted
<1>15. Written(k)'
  <2>1. \A e \in Tries : /\ WorkOutput(k, e)' = WorkOutput(k, e) /\ Output(k, e)' = Output(k, e)
                         /\ path(Output(k, e))' = path(Output(k, e))
    BY <1>1 DEF WorkOutput, Output, AssetSpec, path, StorageOf
  <2> QED BY <2>1, <1>0, <1>1, <1>3, <1>8, <1>9, <1>a DEF KeyInv, Written
<1>16. Settling(k)' /\ Watched(k)'
  BY <1>0, <1>1, <1>8, <1>9, <1>10 DEF KeyInv, Settling, Watched, Idle
<1>17. Cancelling(k)'
  <2>1. k \in held /\ Honoured(k) => Honoured(k)'
    BY <1>1, <1>9, <1>10 DEF Honoured
  <2> QED BY <2>1, <1>0, <1>1, <1>8 DEF KeyInv, Cancelling
<1> QED BY <1>a, <1>0, <1>4, <1>5, <1>6, <1>7, <1>11, <1>12, <1>13, <1>14, <1>15, <1>16, <1>17, OwnStep DEF KeyInv

(* Another program starts. *)
LEMMA ForeignStartKeeps ==
  ASSUME ExecutorInv, ForeignStart PROVE ExecutorInv'
<1>0. Types /\ PlansDistinct /\ ServiceFailsOnlyOnCancel /\ \A u \in Keys : KeyInv(u)
  BY DEF ExecutorInv
<1>1. /\ up' = up /\ handles' = handles /\ tasks' = tasks /\ lock' = lock /\ plans' = plans /\ cancels' = cancels
      /\ caller' = caller /\ tries' = tries /\ held' = held /\ cancelled' = cancelled
      /\ sent' = sent /\ stored' = stored /\ lost' = lost /\ assets' = assets
      /\ stopped' = stopped /\ kind' = kind /\ os' = os /\ load' = load /\ storage' = storage
      /\ faults' = faults /\ restarts' = restarts /\ mishaps' = mishaps
  BY DEF ForeignStart, service, api, record, budget, setup
<1>2. ASSUME NEW i \in Jobs PROVE i \in Processes /\ i # Foreign
  <2>1. i[1] \in Keys /\ Foreign[1] = "another program" /\ "another program" \notin Keys
    BY ExecutorAssumption DEF Jobs, Foreign
  <2> QED BY <2>1 DEF Processes
<1>3. /\ jobs' \in [Processes -> {"none"} \cup Live \cup Ended] /\ pids' \in [Processes -> {0} \cup Pids]
      /\ \A i \in Jobs : jobs'[i] = jobs[i]
  BY <1>0, <1>2 DEF ForeignStart, Types, FreePids, Processes, Live
<1>4. Types' /\ PlansDistinct' /\ Meanwhile
  BY <1>0, <1>1, <1>3 DEF Types, PlansDistinct, Meanwhile, Stoppable, ByPidAlone
<1>5. ASSUME NEW u \in Keys PROVE Same(u)
  <2>1. \A e \in Tries : <<u, e>> \in Jobs
    BY DEF Jobs
  <2> QED BY <2>1, <1>1, <1>3 DEF Same, Plans, Requests, Single
<1>6. ServiceFailsOnlyOnCancel'
  BY <1>0, <1>1, <1>3, ServiceKept
<1> QED BY <1>0, <1>4, <1>5, <1>6, Frame DEF ExecutorInv

(* What a restart keeps of the events of a task: nothing, or a prefix. *)
LEMMA PrefixKept ==
  ASSUME NEW s \in Seq(Events), NEW n \in Nat, n <= Len(s)
  PROVE  LET t == SubSeq(s, 1, n) IN
         /\ t \in Seq(Events) /\ Elems(t) \subseteq Elems(s) /\ Terminal(t) \subseteq Terminal(s)
         /\ \A old : \/ StoredHandle(t, old) = old
                     \/ \E d \in Tries : StoredHandle(t, old) = d /\ Queued(d) \in Elems(s)
<1> DEFINE t == SubSeq(s, 1, n)
<1>1. /\ t \in Seq(Events) /\ Len(t) = n /\ \A i \in 1 .. n : t[i] = s[i]
      /\ DOMAIN t = 1 .. n /\ DOMAIN s = 1 .. Len(s) /\ Len(s) \in Nat
  <2>1. Len(s) \in Nat /\ DOMAIN s = 1 .. Len(s)
    BY LenProperties
  <2>2. \A i \in 1 .. n : s[i] \in Events
    BY <2>1, ElementOfSeq
  <2>3. t = [i \in 1 .. n |-> s[i]]
    BY <2>1, SubSeqProperties
  <2> HIDE DEF t
  <2>4. t \in [1 .. n -> Events]
    BY <2>2, <2>3
  <2>5. t \in Seq(Events)
    BY <2>4, SeqDef
  <2> QED BY <2>1, <2>3, <2>5, LenProperties
<1> HIDE DEF t
<1>2. \A i \in DOMAIN t : i \in DOMAIN s /\ t[i] = s[i] /\ t[i] \in Events
  BY <1>1, ElementOfSeq
<1>3. Elems(t) \subseteq Elems(s) /\ Terminal(t) \subseteq Terminal(s)
  BY <1>2 DEF Elems, Terminal
<1>4. ASSUME NEW old
      PROVE  \/ StoredHandle(t, old) = old
             \/ \E d \in Tries : StoredHandle(t, old) = d /\ Queued(d) \in Elems(s)
  <2>1. CASE ~ \E i \in DOMAIN t : t[i][1] = "queued"
    BY <2>1 DEF StoredHandle
  <2>2. CASE \E i \in DOMAIN t : t[i][1] = "queued"
    <3> DEFINE i == CHOOSE i \in DOMAIN t : t[i][1] = "queued"
    <3>1. i \in DOMAIN t /\ t[i][1] = "queued" /\ StoredHandle(t, old) = t[i][2]
      BY <2>2 DEF StoredHandle
    <3> HIDE DEF i
    <3>2. t[i] \in Events /\ t[i] \in Elems(s)
      BY <3>1, <1>2 DEF Elems
    <3>3. PICK d \in Tries : t[i] = Queued(d)
      BY <3>1, <3>2 DEF Events, Running, Error, Cancelled, Queued, Complete
    <3>4. t[i][2] = d
      BY <3>3 DEF Queued
    <3> QED BY <3>1, <3>2, <3>3, <3>4
  <2> QED BY <2>1, <2>2
<1> QED BY <1>1, <1>3, <1>4 DEF t

(* The process stops and is started again: the jobs and the assets in      *)
(* files stay, and of the events what had reached the store.               *)
LEMMA RestartKeeps ==
  ASSUME ExecutorInv, Restart PROVE ExecutorInv'
<1>0. Types /\ \A u \in Keys : KeyInv(u)
  BY DEF ExecutorInv
<1>1. /\ restarts < MaxRestarts /\ restarts' = restarts + 1 /\ restarts \in Nat /\ MaxRestarts \in Nat
      /\ restarts' \in 0 .. MaxRestarts /\ restarts' > 0
      /\ mishaps' \in Nat
      /\ up' = "up" /\ caller' = "up" /\ lock' = "free" /\ plans' = <<>> /\ cancels' = <<>> /\ held' = {}
      /\ handles' = [k \in Keys |-> "none"] /\ tasks' = [k \in Keys |-> NoTask]
      /\ tries' = tries /\ cancelled' = cancelled /\ pids' = pids /\ stopped' = stopped
      /\ kind' = kind /\ os' = os /\ load' = load /\ storage' = storage /\ faults' = faults
      /\ lost' = lost \cup {j \in Jobs : jobs[j] \in Live /\ sent'[j[1]] = <<>> /\ stored'[j[1]] # j[2]}
      /\ jobs' = IF kind = "inmemory"
                 THEN [j \in Processes |-> IF jobs[j] \in Live THEN "cancelled" ELSE jobs[j]]
                 ELSE jobs
      /\ assets' = {spec \in assets : path(spec)}
  <2>1. restarts \in Nat /\ MaxRestarts \in Nat /\ mishaps \in Nat
    <3>1. MaxRestarts \in Nat
      BY ExecutorAssumption
    <3> QED BY <3>1, <1>0 DEF Types
  <2>2. /\ restarts < MaxRestarts /\ restarts' = restarts + 1 /\ mishaps > 0 /\ mishaps' = mishaps - 1
    BY DEF Restart, Mishap
  <2>3. restarts' \in 0 .. MaxRestarts /\ restarts' > 0 /\ mishaps' \in Nat
    BY <2>1, <2>2
  <2> QED BY <2>1, <2>2, <2>3 DEF Restart, setup, AfterCrash
<1>2. PICK n \in [Keys -> 0 .. 5] :
        /\ \A k \in Keys : n[k] <= Len(sent[k])
        /\ stored' = [k \in Keys |-> StoredHandle(SubSeq(sent[k], 1, n[k]), stored[k])]
        /\ sent' = [k \in Keys |-> IF Terminal(SubSeq(sent[k], 1, n[k])) # {}
                                   THEN SubSeq(sent[k], 1, n[k]) ELSE <<>>]
  BY DEF Restart
<1>3. ASSUME NEW k \in Keys
      PROVE  /\ sent'[k] \in Seq(Events) /\ Sent(k)' \subseteq Sent(k)
             /\ Terminal(sent'[k]) \subseteq Terminal(sent[k])
             /\ ~Settled(k)' => sent'[k] = <<>>
             /\ \/ stored'[k] = stored[k]
                \/ \E d \in Tries : stored'[k] = d /\ Queued(d) \in Sent(k)
  <2>1. sent[k] \in Seq(Events) /\ n[k] \in Nat /\ n[k] <= Len(sent[k])
    <3>1. sent \in [Keys -> Seq(Events)]
      BY <1>0 DEF Types
    <3>2. n[k] \in 0 .. 5 /\ n[k] <= Len(sent[k])
      BY <1>2
    <3> QED BY <3>1, <3>2
  <2> DEFINE t == SubSeq(sent[k], 1, n[k])
  <2>2. /\ t \in Seq(Events) /\ Elems(t) \subseteq Sent(k) /\ Terminal(t) \subseteq Terminal(sent[k])
        /\ \A old : \/ StoredHandle(t, old) = old
                    \/ \E d \in Tries : StoredHandle(t, old) = d /\ Queued(d) \in Sent(k)
    BY <2>1, PrefixKept DEF Sent
  <2>3. stored'[k] = StoredHandle(t, stored[k]) /\ sent'[k] = IF Terminal(t) # {} THEN t ELSE <<>>
    BY <1>2
  <2> HIDE DEF t
  <2>4. Elems(<<>>) = {} /\ Terminal(<<>>) = {} /\ <<>> \in Seq(Events)
    BY ShortEvents DEF Terminal
  <2> QED BY <2>2, <2>3, <2>4 DEF Sent, Settled
<1>4. sent' \in [Keys -> Seq(Events)] /\ stored' \in [Keys -> {0} \cup Tries]
  <2>1. \A k \in Keys : stored[k] \in {0} \cup Tries
    BY <1>0 DEF Types
  <2> QED BY <2>1, <1>2, <1>3
<1>5. /\ jobs' \in [Processes -> {"none"} \cup Live \cup Ended]
      /\ \A j \in Processes : /\ jobs'[j] = "none" <=> jobs[j] = "none"
                              /\ jobs[j] \in Ended => jobs'[j] = jobs[j]
                              /\ jobs'[j] \in Live => jobs[j] \in Live /\ kind # "inmemory"
                              /\ jobs'[j] = "complete" => jobs[j] = "complete"
  BY <1>0, <1>1 DEF Types, Live, Ended
<1>6. NoTask \in TaskStates
  BY DEF NoTask, TaskStates, Phases
<1>7. Types'
  <2>1. plans' \in Seq(TaskPlan) /\ cancels' \in Seq(Keys)
    BY <1>1, EmptySeq
  <2>2. /\ handles' \in [Keys -> {"none", "watching", "cancelBefore"}] /\ tasks' \in [Keys -> TaskStates]
    BY <1>1, <1>6
  <2>3. lost' \in SUBSET Jobs /\ assets' \in SUBSET AssetSpecs
    BY <1>0, <1>1 DEF Types
  <2>4. stopped' \in SUBSET Stoppable' /\ os' \in Platforms
    BY <1>0, <1>1 DEF Types, Stoppable, ByPidAlone, Processes
  <2> QED BY <2>1, <2>2, <2>3, <2>4, <1>0, <1>1, <1>4, <1>5 DEF Types
<1>8. PlansDistinct' /\ Plans' = {} /\ Requests' = {}
  BY <1>1 DEF PlansDistinct, Plans, Requests, Elems
<1>9. ASSUME NEW k \in Keys PROVE KeyInv(k)'
  <2>0. KeyInv(k)
    BY <1>0
  <2>1. /\ handles'[k] = "none" /\ tasks'[k] = NoTask /\ tasks'[k].phase = "none" /\ Idle(k)'
        /\ ~Pending(k)' /\ k \notin held' /\ lock' # k /\ k \notin Requests'
    BY <1>1, <1>8, ExecutorAssumption DEF NoTask, Idle, Pending
  <2>2. \A d \in Tries :
          /\ jobs'[<<k, d>>] = "none" <=> jobs[<<k, d>>] = "none"
          /\ jobs[<<k, d>>] \in Ended => jobs'[<<k, d>>] = jobs[<<k, d>>]
          /\ jobs'[<<k, d>>] \in Live => jobs[<<k, d>>] \in Live /\ kind # "inmemory"
          /\ jobs'[<<k, d>>] = "complete" => jobs[<<k, d>>] = "complete"
    <3>1. \A d \in Tries : <<k, d>> \in Processes
      BY DEF Processes, Jobs
    <3> QED BY <3>1, <1>5
  <2>3. /\ tries[k] \in Nat /\ tries[k] <= restarts + 1
        /\ stored'[k] \in {0} \cup Tries /\ stored'[k] <= tries[k]
        /\ stored'[k] # 0 => jobs'[<<k, stored'[k]>>] # "none"
        /\ \A d \in Tries : Queued(d) \in Sent(k)' => d <= tries[k] /\ jobs'[<<k, d>>] # "none"
    <3>1. /\ tries[k] \in Nat /\ stored[k] \in {0} \cup Tries
      BY <1>0 DEF Types
    <3>2. /\ tries[k] <= restarts + 1 /\ stored[k] <= tries[k]
          /\ stored[k] # 0 => jobs[<<k, stored[k]>>] # "none"
          /\ \A d \in Tries : Queued(d) \in Sent(k) => d <= tries[k] /\ jobs[<<k, d>>] # "none"
      BY <2>0, <3>1, <1>1 DEF KeyInv, Tried
    <3> QED BY <3>1, <3>2, <1>3, <2>2, TriesCounted
  <2>4. Tried(k)'
    <3>1. /\ tries'[k] = tries[k] /\ restarts' + (IF k \in held' THEN 1 ELSE 0) = restarts + 1
          /\ restarts' # 0
      BY <2>1, <1>1
    <3> QED BY <3>1, <2>1, <2>3 DEF Tried
  <2>5. Slot(k)'
    BY <2>1, <1>8 DEF Slot, Calling
  <2>6. Created(k)'
    BY <2>0, <2>1, <2>2, <1>1 DEF KeyInv, Created
  <2>7. Asked(k)'
    BY <2>0, <2>1, <1>1 DEF KeyInv, Asked, ByPidAlone
  <2>8. Accounted(k)'
    <3>1. Abroad(k)' \subseteq Abroad(k) /\ (kind = "inmemory" => Abroad(k)' = {})
      BY <2>2, <1>1 DEF Abroad
    <3>2. ASSUME ~Settled(k)', NEW d \in Abroad(k)' PROVE d = stored'[k]
      <4>1. d \in Tries /\ jobs[<<k, d>>] \in Live /\ <<k, d>> \notin lost' /\ <<k, d>> \in Jobs
        BY <3>2, <2>2 DEF Abroad, Jobs
      <4>2. sent'[k] = <<>>
        BY <3>2, <1>3
      <4> QED BY <4>1, <4>2, <1>1
    <3> QED BY <3>1, <3>2, <2>0, <2>1, <1>1 DEF KeyInv, Accounted
  <2>9. Written(k)'
    <3>1. \A d \in Tries : /\ WorkOutput(k, d)' = WorkOutput(k, d) /\ Output(k, d)' = Output(k, d)
                           /\ path(Output(k, d))' = path(Output(k, d))
                           /\ Registry[storage.work] = "file" => path(WorkOutput(k, d))
      BY <1>1 DEF WorkOutput, Output, AssetSpec, path, StorageOf
    <3>2. WritesItself' <=> WritesItself
      BY <1>1 DEF WritesItself
    <3>3. ASSUME WritesItself, NEW d \in Tries
          PROVE  /\ jobs'[<<k, d>>] # "none" => Registry[storage'.work] = "file"
                 /\ jobs'[<<k, d>>] = "complete" => WorkOutput(k, d)' \in assets'
      BY <3>1, <3>3, <2>0, <2>2, <1>1 DEF KeyInv, Written
    <3>4. ASSUME NEW d \in Tries, Complete(d) \in Sent(k)'
          PROVE  \/ Output(k, d)' \in assets'
                 \/ restarts' > 0 /\ kind' \in Schedulers /\ storage'.work = storage'.output
                 \/ restarts' > 0 /\ ~path(Output(k, d))'
      BY <3>1, <3>4, <2>0, <1>1, <1>3 DEF KeyInv, Written
    <3> QED BY <3>2, <3>3, <3>4, <2>1 DEF Written
  <2>10. Settling(k)'
    <3>1. SettleOnce(k)' => SettleOnce(k)
      BY <1>1 DEF SettleOnce
    <3> QED BY <3>1, <2>0, <2>1, <1>3 DEF KeyInv, Settling
  <2>11. Watched(k)' /\ Cancelling(k)'
    BY <2>1, <1>1 DEF Watched, Cancelling, FirstLife
  <2> QED BY <2>4, <2>5, <2>6, <2>7, <2>8, <2>9, <2>10, <2>11 DEF KeyInv
<1>10. ServiceFailsOnlyOnCancel'
  BY <1>1 DEF ServiceFailsOnlyOnCancel
<1> QED BY <1>7, <1>8, <1>9, <1>10 DEF ExecutorInv

-----------------------------------------------------------------------------
(* Steps of process_tasks.  A handler leaves the callers, the store and    *)
(* what belongs to other tasks alone.                                      *)
Serving(k) ==
  /\ UNCHANGED <<api, stored, lost, setup, restarts>>
  /\ Fault \/ NoFault
  /\ assets \subseteq assets' /\ assets' \subseteq AssetSpecs
  /\ up' \in {"up", "dead", "blocked"} /\ (up' = "up" => up = "up")
  /\ lock' \in Keys \cup {"free"} /\ \A u \in Keys \ {k} : lock' = u <=> lock = u
  /\ plans' \in Seq(TaskPlan) /\ PlansDistinct'
  /\ \A p \in TaskPlan : p.key # k => (p \in Plans' <=> p \in Plans)
  /\ cancels' \in Seq(Keys)
  /\ \A u \in Keys \ {k} : (u \in Requests' <=> u \in Requests) /\ (Single(u) => Single(u)')
  /\ handles' \in [Keys -> {"none", "watching", "cancelBefore"}]
  /\ \A u \in Keys \ {k} : handles'[u] = handles[u]
  /\ tasks' \in [Keys -> TaskStates] /\ \A u \in Keys \ {k} : tasks'[u] = tasks[u]
  /\ sent' \in [Keys -> Seq(Events)] /\ \A u \in Keys \ {k} : sent'[u] = sent[u]
  /\ jobs' \in [Processes -> {"none"} \cup Live \cup Ended]
  /\ \A u \in Keys, d \in Tries :
       /\ u # k => /\ jobs'[<<u, d>>] = jobs[<<u, d>>] /\ (<<u, d>> \in stopped => <<u, d>> \in stopped')
                   /\ <<u, d>> \in stopped' => <<u, d>> \in stopped \/ ByPidAlone
       /\ jobs[<<u, d>>] = "panicked" => jobs'[<<u, d>>] = "panicked"
  /\ stopped' \in SUBSET Stoppable
  /\ pids' \in [Processes -> {0} \cup Pids]

(* What a handler for k leaves of k itself. *)
LEMMA ServingView ==
  ASSUME ExecutorInv, NEW k \in Keys, Serving(k)
  PROVE  /\ Types /\ KeyInv(k)
         /\ caller' = caller /\ tries' = tries /\ held' = held /\ cancelled' = cancelled
         /\ stored' = stored /\ lost' = lost /\ kind' = kind /\ os' = os /\ load' = load /\ storage' = storage
         /\ restarts' = restarts
         /\ Job(k)' = Job(k) /\ PlanJob(k)' = PlanJob(k) /\ (WritesItself' <=> WritesItself)
         /\ (faults' = 0 => faults = 0 /\ NoFault)
         /\ (SettleOnce(k)' => SettleOnce(k)) /\ (FirstLife' => FirstLife)
         /\ tries[k] \in Nat /\ stored[k] \in {0} \cup Tries /\ cancelled[k] \in Nat
         /\ k \in held => tries[k] \in Tries /\ Job(k) \in Tries
         /\ Pending(k) \/ ~Idle(k) => k \in held
         /\ \A d \in Tries : /\ WorkOutput(k, d)' = WorkOutput(k, d) /\ Output(k, d)' = Output(k, d)
                             /\ path(Output(k, d))' = path(Output(k, d))
<1>1. Types /\ KeyInv(k)
  BY DEF ExecutorInv
<1>2. /\ caller' = caller /\ tries' = tries /\ held' = held /\ cancelled' = cancelled
      /\ stored' = stored /\ lost' = lost /\ kind' = kind /\ os' = os /\ load' = load /\ storage' = storage
      /\ restarts' = restarts /\ (up' = "up" => up = "up")
  BY DEF Serving, api, setup
<1>3. faults' = 0 => faults = 0 /\ NoFault
  <2>1. faults \in Nat
    BY <1>1 DEF Types
  <2> QED BY <2>1 DEF Serving, Fault, NoFault
<1>4. /\ Job(k)' = Job(k) /\ PlanJob(k)' = PlanJob(k) /\ (WritesItself' <=> WritesItself)
      /\ (SettleOnce(k)' => SettleOnce(k)) /\ (FirstLife' => FirstLife)
  BY <1>2, <1>3 DEF Job, PlanJob, WritesItself, SettleOnce, FirstLife
<1>5. \A d \in Tries : /\ WorkOutput(k, d)' = WorkOutput(k, d) /\ Output(k, d)' = Output(k, d)
                       /\ path(Output(k, d))' = path(Output(k, d))
  BY <1>2 DEF WorkOutput, Output, AssetSpec, path, StorageOf
<1>6. /\ tries[k] \in Nat /\ stored[k] \in {0} \cup Tries /\ cancelled[k] \in Nat
  BY <1>1 DEF Types
<1>7. /\ k \in held => tries[k] \in Tries /\ Job(k) \in Tries
      /\ Pending(k) \/ ~Idle(k) => k \in held
  BY <1>1, TriesInRange DEF KeyInv, Slot
<1> QED BY <1>1, <1>2, <1>3, <1>4, <1>5, <1>6, <1>7

(* A handler keeps the invariant when it keeps the part of its own task. *)
LEMMA ServingKeeps ==
  ASSUME ExecutorInv, NEW k \in Keys, Serving(k), KeyInv(k)',
         up' = up \/ ServiceFailsOnlyOnCancel'
  PROVE  ExecutorInv'
<1>1. /\ Types /\ caller' = caller /\ tries' = tries /\ held' = held /\ cancelled' = cancelled
      /\ stored' = stored /\ lost' = lost /\ kind' = kind /\ os' = os /\ load' = load /\ storage' = storage
      /\ restarts' = restarts /\ (up' = "up" => up = "up")
  BY ServingView DEF Serving
<1>2. mishaps' \in Nat /\ faults' \in Nat /\ faults <= faults'
  BY <1>1, Mishaps DEF Serving
<1>3. Types' /\ PlansDistinct'
  BY <1>1, <1>2 DEF Types, Serving, Stoppable, ByPidAlone
<1>4. Meanwhile
  BY <1>1, <1>2 DEF Meanwhile, Serving
<1>5. ASSUME NEW u \in Keys \ {k} PROVE Same(u)
  BY <1>1 DEF Same, Serving
<1>6. ServiceFailsOnlyOnCancel'
  <2>1. \A j \in Jobs : jobs[j] = "panicked" => jobs'[j] = "panicked"
    BY DEF Serving, Jobs
  <2> QED BY <2>1, <1>1, ServiceKept DEF ExecutorInv
<1> QED BY <1>3, <1>4, <1>5, <1>6, OwnStep

(* Handlers that follow a task which has been taken from the channel, or   *)
(* take a request for it: its job is the same, and what is sent of it      *)
(* is true.                                                                *)
Following(k) ==
  /\ Serving(k) /\ plans' = plans
  /\ k \in Requests' => k \in Requests
  /\ handles'[k] = "cancelBefore" => handles[k] = "cancelBefore" \/ k \in Requests
  /\ Idle(k)' \/ (~Idle(k) /\ tasks'[k].job = tasks[k].job /\ tasks'[k].out = tasks[k].out)
  /\ kind # "qrmi" => tasks'[k].phase \in {"none", "waiting", "done", "failed"}
  /\ kind = "subprocess" /\ tasks'[k].phase = "failed" => handles'[k] # "watching" /\ cancelled[k] > 0
  /\ Idle(k)' /\ up' = "up" => handles'[k] # "watching"
  /\ (lock' = k <=> tasks'[k].phase \in Calling)
  /\ Settled(k) => Settled(k)'
  /\ \A d \in Tries :
       /\ \/ jobs'[<<k, d>>] = jobs[<<k, d>>]
          \/ jobs[<<k, d>>] = "queued" /\ jobs'[<<k, d>>] = "cancelled" /\ k \in Requests
       /\ <<k, d>> \in stopped => <<k, d>> \in stopped'
       /\ <<k, d>> \in stopped' => <<k, d>> \in stopped \/ k \in Requests
       /\ Queued(d) \in Sent(k)' => Queued(d) \in Sent(k) \/ (~Idle(k) /\ d = Job(k))
       /\ Complete(d) \in Sent(k)' =>
            \/ Complete(d) \in Sent(k)
            \/ Output(k, d) \in assets'
            \/ restarts > 0 /\ kind \in Schedulers /\ storage.work = storage.output

(* A step in the service of a watched job keeps what is known of its task. *)
LEMMA FollowingKeeps ==
  ASSUME ExecutorInv, NEW k \in Keys, Following(k)
  PROVE  Tried(k)' /\ Slot(k)' /\ Created(k)' /\ Asked(k)' /\ Accounted(k)' /\ Written(k)'
<1>1. Serving(k)
  BY DEF Following
<1>2. /\ Types /\ KeyInv(k)
      /\ tries' = tries /\ held' = held /\ cancelled' = cancelled
      /\ stored' = stored /\ lost' = lost /\ kind' = kind /\ os' = os /\ storage' = storage
      /\ restarts' = restarts
      /\ Job(k)' = Job(k) /\ PlanJob(k)' = PlanJob(k) /\ (WritesItself' <=> WritesItself)
      /\ tries[k] \in Nat /\ stored[k] \in {0} \cup Tries /\ cancelled[k] \in Nat
      /\ k \in held => tries[k] \in Tries /\ Job(k) \in Tries
      /\ Pending(k) \/ ~Idle(k) => k \in held
  BY <1>1, ServingView
<1>3. \A d \in Tries : /\ WorkOutput(k, d)' = WorkOutput(k, d) /\ Output(k, d)' = Output(k, d)
                       /\ path(Output(k, d))' = path(Output(k, d))
  BY <1>1, ServingView
<1>4. Plans' = Plans /\ (Pending(k)' <=> Pending(k)) /\ (Idle(k) => Idle(k)') /\ (up' = "up" => up = "up")
  BY DEF Following, Serving, Plans, Pending
<1>5. k \in Requests => cancelled[k] > 0
  BY <1>2 DEF KeyInv, Asked
<1>6. \A d \in Tries :
        /\ jobs'[<<k, d>>] = "none" <=> jobs[<<k, d>>] = "none"
        /\ jobs'[<<k, d>>] \in Live => jobs[<<k, d>>] \in Live
        /\ jobs'[<<k, d>>] = "complete" => jobs[<<k, d>>] = "complete"
        /\ jobs'[<<k, d>>] = "cancelled" => jobs[<<k, d>>] = "cancelled" \/ cancelled[k] > 0
        /\ jobs'[<<k, d>>] = "panicked" => jobs[<<k, d>>] = "panicked"
        /\ <<k, d>> \in stopped => <<k, d>> \in stopped'
        /\ <<k, d>> \in stopped' => <<k, d>> \in stopped \/ cancelled[k] > 0
        /\ Queued(d) \in Sent(k)' => Queued(d) \in Sent(k) \/ (~Idle(k) /\ d = Job(k))
        /\ Complete(d) \in Sent(k)' =>
             \/ Complete(d) \in Sent(k)
             \/ Output(k, d) \in assets'
             \/ restarts > 0 /\ kind \in Schedulers /\ storage.work = storage.output
  BY <1>5 DEF Following, Live
<1>7. ~Idle(k) => jobs[<<k, Job(k)>>] # "none" /\ Job(k) <= tries[k] /\ tasks[k].out = tries[k] /\ tasks[k].job = Job(k)
  BY <1>2, TriesCounted DEF KeyInv, Slot, Created, Tried, Job
<1>8. Tried(k)'
  BY <1>2, <1>6, <1>7 DEF KeyInv, Tried
<1>9. Slot(k)'
  <2>1. /\ ~Idle(k)' => ~Idle(k) /\ tasks'[k].job = Job(k) /\ tasks'[k].out = tries[k]
        /\ kind # "qrmi" => tasks'[k].phase \in {"none", "waiting", "done", "failed"}
        /\ kind = "subprocess" /\ tasks'[k].phase = "failed" => handles'[k] # "watching"
        /\ Idle(k)' /\ up' = "up" => handles'[k] # "watching"
        /\ (lock' = k <=> tasks'[k].phase \in Calling)
    BY <1>7 DEF Following
  <2> QED BY <2>1, <1>2, <1>4 DEF KeyInv, Slot
<1>10. Created(k)'
  BY <1>2, <1>4, <1>6 DEF KeyInv, Created
<1>11. Asked(k)'
  <2>1. k \in Requests' \/ handles'[k] = "cancelBefore" => cancelled[k] > 0
    BY <1>2, <1>5 DEF KeyInv, Asked, Following
  <2>2. kind = "subprocess" /\ tasks'[k].phase = "failed" => cancelled[k] > 0
    BY DEF Following
  <2> QED BY <2>1, <2>2, <1>2, <1>4, <1>6 DEF KeyInv, Asked, ByPidAlone
<1>12. Accounted(k)'
  <2>1. Abroad(k)' \subseteq Abroad(k)
    BY <1>2, <1>6 DEF Abroad
  <2>2. Settled(k) => Settled(k)'
    BY DEF Following
  <2> QED BY <2>1, <2>2, <1>2, <1>4 DEF KeyInv, Accounted
<1>13. Written(k)'
  <2>1. assets \subseteq assets'
    BY <1>1 DEF Serving
  <2> QED BY <2>1, <1>2, <1>3, <1>4, <1>6 DEF KeyInv, Written
<1> QED BY <1>8, <1>9, <1>10, <1>11, <1>12, <1>13

(* Nothing final is sent. *)
LEMMA QuietSettling ==
  ASSUME ExecutorInv, NEW k \in Keys, Following(k), Terminal(sent'[k]) = Terminal(sent[k]),
         kind = "nexus" /\ tasks'[k].phase = "failed" => ~SettleOnce(k)' \/ tasks[k].phase = "failed",
         Idle(k)' \/ kind # "qrmi" \/ tasks[k].phase # "done" \/ tasks'[k].phase = "done"
  PROVE  Settling(k)'
<1>1. Serving(k) /\ (Idle(k) => Idle(k)') /\ (Idle(k)' \/ ~Idle(k)) /\ plans' = plans
  BY DEF Following
<1>2. KeyInv(k) /\ kind' = kind /\ (SettleOnce(k)' => SettleOnce(k))
  BY <1>1, ServingView
<1>3. (Pending(k)' <=> Pending(k)) /\ (Settled(k)' <=> Settled(k))
  BY <1>1 DEF Pending, Plans, Settled
<1> QED BY <1>1, <1>2, <1>3 DEF KeyInv, Settling

(* The end of the task is sent. *)
LEMMA FinalSettling ==
  ASSUME ExecutorInv, NEW k \in Keys, Following(k), ~Idle(k),
         Idle(k)' \/ (kind = "qrmi" /\ tasks'[k].phase = "done"),
         kind = "qrmi" => tasks[k].phase # "done",
         SettleOnce(k)' /\ ~Settled(k) => \A i, j \in Terminal(sent'[k]) : i = j
  PROVE  Settling(k)'
<1>1. Serving(k) /\ plans' = plans
  BY DEF Following
<1>2. KeyInv(k) /\ kind' = kind /\ (SettleOnce(k)' => SettleOnce(k))
  BY <1>1, ServingView
<1>3. ~Pending(k) /\ ~Pending(k)'
  BY <1>1, <1>2 DEF KeyInv, Slot, Pending, Plans
<1> QED BY <1>2, <1>3 DEF KeyInv, Settling, Idle

(* The channel of requests is left alone, and a task that is no longer     *)
(* watched is over.                                                        *)
LEMMA CancellingKept ==
  ASSUME ExecutorInv, NEW k \in Keys, Following(k), cancels' = cancels,
         FirstLife' => \/ handles'[k] = handles[k]
                       \/ ~Idle(k) /\ Honoured(k)' /\ handles'[k] = "none"
  PROVE  Cancelling(k)'
<1>1. Serving(k) /\ plans' = plans
  BY DEF Following
<1>2. /\ KeyInv(k) /\ kind' = kind /\ held' = held /\ cancelled' = cancelled /\ tries' = tries
      /\ (FirstLife' => FirstLife) /\ (k \in held => tries[k] \in Tries)
      /\ (Pending(k) \/ ~Idle(k) => k \in held)
  BY <1>1, ServingView
<1>3. /\ (Pending(k)' <=> Pending(k)) /\ Requests' = Requests /\ (Single(k)' <=> Single(k))
  BY <1>1 DEF Pending, Plans, Requests, Single
<1>4. k \in held /\ Honoured(k) => Honoured(k)'
  BY <1>2 DEF Honoured, Following, Ended
<1>5. ~Idle(k) => ~Pending(k)
  BY <1>2 DEF KeyInv, Slot
<1> QED BY <1>2, <1>3, <1>4, <1>5 DEF KeyInv, Cancelling

(* A request is taken: a watched job is asked to stop, and a request for a *)
(* task that is still to come is kept for it.                              *)
LEMMA RequestServed ==
  ASSUME ExecutorInv, NEW k \in Keys, Following(k), NextCancel(k),
         FirstLife' =>
           \/ handles[k] = "watching" /\ handles'[k] = "none" /\ Honoured(k)'
           \/ /\ handles[k] # "watching" /\ handles'[k] # "watching"
              /\ kind = "qrmi" \/ handles[k] = "none" => handles'[k] = "cancelBefore"
  PROVE  Cancelling(k)'
<1>1. Serving(k) /\ plans' = plans
  BY DEF Following
<1>2. /\ Types /\ KeyInv(k) /\ kind' = kind /\ held' = held /\ cancelled' = cancelled /\ tries' = tries
      /\ (FirstLife' => FirstLife) /\ (k \in held => tries[k] \in Tries)
      /\ (Pending(k) \/ ~Idle(k) => k \in held) /\ handles[k] \in {"none", "watching", "cancelBefore"}
  BY <1>1, ServingView DEF Types
<1>3. /\ up = "up" /\ k \in Requests /\ (Single(k) => k \notin Requests') /\ (Single(k) => Single(k)')
      /\ (Pending(k)' <=> Pending(k))
  BY <1>1, <1>2, CancelTaken DEF Pending, Plans
<1>4. k \in held /\ Honoured(k) => Honoured(k)'
  BY <1>2 DEF Honoured, Following, Ended
<1>5. handles[k] = "watching" => ~Idle(k) /\ k \in held /\ ~Pending(k)
  BY <1>2, <1>3 DEF KeyInv, Slot
<1>6. CASE handles[k] = "watching"
  BY <1>2, <1>3, <1>5, <1>6 DEF KeyInv, Cancelling
<1>7. CASE handles[k] # "watching" /\ k \in held /\ ~Pending(k)
  BY <1>2, <1>3, <1>4, <1>7 DEF KeyInv, Cancelling
<1>8. CASE handles[k] # "watching" /\ (k \notin held \/ Pending(k))
  BY <1>2, <1>3, <1>8 DEF KeyInv, Cancelling
<1> QED BY <1>6, <1>7, <1>8

(* In the first lifetime a task works on the job of its own try. *)
LEMMA FirstJob ==
  ASSUME NEW k \in Keys, KeyInv(k), FirstLife
  PROVE  Job(k) = tries[k]
BY DEF KeyInv, Tried, Job, FirstLife

(* For local executors the invariant says nothing of watching remote jobs  *)
(* and of requests to stop them.                                           *)
LEMMA LocalKept ==
  ASSUME ExecutorInv, NEW k \in Keys, Serving(k), kind \notin Remote
  PROVE  Watched(k)' /\ Cancelling(k)'
<1>1. kind' \notin Remote
  BY ServingView
<1> QED BY <1>1 DEF Watched, Cancelling, FirstLife, Remote

(* Handlers that take the plan of a task from the channel.  A local        *)
(* executor starts a job, once the one of an earlier try has been stopped. *)
Starting(k) ==
  /\ Serving(k) /\ Pending(k) /\ Plans' = {p \in Plans : p.key # k} /\ lock' = lock
  /\ k \in Requests' => k \in Requests \/ handles[k] = "cancelBefore"
  /\ handles'[k] = "cancelBefore" => handles[k] = "cancelBefore"
  /\ Idle(k)' \/ (tasks'[k].job = Job(k) /\ tasks'[k].out = tries[k])
  /\ tasks'[k].phase \in {"none", "waiting", "new"} /\ (kind # "qrmi" => tasks'[k].phase # "new")
  /\ Idle(k)' /\ up' = "up" => handles'[k] # "watching"
  /\ Settled(k) => Settled(k)'
  /\ kind \notin Remote /\ ~Idle(k)' => jobs'[<<k, tries[k]>>] \in Live
  /\ \A d \in Tries :
       /\ \/ jobs'[<<k, d>>] = jobs[<<k, d>>]
          \/ jobs[<<k, d>>] \in Live /\ jobs'[<<k, d>>] = "complete" /\ WorkOutput(k, d) \in assets'
          \/ /\ kind \notin Remote /\ d = tries[k] /\ jobs'[<<k, d>>] \in Live
             /\ \A e \in Abroad(k) : <<k, e>> \in stopped'
       /\ <<k, d>> \in stopped => <<k, d>> \in stopped'
       /\ <<k, d>> \in stopped' => <<k, d>> \in stopped \/ cancelled[k] > 0 \/ d < tries[k] \/ ByPidAlone
       /\ Queued(d) \in Sent(k)' => Queued(d) \in Sent(k) \/ (~Idle(k)' /\ d = Job(k))
       /\ Complete(d) \in Sent(k)' => Complete(d) \in Sent(k)

(* Taking a plan from the channel keeps what is known of its task. *)
LEMMA StartingKeeps ==
  ASSUME ExecutorInv, NEW k \in Keys, Starting(k)
  PROVE  Tried(k)' /\ Slot(k)' /\ Created(k)' /\ Asked(k)' /\ Accounted(k)' /\ Written(k)'
<1>1. Serving(k)
  BY DEF Starting
<1>2. /\ Types /\ KeyInv(k)
      /\ tries' = tries /\ held' = held /\ cancelled' = cancelled
      /\ stored' = stored /\ lost' = lost /\ kind' = kind /\ os' = os /\ storage' = storage
      /\ restarts' = restarts
      /\ Job(k)' = Job(k) /\ PlanJob(k)' = PlanJob(k) /\ (WritesItself' <=> WritesItself)
      /\ tries[k] \in Nat /\ stored[k] \in {0} \cup Tries /\ cancelled[k] \in Nat
      /\ k \in held => tries[k] \in Tries /\ Job(k) \in Tries
  BY <1>1, ServingView
<1>3. \A d \in Tries : /\ WorkOutput(k, d)' = WorkOutput(k, d) /\ Output(k, d)' = Output(k, d)
                       /\ path(Output(k, d))' = path(Output(k, d))
  BY <1>1, ServingView
<1>4. /\ Pending(k) /\ k \in held /\ Idle(k) /\ ~Pending(k)' /\ (\A p \in Plans' : p.key # k)
      /\ handles[k] = "cancelBefore" \/ k \in Requests => cancelled[k] > 0
      /\ (up' = "up" => up = "up")
  BY <1>2 DEF Starting, KeyInv, Slot, Pending, Asked, Serving
<1>5. /\ kind \notin Remote => jobs[<<k, tries[k]>>] = "none" /\ Job(k) = tries[k]
      /\ kind \in Remote => jobs[<<k, Job(k)>>] # "none"
      /\ Job(k) <= tries[k]
  BY <1>2, <1>4, TriesCounted DEF KeyInv, Created, Job, Tried
<1>6. \A d \in Tries :
        /\ jobs[<<k, d>>] # "none" => jobs'[<<k, d>>] # "none"
        /\ jobs'[<<k, d>>] # "none" => jobs[<<k, d>>] # "none" \/ d = tries[k]
        /\ jobs'[<<k, d>>] \in Live => jobs[<<k, d>>] \in Live \/ d = tries[k]
        /\ jobs'[<<k, d>>] = "complete" => jobs[<<k, d>>] = "complete" \/ WorkOutput(k, d) \in assets'
        /\ jobs'[<<k, d>>] = "cancelled" => jobs[<<k, d>>] = "cancelled"
        /\ jobs'[<<k, d>>] = "panicked" => jobs[<<k, d>>] = "panicked"
  BY DEF Starting, Live
<1>7. ~Idle(k)' => jobs'[<<k, Job(k)>>] # "none"
  BY <1>2, <1>4, <1>5, <1>6 DEF Starting, Live
<1>8. Tried(k)'
  BY <1>2, <1>4, <1>5, <1>6, <1>7 DEF KeyInv, Tried, Starting
<1>9. Slot(k)'
  <2>1. lock' # k /\ tasks'[k].phase \notin Calling
    BY <1>2, <1>4 DEF Starting, KeyInv, Slot, Calling, Idle
  <2>2. /\ kind # "qrmi" => tasks'[k].phase \in {"none", "waiting"}
        /\ tasks'[k].phase # "failed"
        /\ Idle(k)' \/ (tasks'[k].job = Job(k) /\ tasks'[k].out = tries[k])
        /\ Idle(k)' /\ up' = "up" => handles'[k] # "watching"
    BY DEF Starting
  <2> QED BY <2>1, <2>2, <1>2, <1>4 DEF Slot
<1>10. Created(k)'
  BY <1>2, <1>4, <1>6, <1>7, TriesCounted DEF KeyInv, Created
<1>11. Asked(k)'
  <2>1. kind = "inmemory" /\ ~Idle(k)' => jobs'[<<k, tries[k]>>] \in Live
    BY DEF Starting, Remote, Schedulers
  <2>2. tasks'[k].phase # "failed"
    BY DEF Starting
  <2> QED BY <2>1, <2>2, <1>2, <1>4 DEF KeyInv, Asked, Starting, Live, ByPidAlone
<1>12. Accounted(k)'
  <2>1. (\A d, e \in Abroad(k) : d = e) /\ (kind = "inmemory" => Abroad(k) = {})
    BY <1>2, <1>4 DEF KeyInv, Accounted
  <2>2. ASSUME NEW d \in Abroad(k)' PROVE d \in Abroad(k) \/ d = tries[k]
    BY <1>2, <1>6 DEF Abroad, Starting
  <2>3. tries[k] \notin Abroad(k) /\ tries[k] \in Abroad(k)' => Abroad(k)' \subseteq {tries[k]}
    BY <2>2, <1>2 DEF Abroad, Starting
  <2>4. \A d, e \in Abroad(k)' : d = e
    BY <2>1, <2>2, <2>3
  <2> QED BY <2>4, <1>2, <1>4 DEF Accounted
<1>13. Written(k)'
  <2>1. assets \subseteq assets'
    BY <1>1 DEF Serving
  <2>2. WritesItself => Registry[storage.work] = "file"
    BY <1>2, <1>4 DEF KeyInv, Written
  <2>3. \A d \in Tries : Complete(d) \in Sent(k)' => Complete(d) \in Sent(k)
    BY DEF Starting
  <2> QED BY <2>1, <2>2, <2>3, <1>2, <1>3, <1>4, <1>6 DEF KeyInv, Written
<1> QED BY <1>8, <1>9, <1>10, <1>11, <1>12, <1>13

(* A plan that waits has no result, so the first one is the only one. *)
LEMMA StartingSettles ==
  ASSUME ExecutorInv, NEW k \in Keys, Starting(k),
         SettleOnce(k)' /\ ~Settled(k) =>
           (Idle(k)' \/ ~Settled(k)') /\ \A i, j \in Terminal(sent'[k]) : i = j
  PROVE  Settling(k)' /\ Watched(k)'
<1>1. Serving(k) /\ tasks'[k].phase \in {"none", "waiting", "new"} /\ Pending(k) /\ ~Pending(k)'
  BY DEF Starting, Pending
<1>2. KeyInv(k) /\ (SettleOnce(k)' => SettleOnce(k))
  BY <1>1, ServingView
<1> QED BY <1>1, <1>2 DEF KeyInv, Settling, Watched

(* A request that came before its plan is served with the plan. *)
LEMMA StartingCancels ==
  ASSUME ExecutorInv, NEW k \in Keys, Starting(k),
         FirstLife' =>
           /\ handles'[k] = "watching" \/ (handles'[k] = "none" /\ Honoured(k)')
           /\ handles[k] = "cancelBefore" => Honoured(k)' \/ k \in Requests'
           /\ k \in Requests => k \in Requests'
           /\ Single(k) /\ ~(handles[k] = "cancelBefore" /\ k \in Requests) => Single(k)'
  PROVE  Cancelling(k)'
<1>1. Serving(k) /\ ~Pending(k)' /\ Pending(k)
  BY DEF Starting, Pending
<1>2. /\ KeyInv(k) /\ kind' = kind /\ held' = held /\ cancelled' = cancelled /\ tries' = tries
      /\ (FirstLife' => FirstLife) /\ k \in held /\ tries[k] \in Tries
  BY <1>1, ServingView
<1>3. Honoured(k) => Honoured(k)'
  <2>1. jobs'[<<k, tries[k]>>] = jobs[<<k, tries[k]>>] \/ jobs[<<k, tries[k]>>] \notin Ended \/ jobs[<<k, tries[k]>>] = "none"
    <3>1. kind \notin Remote => jobs[<<k, tries[k]>>] = "none"
      BY <1>1, <1>2 DEF KeyInv, Created
    <3> QED BY <3>1, <1>2 DEF Starting, Live, Ended
  <2>2. "none" \notin Ended
    BY DEF Ended
  <2> QED BY <2>1, <2>2, <1>2 DEF Honoured, Starting
<1>4. ASSUME FirstLife' PROVE FirstLife /\ (kind # "qrmi" /\ cancelled[k] = 1 => Single(k)')
  BY <1>2, <1>4 DEF KeyInv, Cancelling
<1> QED BY <1>1, <1>2, <1>3, <1>4 DEF KeyInv, Cancelling

(* What is known of a plan that is taken from the channel. *)
LEMMA PlanOf ==
  ASSUME ExecutorInv, NEW plan, NextPlan(plan), NEW k, k = plan.key
  PROVE  /\ up = "up" /\ plan \in TaskPlan /\ k \in Keys
         /\ plans' \in Seq(TaskPlan) /\ PlansDistinct' /\ Plans' = {p \in Plans : p.key # k}
         /\ KeyInv(k) /\ Pending(k) /\ k \in held /\ Idle(k) /\ handles[k] # "watching"
         /\ plan.out = tries[k] /\ plan.job = PlanJob(k) /\ tries[k] \in Tries /\ Job(k) \in Tries
<1>1. Types /\ PlansDistinct
  BY DEF ExecutorInv
<1>2. /\ up = "up" /\ plan \in TaskPlan /\ plan \in Plans
      /\ plans' \in Seq(TaskPlan) /\ PlansDistinct' /\ Plans' = {p \in Plans : p.key # plan.key}
  BY <1>1, PlanTaken
<1>3. k \in Keys
  BY <1>2 DEF TaskPlan
<1>4. KeyInv(k) /\ Pending(k)
  BY <1>2, <1>3 DEF ExecutorInv, Pending
<1>5. k \in held /\ plan.out = tries[k] /\ plan.job = PlanJob(k) /\ Idle(k) /\ handles[k] # "watching"
  BY <1>2, <1>4 DEF KeyInv, Slot
<1>6. tries[k] \in Tries /\ Job(k) \in Tries
  BY <1>1, <1>3, <1>4, <1>5, TriesInRange DEF KeyInv
<1> QED BY <1>2, <1>3, <1>4, <1>5, <1>6

(* What a task of process_tasks and its registration become. *)
LEMMA TaskSet ==
  ASSUME Types, NEW k \in Keys
  PROVE  /\ \A t \in TaskStates :
              tasks' = [tasks EXCEPT ![k] = t] =>
                /\ tasks' \in [Keys -> TaskStates] /\ tasks'[k] = t
                /\ \A u \in Keys \ {k} : tasks'[u] = tasks[u]
         /\ \A p \in Phases :
              tasks' = [tasks EXCEPT ![k].phase = p] =>
                /\ tasks' \in [Keys -> TaskStates]
                /\ tasks'[k].phase = p /\ tasks'[k].job = tasks[k].job /\ tasks'[k].out = tasks[k].out
                /\ \A u \in Keys \ {k} : tasks'[u] = tasks[u]
         /\ \A r \in BOOLEAN :
              tasks' = [tasks EXCEPT ![k].ran = r] =>
                /\ tasks' \in [Keys -> TaskStates]
                /\ tasks'[k].phase = tasks[k].phase
                /\ tasks'[k].job = tasks[k].job /\ tasks'[k].out = tasks[k].out
                /\ \A u \in Keys \ {k} : tasks'[u] = tasks[u]
         /\ \A h \in {"none", "watching", "cancelBefore"} :
              handles' = [handles EXCEPT ![k] = h] =>
                /\ handles' \in [Keys -> {"none", "watching", "cancelBefore"}] /\ handles'[k] = h
                /\ \A u \in Keys \ {k} : handles'[u] = handles[u]
         /\ NoTask \in TaskStates /\ NoTask.phase = "none"
<1>1. tasks \in [Keys -> TaskStates] /\ handles \in [Keys -> {"none", "watching", "cancelBefore"}]
  BY DEF Types
<1>2. tasks[k] \in [phase : Phases, job : {0} \cup Tries, out : {0} \cup Tries, ran : BOOLEAN]
  BY <1>1 DEF TaskStates
<1>3. ASSUME NEW p \in Phases, tasks' = [tasks EXCEPT ![k].phase = p]
      PROVE  /\ tasks' \in [Keys -> TaskStates]
             /\ tasks'[k].phase = p /\ tasks'[k].job = tasks[k].job /\ tasks'[k].out = tasks[k].out
             /\ \A u \in Keys \ {k} : tasks'[u] = tasks[u]
  <2> DEFINE t == [tasks[k] EXCEPT !.phase = p]
  <2>1. t \in TaskStates /\ t.phase = p /\ t.job = tasks[k].job /\ t.out = tasks[k].out
    BY <1>2 DEF TaskStates
  <2>2. tasks' = [tasks EXCEPT ![k] = t]
    BY <1>3
  <2> HIDE DEF t
  <2> QED BY <2>1, <2>2, <1>1
<1>4. ASSUME NEW r \in BOOLEAN, tasks' = [tasks EXCEPT ![k].ran = r]
      PROVE  /\ tasks' \in [Keys -> TaskStates]
             /\ tasks'[k].phase = tasks[k].phase
             /\ tasks'[k].job = tasks[k].job /\ tasks'[k].out = tasks[k].out
             /\ \A u \in Keys \ {k} : tasks'[u] = tasks[u]
  <2> DEFINE t == [tasks[k] EXCEPT !.ran = r]
  <2>1. t \in TaskStates /\ t.phase = tasks[k].phase /\ t.job = tasks[k].job /\ t.out = tasks[k].out
    BY <1>2 DEF TaskStates
  <2>2. tasks' = [tasks EXCEPT ![k] = t]
    BY <1>4
  <2> HIDE DEF t
  <2> QED BY <2>1, <2>2, <1>1
<1>5. NoTask \in TaskStates /\ NoTask.phase = "none"
  BY DEF NoTask, TaskStates, Phases
<1> QED BY <1>1, <1>3, <1>4, <1>5

-----------------------------------------------------------------------------
(* The in-memory executor. *)

(* A request that finds a handle ends the task for its callers. *)
LEMMA InMemoryCancelKeeps ==
  ASSUME ExecutorInv, NEW k \in Keys, InMemoryCancel(k) PROVE ExecutorInv'
<1>0. Types /\ KeyInv(k) /\ PlansDistinct
  BY DEF ExecutorInv
<1>1. /\ kind = "inmemory" /\ NextCancel(k)
      /\ up' = up /\ tasks' = tasks /\ lock' = lock /\ plans' = plans /\ api' = api /\ pids' = pids
      /\ assets' = assets /\ stored' = stored /\ lost' = lost /\ setup' = setup /\ restarts' = restarts
      /\ NoFault
  BY DEF InMemoryCancel, budget, NoFault
<1>2. /\ up = "up" /\ k \in Requests /\ cancels' \in Seq(Keys) /\ Requests = {k} \cup Requests'
      /\ \A u \in Keys : Single(u) => Single(u)'
      /\ cancelled[k] > 0
  BY <1>0, <1>1, CancelTaken DEF KeyInv, Asked
<1>3. handles[k] = "watching" => ~Idle(k) /\ tasks[k].job = Job(k) /\ Job(k) \in Tries /\ <<k, Job(k)>> \in Jobs
  BY <1>0, <1>2, TriesInRange DEF KeyInv, Slot, Jobs
<1>4. /\ \/ handles' = handles
         \/ handles[k] = "watching" /\ handles' = [handles EXCEPT ![k] = "none"]
      /\ stopped' = stopped \/ (handles[k] = "watching" /\ stopped' = stopped \cup {<<k, Job(k)>>})
      /\ \/ jobs' = jobs
         \/ /\ handles[k] = "watching" /\ jobs[<<k, Job(k)>>] = "queued"
            /\ jobs' = [jobs EXCEPT ![<<k, Job(k)>>] = "cancelled"]
      /\ sent' = sent \/ Send(k, <<Cancelled>>)
  BY <1>3 DEF InMemoryCancel
<1>5. /\ sent' \in [Keys -> Seq(Events)] /\ (\A u \in Keys : u # k => sent'[u] = sent[u])
      /\ Settled(k) => Settled(k)'
      /\ \A d \in Tries : /\ Queued(d) \in Sent(k)' => Queued(d) \in Sent(k)
                          /\ Complete(d) \in Sent(k)' => Complete(d) \in Sent(k)
  <2>1. CASE sent' = sent
    BY <2>1, <1>0 DEF Types, Sent, Settled
  <2>2. CASE Send(k, <<Cancelled>>)
    <3>1. Cancelled \in Events
      BY EventKinds
    <3>2. /\ sent' \in [Keys -> Seq(Events)] /\ (\A u \in Keys : u # k => sent'[u] = sent[u])
          /\ Sent(k)' = Sent(k) \cup {Cancelled} /\ (Settled(k) => Settled(k)')
      BY <2>2, <3>1, <1>0, OneSent
    <3> QED BY <3>2, EventKinds
  <2> QED BY <2>1, <2>2, <1>4
<1>6. Serving(k)
  <2>1. /\ handles' \in [Keys -> {"none", "watching", "cancelBefore"}]
        /\ \A u \in Keys \ {k} : handles'[u] = handles[u]
    BY <1>0, <1>4 DEF Types
  <2>2. /\ jobs' \in [Processes -> {"none"} \cup Live \cup Ended] /\ stopped' \in SUBSET Stoppable
        /\ \A u \in Keys, d \in Tries :
             /\ u # k => jobs'[<<u, d>>] = jobs[<<u, d>>] /\ (<<u, d>> \in stopped' <=> <<u, d>> \in stopped)
             /\ jobs[<<u, d>>] = "panicked" => jobs'[<<u, d>>] = "panicked"
    <3>1. \A u \in Keys, d \in Tries : <<u, d>> \in Processes
      BY DEF Processes, Jobs
    <3>2. stopped' \in SUBSET Stoppable
      BY <1>0, <1>3, <1>4 DEF Types, Stoppable, Processes
    <3> QED BY <3>1, <3>2, <1>0, <1>3, <1>4 DEF Types, Ended
  <2> QED BY <2>1, <2>2, <1>0, <1>1, <1>2, <1>5 DEF Serving, Types, PlansDistinct, Plans
<1>7. Following(k)
  <2>1. /\ handles'[k] # "watching" /\ (handles'[k] = "cancelBefore" => handles[k] = "cancelBefore")
    BY <1>0 DEF InMemoryCancel, Types
  <2>2. \A d \in Tries : <<k, d>> \in Processes
    BY DEF Processes, Jobs
  <2>3. \A d \in Tries :
          /\ \/ jobs'[<<k, d>>] = jobs[<<k, d>>]
             \/ jobs[<<k, d>>] = "queued" /\ jobs'[<<k, d>>] = "cancelled" /\ k \in Requests
          /\ <<k, d>> \in stopped => <<k, d>> \in stopped'
    BY <2>2, <1>0, <1>2, <1>3, <1>4 DEF Types
  <2> QED BY <2>1, <2>3, <1>0, <1>1, <1>2, <1>5, <1>6 DEF Following, KeyInv, Slot, Idle
<1>8. Settling(k)'
  <2>1. ~SettleOnce(k)'
    BY <1>1, <1>2, <1>6, ServingView DEF SettleOnce, Remote, Schedulers
  <2> QED BY <2>1 DEF Settling
<1>9. kind \notin Remote
  BY <1>1 DEF Remote, Schedulers
<1> QED BY <1>1, <1>6, <1>7, <1>8, <1>9, FollowingKeeps, LocalKept, ServingKeeps DEF KeyInv

(* The end of a job is reported, or its abort ends process_tasks. *)
LEMMA InMemoryFinishKeeps ==
  ASSUME ExecutorInv, NEW k \in Keys, InMemoryFinish(k) PROVE ExecutorInv'
<1>0. Types /\ KeyInv(k) /\ PlansDistinct
  BY DEF ExecutorInv
<1>1. /\ kind = "inmemory" /\ up = "up" /\ tasks[k].phase = "waiting"
      /\ tasks' = [tasks EXCEPT ![k] = NoTask]
      /\ lock' = lock /\ plans' = plans /\ cancels' = cancels /\ api' = api /\ jobs' = jobs /\ pids' = pids
      /\ stopped' = stopped /\ stored' = stored /\ lost' = lost /\ setup' = setup /\ restarts' = restarts
      /\ Fault \/ NoFault
  BY DEF InMemoryFinish
<1>2. /\ kind \notin Remote /\ ~Idle(k) /\ k \in held
      /\ tasks[k].job = tries[k] /\ tasks[k].out = tries[k] /\ tries[k] \in Tries
  BY <1>0, <1>1, TriesInRange DEF KeyInv, Slot, Idle, Job, Remote, Schedulers
<1>3. \/ /\ Aborted(jobs[<<k, tries[k]>>]) /\ up' = "dead" /\ handles' = handles /\ sent' = sent /\ assets' = assets
      \/ /\ up' = up /\ handles' = [handles EXCEPT ![k] = "none"]
         /\ Send(k, <<Error>>) /\ assets' = assets
      \/ /\ up' = up /\ handles' = [handles EXCEPT ![k] = "none"]
         /\ Send(k, <<Complete(tries[k])>>) /\ assets' = save_assets({Output(k, tries[k])})
  BY <1>2 DEF InMemoryFinish
<1>4. Output(k, tries[k]) \in AssetSpecs /\ assets \subseteq AssetSpecs
  BY <1>0, <1>2, AssetsTyped DEF Types
<1>5. /\ sent' \in [Keys -> Seq(Events)] /\ (\A u \in Keys : u # k => sent'[u] = sent[u])
      /\ Settled(k) => Settled(k)'
      /\ \A d \in Tries : /\ Queued(d) \in Sent(k)' => Queued(d) \in Sent(k)
                          /\ Complete(d) \in Sent(k)' => Complete(d) \in Sent(k) \/ Output(k, d) \in assets'
      /\ ~Settled(k) => \A i, j \in Terminal(sent'[k]) : i = j
  <2>1. CASE sent' = sent
    BY <2>1, <1>0, NoneSent DEF Settled
  <2>2. CASE Send(k, <<Error>>)
    <3>1. /\ sent' \in [Keys -> Seq(Events)] /\ (\A u \in Keys : u # k => sent'[u] = sent[u])
          /\ Sent(k)' = Sent(k) \cup {Error} /\ (Settled(k) => Settled(k)')
          /\ ~Settled(k) => \A i, j \in Terminal(sent'[k]) : i = j
      BY <2>2, <1>0, OneSent, EventKinds
    <3> QED BY <3>1, EventKinds
  <2>3. CASE Send(k, <<Complete(tries[k])>>) /\ assets' = save_assets({Output(k, tries[k])})
    <3>1. /\ sent' \in [Keys -> Seq(Events)] /\ (\A u \in Keys : u # k => sent'[u] = sent[u])
          /\ Sent(k)' = Sent(k) \cup {Complete(tries[k])} /\ (Settled(k) => Settled(k)')
          /\ ~Settled(k) => \A i, j \in Terminal(sent'[k]) : i = j
      BY <2>3, <1>0, <1>2, OneSent, EventKinds
    <3>2. Output(k, tries[k]) \in assets'
      BY <2>3 DEF save_assets, storage_save
    <3> QED BY <3>1, <3>2, <1>2, EventKinds
  <2> QED BY <2>1, <2>2, <2>3, <1>3
<1>6. /\ assets \subseteq assets' /\ assets' \subseteq AssetSpecs
      /\ handles' \in [Keys -> {"none", "watching", "cancelBefore"}]
      /\ \A u \in Keys \ {k} : handles'[u] = handles[u]
      /\ handles'[k] \in {handles[k], "none"} /\ (up' = "up" => handles'[k] = "none")
      /\ up' \in {"up", "dead"}
  BY <1>0, <1>1, <1>3, <1>4 DEF Types, save_assets, storage_save
<1>7. tasks' \in [Keys -> TaskStates] /\ Idle(k)' /\ tasks'[k].phase = "none" /\ \A u \in Keys \ {k} : tasks'[u] = tasks[u]
  BY <1>0, <1>1, TaskSet DEF Idle
<1>8. Serving(k)
  BY <1>0, <1>1, <1>5, <1>6, <1>7 DEF Serving, Types, PlansDistinct, Plans, Requests, Single
<1>9. Following(k)
  <2>1. lock # k /\ "none" \notin Calling
    BY <1>0, <1>1 DEF KeyInv, Slot, Calling
  <2> QED BY <2>1, <1>1, <1>2, <1>5, <1>6, <1>7, <1>8 DEF Following, Requests
<1>10. Settling(k)'
  BY <1>1, <1>2, <1>5, <1>7, <1>9, FinalSettling
<1>11. up' = up \/ ServiceFailsOnlyOnCancel'
  <2>1. CASE Aborted(jobs[<<k, tries[k]>>])
    <3>1. \/ cancelled[k] > 0
          \/ <<k, tries[k]>> \in Jobs /\ jobs[<<k, tries[k]>>] = "panicked"
      BY <2>1, <1>0, <1>1, <1>2 DEF KeyInv, Asked, Aborted, Jobs
    <3>2. cancelled' = cancelled /\ jobs' = jobs /\ kind' = kind
      BY <1>1 DEF api, setup
    <3> QED BY <3>1, <3>2, <1>1 DEF ServiceFailsOnlyOnCancel
  <2> QED BY <2>1, <1>3
<1> QED BY <1>2, <1>8, <1>9, <1>10, <1>11, FollowingKeeps, LocalKept, ServingKeeps DEF KeyInv

(* start_task *)
LEMMA InMemoryStartKeeps ==
  ASSUME ExecutorInv, NEW plan, InMemoryStart(plan) PROVE ExecutorInv'
<1> DEFINE k == plan.key
<1>0. Types /\ PlansDistinct
  BY DEF ExecutorInv
<1>1. /\ kind = "inmemory" /\ NextPlan(plan) /\ (Fault \/ NoFault)
      /\ up' = up /\ lock' = lock /\ cancels' = cancels /\ api' = api /\ pids' = pids
      /\ assets' = assets /\ stopped' = stopped
      /\ stored' = stored /\ lost' = lost /\ setup' = setup /\ restarts' = restarts
  BY DEF InMemoryStart
<1>2. /\ up = "up" /\ plan \in TaskPlan /\ k \in Keys
      /\ plans' \in Seq(TaskPlan) /\ PlansDistinct' /\ Plans' = {p \in Plans : p.key # k}
      /\ KeyInv(k) /\ Pending(k) /\ k \in held /\ Idle(k) /\ handles[k] # "watching"
      /\ plan.out = tries[k] /\ tries[k] \in Tries
  BY <1>1, PlanOf
<1>3. /\ kind \notin Remote
      /\ Job(k) = tries[k] /\ jobs[<<k, tries[k]>>] = "none" /\ Abroad(k) = {}
  <2>1. kind \notin Remote
    BY <1>1 DEF Remote, Schedulers
  <2> QED BY <2>1, <1>1, <1>2 DEF KeyInv, Created, Accounted, Job
<1>4. \/ Send(k, <<Running, Error>>) /\ handles' = handles /\ tasks' = tasks /\ jobs' = jobs
      \/ /\ Send(k, <<Running>>)
         /\ jobs' = [jobs EXCEPT ![<<k, tries[k]>>] = "queued"]
         /\ handles' = [handles EXCEPT ![k] = "watching"]
         /\ tasks' = [tasks EXCEPT ![k] = [Task("waiting", plan) EXCEPT !.job = plan.out]]
  BY <1>2 DEF InMemoryStart
<1> DEFINE t == [Task("waiting", plan) EXCEPT !.job = plan.out]
<1>5. t \in TaskStates /\ t.phase = "waiting" /\ t.job = tries[k] /\ t.out = tries[k]
  BY <1>2 DEF Task, TaskPlan, TaskStates, Phases
<1> HIDE DEF k, t
<1>6. /\ sent' \in [Keys -> Seq(Events)] /\ (\A u \in Keys : u # k => sent'[u] = sent[u])
      /\ Settled(k) => Settled(k)'
      /\ \A d \in Tries : /\ Queued(d) \in Sent(k)' => Queued(d) \in Sent(k)
                          /\ Complete(d) \in Sent(k)' => Complete(d) \in Sent(k)
      /\ ~Settled(k) => /\ \A i, j \in Terminal(sent'[k]) : i = j
                        /\ tasks' = tasks \/ ~Settled(k)'
  <2>1. CASE Send(k, <<Running, Error>>) /\ tasks' = tasks
    <3>1. /\ sent' \in [Keys -> Seq(Events)] /\ (\A u \in Keys : u # k => sent'[u] = sent[u])
          /\ Sent(k)' = Sent(k) \cup {Running, Error} /\ (Settled(k) => Settled(k)')
          /\ ~Settled(k) => \A i, j \in Terminal(sent'[k]) : i = j
      BY <2>1, <1>0, <1>2, TwoSent, EventKinds
    <3> QED BY <3>1, <2>1, EventKinds
  <2>2. CASE Send(k, <<Running>>)
    <3>1. /\ sent' \in [Keys -> Seq(Events)] /\ (\A u \in Keys : u # k => sent'[u] = sent[u])
          /\ Sent(k)' = Sent(k) \cup {Running} /\ (Settled(k) <=> Settled(k)')
          /\ ~Settled(k) => \A i, j \in Terminal(sent'[k]) : i = j
      BY <2>2, <1>0, <1>2, OneSent, EventKinds
    <3> QED BY <3>1, EventKinds
  <2> QED BY <2>1, <2>2, <1>4
<1>7. /\ tasks' \in [Keys -> TaskStates] /\ \A u \in Keys \ {k} : tasks'[u] = tasks[u]
      /\ handles' \in [Keys -> {"none", "watching", "cancelBefore"}]
      /\ \A u \in Keys \ {k} : handles'[u] = handles[u]
      /\ \/ tasks' = tasks /\ handles' = handles /\ jobs' = jobs
         \/ /\ tasks'[k] = t /\ handles'[k] = "watching"
            /\ jobs' = [jobs EXCEPT ![<<k, tries[k]>>] = "queued"]
  <2>1. tasks \in [Keys -> TaskStates] /\ handles \in [Keys -> {"none", "watching", "cancelBefore"}]
    BY <1>0 DEF Types
  <2>2. CASE tasks' = tasks /\ handles' = handles /\ jobs' = jobs
    BY <2>1, <2>2
  <2>3. CASE /\ tasks' = [tasks EXCEPT ![k] = t] /\ handles' = [handles EXCEPT ![k] = "watching"]
             /\ jobs' = [jobs EXCEPT ![<<k, tries[k]>>] = "queued"]
    <3>1. /\ tasks' \in [Keys -> TaskStates] /\ tasks'[k] = t
          /\ \A u \in Keys \ {k} : tasks'[u] = tasks[u]
      BY <2>3, <1>0, <1>2, <1>5, TaskSet
    <3>2. /\ handles' \in [Keys -> {"none", "watching", "cancelBefore"}] /\ handles'[k] = "watching"
          /\ \A u \in Keys \ {k} : handles'[u] = handles[u]
      BY <2>1, <2>3, <1>2
    <3> QED BY <2>3, <3>1, <3>2
  <2> QED BY <2>2, <2>3, <1>4 DEF t
<1>8. /\ jobs' \in [Processes -> {"none"} \cup Live \cup Ended]
      /\ \A u \in Keys, d \in Tries :
           /\ jobs'[<<u, d>>] = jobs[<<u, d>>] \/ (u = k /\ d = tries[k] /\ jobs'[<<u, d>>] = "queued")
           /\ jobs[<<u, d>>] = "panicked" => jobs'[<<u, d>>] = "panicked"
      /\ tasks' = tasks \/ jobs'[<<k, tries[k]>>] = "queued"
  <2>1. \A u \in Keys, d \in Tries : <<u, d>> \in Processes
    BY DEF Processes, Jobs
  <2>2. jobs \in [Processes -> {"none"} \cup Live \cup Ended]
    BY <1>0 DEF Types
  <2> QED BY <2>1, <2>2, <1>2, <1>3, <1>7 DEF Live
<1>9. Serving(k)
  BY <1>0, <1>1, <1>2, <1>6, <1>7, <1>8, SMTT(30) DEF Serving, Types, Requests, Single
<1>10. Starting(k)
  BY <1>1, <1>2, <1>3, <1>5, <1>6, <1>7, <1>8, <1>9, SMTT(30) DEF Starting, Idle, Live, Requests
<1>11. Settling(k)' /\ Watched(k)'
  <2>1. tasks' = tasks => Idle(k)'
    BY <1>2 DEF Idle
  <2> QED BY <2>1, <1>2, <1>6, <1>10, StartingSettles
<1> QED BY <1>1, <1>2, <1>3, <1>9, <1>10, <1>11, StartingKeeps, LocalKept, ServingKeeps DEF KeyInv

-----------------------------------------------------------------------------
(* The subprocess executor. *)

(* A request aborts the wait, unless it has already returned. *)
LEMMA SubprocessCancelKeeps ==
  ASSUME ExecutorInv, NEW k \in Keys, SubprocessCancel(k) PROVE ExecutorInv'
<1>0. Types /\ KeyInv(k) /\ PlansDistinct
  BY DEF ExecutorInv
<1>1. /\ kind = "subprocess" /\ NextCancel(k)
      /\ up' = up /\ lock' = lock /\ plans' = plans /\ api' = api /\ pids' = pids /\ jobs' = jobs
      /\ assets' = assets /\ stopped' = stopped /\ stored' = stored /\ lost' = lost /\ setup' = setup
      /\ restarts' = restarts /\ NoFault
  BY DEF SubprocessCancel, budget, NoFault, outside
<1>2. /\ up = "up" /\ k \in Requests /\ cancels' \in Seq(Keys) /\ Requests = {k} \cup Requests'
      /\ \A u \in Keys : Single(u) => Single(u)'
      /\ cancelled[k] > 0
  BY <1>0, <1>1, CancelTaken DEF KeyInv, Asked
<1>3. /\ handles[k] = "watching" => ~Idle(k)
      /\ lock # k
  BY <1>0, <1>1, <1>2 DEF KeyInv, Slot, Calling
<1>4. \/ handles[k] # "watching" /\ handles' = handles /\ tasks' = tasks /\ sent' = sent
      \/ /\ handles[k] = "watching" /\ handles' = [handles EXCEPT ![k] = "none"]
         /\ \E phase \in {"failed", "waiting"} : tasks' = [tasks EXCEPT ![k].phase = phase]
         /\ Send(k, <<Cancelled>>)
  BY DEF SubprocessCancel
<1>5. /\ sent' \in [Keys -> Seq(Events)] /\ (\A u \in Keys : u # k => sent'[u] = sent[u])
      /\ Settled(k) => Settled(k)'
      /\ \A d \in Tries : /\ Queued(d) \in Sent(k)' => Queued(d) \in Sent(k)
                          /\ Complete(d) \in Sent(k)' => Complete(d) \in Sent(k)
  <2>1. CASE sent' = sent
    BY <2>1, <1>0, NoneSent
  <2>2. CASE Send(k, <<Cancelled>>)
    <3>1. /\ sent' \in [Keys -> Seq(Events)] /\ (\A u \in Keys : u # k => sent'[u] = sent[u])
          /\ Sent(k)' = Sent(k) \cup {Cancelled} /\ (Settled(k) => Settled(k)')
      BY <2>2, <1>0, OneSent, EventKinds
    <3> QED BY <3>1, EventKinds
  <2> QED BY <2>1, <2>2, <1>4
<1>6. /\ handles' \in [Keys -> {"none", "watching", "cancelBefore"}]
      /\ \A u \in Keys \ {k} : handles'[u] = handles[u]
      /\ handles'[k] # "watching" /\ (handles'[k] = "cancelBefore" => handles[k] = "cancelBefore")
  BY <1>0, <1>4 DEF Types
<1>7. /\ tasks' \in [Keys -> TaskStates] /\ \A u \in Keys \ {k} : tasks'[u] = tasks[u]
      /\ \/ tasks' = tasks
         \/ /\ ~Idle(k) /\ tasks'[k].phase \in {"failed", "waiting"}
            /\ tasks'[k].job = tasks[k].job /\ tasks'[k].out = tasks[k].out
  <2>1. "failed" \in Phases /\ "waiting" \in Phases /\ tasks \in [Keys -> TaskStates]
    BY <1>0 DEF Phases, Types
  <2> QED BY <2>1, <1>0, <1>3, <1>4, TaskSet
<1>8. Serving(k)
  BY <1>0, <1>1, <1>2, <1>5, <1>6, <1>7 DEF Serving, Types, PlansDistinct, Plans
<1>9. Following(k)
  BY <1>0, <1>1, <1>2, <1>3, <1>5, <1>6, <1>7, <1>8 DEF Following, KeyInv, Slot, Idle, Calling
<1>10. Settling(k)'
  <2>1. ~SettleOnce(k)'
    BY <1>1, <1>2, <1>8, ServingView DEF SettleOnce, Remote, Schedulers
  <2> QED BY <2>1 DEF Settling
<1>11. kind \notin Remote
  BY <1>1 DEF Remote, Schedulers
<1> QED BY <1>1, <1>8, <1>9, <1>10, <1>11, FollowingKeeps, LocalKept, ServingKeeps DEF KeyInv

(* The wait for a worker ends, or was aborted. *)
LEMMA SubprocessFinishKeeps ==
  ASSUME ExecutorInv, NEW k \in Keys, SubprocessFinish(k) PROVE ExecutorInv'
<1>0. Types /\ KeyInv(k) /\ PlansDistinct
  BY DEF ExecutorInv
<1>1. /\ kind = "subprocess" /\ up = "up" /\ tasks[k].phase \in {"failed", "waiting"}
      /\ tasks' = [tasks EXCEPT ![k] = NoTask]
      /\ up' = up /\ lock' = lock /\ plans' = plans /\ cancels' = cancels /\ api' = api /\ jobs' = jobs /\ pids' = pids
      /\ stopped' = stopped /\ stored' = stored /\ lost' = lost /\ setup' = setup /\ restarts' = restarts
      /\ Fault \/ NoFault
  BY DEF SubprocessFinish
<1>2. /\ kind \notin Remote /\ ~Idle(k) /\ k \in held /\ WritesItself
      /\ tasks[k].job = tries[k] /\ tasks[k].out = tries[k] /\ tries[k] \in Tries
      /\ tasks[k].phase = "failed" => handles[k] # "watching"
  BY <1>0, <1>1, TriesInRange DEF KeyInv, Slot, Idle, Job, Remote, Schedulers, WritesItself
<1>3. \/ /\ handles' = handles \/ handles' = [handles EXCEPT ![k] = "none"]
         /\ handles' = handles => handles[k] # "watching"
         /\ Send(k, <<Error>>) /\ assets' = assets
      \/ /\ handles' = [handles EXCEPT ![k] = "none"] /\ jobs[<<k, tries[k]>>] = "complete"
         /\ Send(k, <<Complete(tries[k])>>) /\ assets' = TransferOutput(k, tries[k]).assets
  <2>1. handles' = [handles EXCEPT ![k] = "none"] /\ handles' = handles => handles[k] # "watching"
    BY <1>0 DEF Types
  <2> QED BY <2>1, <1>2 DEF SubprocessFinish
<1>4. /\ TransferOutput(k, tries[k]).assets \subseteq AssetSpecs /\ assets \subseteq AssetSpecs
      /\ assets \subseteq TransferOutput(k, tries[k]).assets
      /\ jobs[<<k, tries[k]>>] = "complete" => Output(k, tries[k]) \in TransferOutput(k, tries[k]).assets
  <2>1. jobs[<<k, tries[k]>>] = "complete" => WorkOutput(k, tries[k]) \in assets
    BY <1>0, <1>2 DEF KeyInv, Written
  <2> QED BY <2>1, <1>0, <1>2, AssetsTyped DEF Types
<1>5. /\ sent' \in [Keys -> Seq(Events)] /\ (\A u \in Keys : u # k => sent'[u] = sent[u])
      /\ Settled(k) => Settled(k)'
      /\ \A d \in Tries : /\ Queued(d) \in Sent(k)' => Queued(d) \in Sent(k)
                          /\ Complete(d) \in Sent(k)' => Complete(d) \in Sent(k) \/ Output(k, d) \in assets'
      /\ ~Settled(k) => \A i, j \in Terminal(sent'[k]) : i = j
  <2>1. CASE Send(k, <<Error>>)
    <3>1. /\ sent' \in [Keys -> Seq(Events)] /\ (\A u \in Keys : u # k => sent'[u] = sent[u])
          /\ Sent(k)' = Sent(k) \cup {Error} /\ (Settled(k) => Settled(k)')
          /\ ~Settled(k) => \A i, j \in Terminal(sent'[k]) : i = j
      BY <2>1, <1>0, OneSent, EventKinds
    <3> QED BY <3>1, EventKinds
  <2>2. CASE /\ Send(k, <<Complete(tries[k])>>) /\ assets' = TransferOutput(k, tries[k]).assets
             /\ jobs[<<k, tries[k]>>] = "complete"
    <3>1. /\ sent' \in [Keys -> Seq(Events)] /\ (\A u \in Keys : u # k => sent'[u] = sent[u])
          /\ Sent(k)' = Sent(k) \cup {Complete(tries[k])} /\ (Settled(k) => Settled(k)')
          /\ ~Settled(k) => \A i, j \in Terminal(sent'[k]) : i = j
      BY <2>2, <1>0, <1>2, OneSent, EventKinds
    <3>2. Output(k, tries[k]) \in assets'
      BY <2>2, <1>4
    <3> QED BY <3>1, <3>2, <1>2, EventKinds
  <2> QED BY <2>1, <2>2, <1>3
<1>6. /\ assets \subseteq assets' /\ assets' \subseteq AssetSpecs
      /\ handles' \in [Keys -> {"none", "watching", "cancelBefore"}]
      /\ \A u \in Keys \ {k} : handles'[u] = handles[u]
      /\ handles'[k] \in {handles[k], "none"} /\ handles'[k] # "watching"
  BY <1>0, <1>3, <1>4 DEF Types
<1>7. tasks' \in [Keys -> TaskStates] /\ Idle(k)' /\ tasks'[k].phase = "none" /\ \A u \in Keys \ {k} : tasks'[u] = tasks[u]
  BY <1>0, <1>1, TaskSet DEF Idle
<1>8. Serving(k)
  BY <1>0, <1>1, <1>5, <1>6, <1>7 DEF Serving, Types, PlansDistinct, Plans, Requests, Single
<1>9. Following(k)
  <2>1. lock # k /\ "none" \notin Calling
    BY <1>0, <1>1 DEF KeyInv, Slot, Calling
  <2> QED BY <2>1, <1>1, <1>2, <1>5, <1>6, <1>7, <1>8 DEF Following, Requests
<1>10. Settling(k)'
  BY <1>1, <1>2, <1>5, <1>7, <1>9, FinalSettling
<1> QED BY <1>1, <1>2, <1>8, <1>9, <1>10, FollowingKeeps, LocalKept, ServingKeeps DEF KeyInv

(* start_task: the worker of an earlier lifetime is killed, and a new one  *)
(* is spawned.                                                             *)
LEMMA SubprocessStartKeeps ==
  ASSUME ExecutorInv, NEW plan, SubprocessStart(plan) PROVE ExecutorInv'
<1> DEFINE k == plan.key
           old == IF plan.job = 0 THEN {} ELSE OriginalProcess(<<k, plan.job>>)
<1>0. Types /\ PlansDistinct
  BY DEF ExecutorInv
<1>1. /\ kind = "subprocess" /\ NextPlan(plan) /\ (Fault \/ NoFault)
      /\ lock' = lock /\ cancels' = cancels /\ api' = api
      /\ stored' = stored /\ lost' = lost /\ setup' = setup /\ restarts' = restarts
      /\ KillFails(plan, old) \/ SpawnFails(plan, old) \/ Spawns(plan, old)
  BY DEF SubprocessStart, KillFails, SpawnFails, Spawns
<1>2. /\ up = "up" /\ plan \in TaskPlan /\ k \in Keys
      /\ plans' \in Seq(TaskPlan) /\ PlansDistinct' /\ Plans' = {p \in Plans : p.key # k}
      /\ KeyInv(k) /\ Pending(k) /\ k \in held /\ Idle(k) /\ handles[k] # "watching"
      /\ plan.out = tries[k] /\ tries[k] \in Tries /\ plan.job = PlanJob(k)
  BY <1>1, PlanOf
<1>3. /\ kind \notin Remote /\ WritesItself /\ plan.job = stored[k]
      /\ Job(k) = tries[k] /\ jobs[<<k, tries[k]>>] = "none" /\ Abroad(k) \subseteq {stored[k]}
      /\ stored[k] \in {0} \cup Tries /\ stored[k] < tries[k] /\ (stored[k] # 0 => restarts > 0)
  <2>1. kind \notin Remote
    BY <1>1 DEF Remote, Schedulers
  <2>2. stored[k] \in {0} \cup Tries /\ restarts \in Nat
    BY <1>0, <1>2, TriesCounted DEF Types
  <2> QED BY <2>1, <2>2, <1>1, <1>2 DEF KeyInv, Created, Accounted, Tried, Job, PlanJob, WritesItself
<1>4. /\ old \subseteq Processes /\ (old # {} => stored[k] \in Tries)
      /\ os = "linux" => old \subseteq {<<k, stored[k]>>}
      /\ os # "linux" /\ stored[k] # 0 => ByPidAlone
      /\ \A j \in old : jobs[j] \in Live
      /\ \A d \in Abroad(k) : <<k, d>> \in old
  <2>1. \A j : /\ OriginalProcess(j) \subseteq Processes /\ (os = "linux" => OriginalProcess(j) \subseteq {j})
               /\ \A i \in OriginalProcess(j) : jobs[i] \in Live
    BY DEF OriginalProcess, process_identity
  <2>2. ASSUME NEW d \in Abroad(k) PROVE <<k, d>> \in old
    <3>1. d = stored[k] /\ d \in Tries /\ jobs[<<k, d>>] \in Live /\ d # 0
      BY <2>2, <1>3, TriesCounted DEF Abroad
    <3>2. <<k, d>> \in Processes
      BY <3>1, <1>2 DEF Processes, Jobs
    <3> QED BY <3>1, <3>2, <1>3 DEF OriginalProcess, process_identity
  <2>3. os # "linux" /\ stored[k] # 0 => ByPidAlone
    BY <1>1, <1>3 DEF ByPidAlone
  <2> QED BY <2>1, <2>2, <2>3, <1>3
<1> DEFINE t == [Task("waiting", plan) EXCEPT !.job = plan.out]
           ended == IF os = "linux" THEN old ELSE {}
<1>5. t \in TaskStates /\ t.phase = "waiting" /\ t.job = tries[k] /\ t.out = tries[k]
  BY <1>2 DEF Task, TaskPlan, TaskStates, Phases
<1> HIDE DEF k, t, old, ended
<1>6. \/ /\ up' = "dead" /\ stored[k] # 0 /\ pids' = pids /\ stopped' = stopped
         /\ handles' = handles /\ tasks' = tasks /\ sent' = sent
         /\ jobs' = [j \in Processes |-> IF j \in ended THEN "complete" ELSE jobs[j]]
         /\ assets' = assets \cup {WorkOutput(j[1], j[2]) : j \in ended}
      \/ /\ up' = up /\ pids' = pids /\ stopped' = stopped \cup old
         /\ handles' = handles /\ tasks' = tasks /\ Send(k, <<Error>>)
         /\ jobs' = jobs /\ assets' = assets
      \/ /\ up' = up /\ stopped' = stopped \cup old
         /\ \E p \in FreePids : pids' = [pids EXCEPT ![<<k, tries[k]>>] = p]
         /\ handles' = [handles EXCEPT ![k] = "watching"]
         /\ tasks' = [tasks EXCEPT ![k] = t] /\ Send(k, <<Queued(tries[k]), Running>>)
         /\ jobs' = [jobs EXCEPT ![<<k, tries[k]>>] = "running"] /\ assets' = assets
  BY <1>1, <1>2, <1>3 DEF KillFails, SpawnFails, Spawns, k, t, ended, save_assets, storage_save
<1>7. /\ sent' \in [Keys -> Seq(Events)] /\ (\A u \in Keys : u # k => sent'[u] = sent[u])
      /\ Settled(k) => Settled(k)'
      /\ \A d \in Tries : /\ Queued(d) \in Sent(k)' => Queued(d) \in Sent(k) \/ (tasks' = [tasks EXCEPT ![k] = t] /\ d = tries[k])
                          /\ Complete(d) \in Sent(k)' => Complete(d) \in Sent(k)
      /\ ~Settled(k) => /\ \A i, j \in Terminal(sent'[k]) : i = j
                        /\ tasks' = tasks \/ ~Settled(k)'
  <2>1. CASE sent' = sent /\ tasks' = tasks
    BY <2>1, <1>0, <1>2, NoneSent DEF Settled
  <2>2. CASE Send(k, <<Error>>) /\ tasks' = tasks
    <3>1. /\ sent' \in [Keys -> Seq(Events)] /\ (\A u \in Keys : u # k => sent'[u] = sent[u])
          /\ Sent(k)' = Sent(k) \cup {Error} /\ (Settled(k) => Settled(k)')
          /\ ~Settled(k) => \A i, j \in Terminal(sent'[k]) : i = j
      BY <2>2, <1>0, <1>2, OneSent, EventKinds
    <3> QED BY <3>1, <2>2, EventKinds
  <2>3. CASE Send(k, <<Queued(tries[k]), Running>>) /\ tasks' = [tasks EXCEPT ![k] = t]
    <3>1. /\ sent' \in [Keys -> Seq(Events)] /\ (\A u \in Keys : u # k => sent'[u] = sent[u])
          /\ Sent(k)' = Sent(k) \cup {Queued(tries[k]), Running} /\ (Settled(k) <=> Settled(k)')
          /\ ~Settled(k) => \A i, j \in Terminal(sent'[k]) : i = j
      BY <2>3, <1>0, <1>2, TwoSent, EventKinds
    <3> QED BY <3>1, <2>3, <1>2, EventKinds
  <2> QED BY <2>1, <2>2, <2>3, <1>6
<1>8. /\ tasks' \in [Keys -> TaskStates] /\ \A u \in Keys \ {k} : tasks'[u] = tasks[u]
      /\ handles' \in [Keys -> {"none", "watching", "cancelBefore"}]
      /\ \A u \in Keys \ {k} : handles'[u] = handles[u]
      /\ \/ tasks' = tasks /\ handles' = handles
         \/ tasks'[k] = t /\ handles'[k] = "watching" /\ jobs' = [jobs EXCEPT ![<<k, tries[k]>>] = "running"]
      /\ tasks' = [tasks EXCEPT ![k] = t] => tasks'[k] = t
  <2>1. tasks \in [Keys -> TaskStates] /\ handles \in [Keys -> {"none", "watching", "cancelBefore"}]
    BY <1>0 DEF Types
  <2> QED BY <2>1, <1>0, <1>2, <1>5, <1>6, TaskSet
<1>9. /\ jobs' \in [Processes -> {"none"} \cup Live \cup Ended]
      /\ \A u \in Keys, d \in Tries :
           /\ \/ jobs'[<<u, d>>] = jobs[<<u, d>>]
              \/ <<u, d>> \in ended /\ jobs'[<<u, d>>] = "complete" /\ WorkOutput(u, d) \in assets'
              \/ u = k /\ d = tries[k] /\ jobs'[<<u, d>>] = "running" /\ stopped' = stopped \cup old
           /\ jobs[<<u, d>>] = "panicked" => jobs'[<<u, d>>] = "panicked"
      /\ tasks' = tasks \/ jobs'[<<k, tries[k]>>] = "running"
      /\ pids' \in [Processes -> {0} \cup Pids]
  <2>1. \A u \in Keys, d \in Tries : <<u, d>> \in Processes /\ <<u, d>>[1] = u /\ <<u, d>>[2] = d
    BY DEF Processes, Jobs
  <2>2. jobs \in [Processes -> {"none"} \cup Live \cup Ended] /\ pids \in [Processes -> {0} \cup Pids]
    BY <1>0 DEF Types
  <2>3. "panicked" \notin Live /\ "running" \in Live /\ "complete" \in Ended
    BY DEF Live, Ended
  <2>4. CASE /\ pids' = pids
             /\ jobs' = [j \in Processes |-> IF j \in ended THEN "complete" ELSE jobs[j]]
             /\ assets' = assets \cup {WorkOutput(j[1], j[2]) : j \in ended} /\ tasks' = tasks
    <3>1. \A j \in ended : jobs[j] \in Live
      BY <1>4 DEF ended
    <3> QED BY <2>1, <2>2, <2>3, <2>4, <3>1
  <2>5. CASE pids' = pids /\ jobs' = jobs /\ tasks' = tasks
    BY <2>2, <2>5
  <2>6. CASE /\ jobs' = [jobs EXCEPT ![<<k, tries[k]>>] = "running"] /\ stopped' = stopped \cup old
             /\ \E p \in FreePids : pids' = [pids EXCEPT ![<<k, tries[k]>>] = p]
    BY <2>1, <2>2, <2>3, <2>6, <1>2, <1>3, SMTT(30) DEF FreePids
  <2> QED BY <2>4, <2>5, <2>6, <1>6
<1>10. /\ assets \subseteq assets' /\ assets' \subseteq AssetSpecs /\ stopped' \in SUBSET Stoppable
       /\ stopped \subseteq stopped' /\ stopped' \subseteq stopped \cup old
       /\ up' \in {"up", "dead"}
  <2>1. \A j \in ended : j[1] = k /\ j[2] \in Tries
    BY <1>2, <1>4 DEF ended
  <2>2. \A j \in ended : WorkOutput(j[1], j[2]) \in AssetSpecs
    BY <2>1, <1>0, <1>2, AssetsTyped
  <2>4. old \subseteq Stoppable
    <3>1. CASE os = "linux"
      BY <3>1, <1>2, <1>4 DEF Stoppable, Jobs, Processes
    <3>2. CASE os # "linux" /\ old # {}
      BY <3>2, <1>4, TriesCounted DEF Stoppable
    <3> QED BY <3>1, <3>2
  <2>3. assets \subseteq AssetSpecs /\ stopped \in SUBSET Stoppable
    BY <1>0 DEF Types
  <2> QED BY <2>2, <2>3, <2>4, <1>2, <1>6
<1>11. \A u \in Keys, d \in Tries :
         /\ <<u, d>> \in ended => u = k /\ d = stored[k] /\ jobs[<<u, d>>] \in Live
         /\ <<u, d>> \in old => (u = k /\ d = stored[k]) \/ ByPidAlone
  BY <1>4, TriesCounted DEF ended
<1>12. Serving(k)
  BY <1>0, <1>1, <1>2, <1>7, <1>8, <1>9, <1>10, <1>11, SMTT(30) DEF Serving, Types, Requests, Single
<1>13. Starting(k)
  <2>1. /\ Idle(k)' \/ (tasks'[k] = t /\ jobs'[<<k, tries[k]>>] = "running")
        /\ tasks' = [tasks EXCEPT ![k] = t] => tasks'[k] = t
        /\ tasks'[k] = t => ~Idle(k)'
        /\ tasks' = tasks => Idle(k)'
        /\ tasks'[k].phase \in {"none", "waiting"}
    BY <1>2, <1>5, <1>8, <1>9 DEF Idle
  <2>2. handles'[k] = "watching" => ~Idle(k)'
    BY <2>1, <1>2, <1>8
  <2>3. \A d \in Tries :
          /\ \/ jobs'[<<k, d>>] = jobs[<<k, d>>]
             \/ jobs[<<k, d>>] \in Live /\ jobs'[<<k, d>>] = "complete" /\ WorkOutput(k, d) \in assets'
             \/ /\ d = tries[k] /\ jobs'[<<k, d>>] \in Live
                /\ \A e \in Abroad(k) : <<k, e>> \in stopped'
    BY <1>2, <1>4, <1>9, <1>11 DEF Live
  <2> QED BY <2>1, <2>2, <2>3, <1>1, <1>2, <1>3, <1>5, <1>7, <1>8, <1>10, <1>11, <1>12 DEF Starting, Live, Requests
<1>14. Settling(k)' /\ Watched(k)'
  <2>1. tasks' = tasks => Idle(k)'
    BY <1>2 DEF Idle
  <2> QED BY <2>1, <1>2, <1>7, <1>13, StartingSettles
<1>15. up' = up \/ ServiceFailsOnlyOnCancel'
  <2>2. kind' = kind
    BY <1>1 DEF setup
  <2> QED BY <2>2, <1>1, <1>3, <1>6 DEF ServiceFailsOnlyOnCancel
<1> QED BY <1>2, <1>3, <1>12, <1>13, <1>14, <1>15, StartingKeeps, LocalKept, ServingKeeps DEF KeyInv

-----------------------------------------------------------------------------
(* The HPC executor. *)

(* What the parsers of the three schedulers make of a report: a job is     *)
(* complete if they say so, and over if they say it neither waits nor      *)
(* runs.                                                                   *)
LEMMA CheckTells ==
  ASSUME NEW j, kind \in Schedulers, jobs[j] \in {"queued", "running", "complete", "error", "cancelled"},
         NEW status \in check(j)
  PROVE  /\ status = "complete" => jobs[j] = "complete"
         /\ status \notin {"queued", "running"} => jobs[j] \in Ended
<1>1. PICK state \in Reports[kind][jobs[j]] : status = SchedulerStatus(state, ExitZero(jobs[j]))
  BY DEF check
<1>2. CASE kind = "slurm"
  <2>1. status = SlurmStatus(state, ExitZero(jobs[j])) /\ state \in Reports.slurm[jobs[j]]
    BY <1>1, <1>2 DEF SchedulerStatus, Reports
  <2>2. jobs[j] = "queued" => status = "queued"
    BY <2>1 DEF SlurmStatus, Reports
  <2>3. jobs[j] = "running" => status = "running"
    BY <2>1 DEF SlurmStatus, Reports
  <2>4. status = "complete" => jobs[j] = "complete"
    BY <2>1 DEF SlurmStatus, ExitZero
  <2> QED BY <2>2, <2>3, <2>4 DEF Ended
<1>3. CASE kind = "pbs"
  <2>1. status = PbsStatus(state, ExitZero(jobs[j])) /\ state \in Reports.pbs[jobs[j]]
    BY <1>1, <1>3 DEF SchedulerStatus, Reports
  <2>2. jobs[j] = "queued" => status = "queued"
    BY <2>1 DEF PbsStatus, Reports
  <2>3. jobs[j] = "running" => status = "running"
    BY <2>1 DEF PbsStatus, Reports
  <2>4. status = "complete" => jobs[j] = "complete"
    BY <2>1 DEF PbsStatus, ExitZero
  <2> QED BY <2>2, <2>3, <2>4 DEF Ended
<1>4. CASE kind = "pjsub"
  <2>1. status = PjsubStatus(state, ExitZero(jobs[j])) /\ state \in Reports.pjsub[jobs[j]]
    BY <1>1, <1>4 DEF SchedulerStatus, Reports
  <2>2. jobs[j] = "queued" => status = "queued"
    BY <2>1 DEF PjsubStatus, Reports
  <2>3. jobs[j] = "running" => status = "running"
    BY <2>1 DEF PjsubStatus, Reports
  <2>4. status = "complete" => jobs[j] = "complete"
    BY <2>1 DEF PjsubStatus, ExitZero
  <2> QED BY <2>2, <2>3, <2>4 DEF Ended
<1> QED BY <1>2, <1>3, <1>4 DEF Schedulers

(* monitor_task *)
LEMMA HpcMonitorKeeps ==
  ASSUME ExecutorInv, NEW plan, HpcMonitor(plan) PROVE ExecutorInv'
<1> DEFINE k == plan.key
           t == Task("waiting", plan)
<1>0. Types
  BY DEF ExecutorInv
<1>1. /\ kind \in Schedulers /\ kind \in Remote /\ NextPlan(plan) /\ (Fault \/ NoFault)
      /\ up' = up /\ lock' = lock /\ cancels' = cancels /\ api' = api /\ jobs' = jobs /\ pids' = pids /\ assets' = assets
      /\ stored' = stored /\ lost' = lost /\ setup' = setup /\ restarts' = restarts
      /\ handles' = [handles EXCEPT ![k] = "watching"] /\ tasks' = [tasks EXCEPT ![k] = t]
  BY DEF HpcMonitor, Remote
<1>2. /\ up = "up" /\ plan \in TaskPlan /\ k \in Keys
      /\ plans' \in Seq(TaskPlan) /\ PlansDistinct' /\ Plans' = {p \in Plans : p.key # k}
      /\ KeyInv(k) /\ Pending(k) /\ k \in held /\ Idle(k) /\ handles[k] # "watching"
      /\ plan.out = tries[k] /\ tries[k] \in Tries /\ plan.job = Job(k) /\ Job(k) \in Tries
  BY <1>1, PlanOf DEF PlanJob, Schedulers
<1>3. \/ stopped' = stopped /\ handles[k] # "cancelBefore" /\ Send(k, <<Queued(Job(k))>>)
      \/ stopped' = stopped \cup {<<k, Job(k)>>} /\ handles[k] = "cancelBefore" /\ Send(k, <<Queued(Job(k))>>)
      \/ stopped' = stopped /\ handles[k] = "cancelBefore" /\ Fault /\ Send(k, <<Queued(Job(k)), Error>>)
  BY <1>2 DEF HpcMonitor, should_cancel
<1>4. t \in TaskStates /\ t.phase = "waiting" /\ t.job = Job(k) /\ t.out = tries[k]
  BY <1>2 DEF Task, TaskPlan, TaskStates, Phases
<1> HIDE DEF k, t
<1>5. /\ sent' \in [Keys -> Seq(Events)] /\ (\A u \in Keys : u # k => sent'[u] = sent[u])
      /\ Settled(k) => Settled(k)'
      /\ \A d \in Tries : /\ Queued(d) \in Sent(k)' => Queued(d) \in Sent(k) \/ d = Job(k)
                          /\ Complete(d) \in Sent(k)' => Complete(d) \in Sent(k)
      /\ ~Settled(k) => /\ \A i, j \in Terminal(sent'[k]) : i = j
                        /\ Fault \/ ~Settled(k)'
  <2>1. CASE Send(k, <<Queued(Job(k))>>)
    <3>1. /\ sent' \in [Keys -> Seq(Events)] /\ (\A u \in Keys : u # k => sent'[u] = sent[u])
          /\ Sent(k)' = Sent(k) \cup {Queued(Job(k))} /\ (Settled(k) <=> Settled(k)')
          /\ ~Settled(k) => \A i, j \in Terminal(sent'[k]) : i = j
      BY <2>1, <1>0, <1>2, OneSent, EventKinds
    <3> QED BY <3>1, <1>2, EventKinds
  <2>2. CASE Fault /\ Send(k, <<Queued(Job(k)), Error>>)
    <3>1. /\ sent' \in [Keys -> Seq(Events)] /\ (\A u \in Keys : u # k => sent'[u] = sent[u])
          /\ Sent(k)' = Sent(k) \cup {Queued(Job(k)), Error} /\ (Settled(k) => Settled(k)')
          /\ ~Settled(k) => \A i, j \in Terminal(sent'[k]) : i = j
      BY <2>2, <1>0, <1>2, TwoSent, EventKinds
    <3> QED BY <3>1, <2>2, <1>2, EventKinds
  <2> QED BY <2>1, <2>2, <1>3
<1>6. /\ tasks' \in [Keys -> TaskStates] /\ tasks'[k] = t /\ \A u \in Keys \ {k} : tasks'[u] = tasks[u]
      /\ handles' \in [Keys -> {"none", "watching", "cancelBefore"}] /\ handles'[k] = "watching"
      /\ \A u \in Keys \ {k} : handles'[u] = handles[u]
  <2>1. handles \in [Keys -> {"none", "watching", "cancelBefore"}]
    BY <1>0 DEF Types
  <2>2. /\ tasks' \in [Keys -> TaskStates] /\ tasks'[k] = t
        /\ \A u \in Keys \ {k} : tasks'[u] = tasks[u]
    BY <1>0, <1>1, <1>2, <1>4, TaskSet
  <2>3. /\ handles' \in [Keys -> {"none", "watching", "cancelBefore"}] /\ handles'[k] = "watching"
        /\ \A u \in Keys \ {k} : handles'[u] = handles[u]
    BY <2>1, <1>1, <1>2
  <2> QED BY <2>2, <2>3
<1>7. /\ stopped' \in SUBSET Stoppable /\ stopped \subseteq stopped'
      /\ \A u \in Keys, d \in Tries :
           <<u, d>> \in stopped' => <<u, d>> \in stopped \/ (u = k /\ handles[k] = "cancelBefore")
  <2>1. <<k, Job(k)>> \in Jobs
    BY <1>2 DEF Jobs
  <2> QED BY <2>1, <1>0, <1>3 DEF Types, Stoppable, Processes
<1>8. Serving(k)
  BY <1>0, <1>1, <1>2, <1>5, <1>6, <1>7 DEF Serving, Types, Requests, Single
<1>9. Starting(k)
  <2>1. handles[k] = "cancelBefore" => cancelled[k] > 0
    BY <1>2 DEF KeyInv, Asked
  <2> QED BY <2>1, <1>1, <1>2, <1>4, <1>5, <1>6, <1>7, <1>8 DEF Starting, Idle, Requests
<1>10. SettleOnce(k)' => NoFault
  BY <1>1, <1>2, <1>8, ServingView DEF SettleOnce
<1>11. ~(Fault /\ NoFault)
  BY <1>0 DEF Fault, NoFault, Types
<1>12. Settling(k)' /\ Watched(k)'
  BY <1>2, <1>5, <1>9, <1>10, <1>11, StartingSettles
<1>13. Cancelling(k)'
  <2>1. ASSUME FirstLife' PROVE NoFault /\ Job(k) = tries[k] /\ tries' = tries
    BY <2>1, <1>2, <1>8, ServingView, FirstJob DEF FirstLife
  <2>2. ASSUME FirstLife', handles[k] = "cancelBefore" PROVE Honoured(k)'
    BY <2>1, <2>2, <1>3, <1>11 DEF Honoured
  <2>3. Requests' = Requests /\ (Single(k) => Single(k)')
    BY <1>1 DEF Requests, Single
  <2> QED BY <2>2, <2>3, <1>2, <1>6, <1>9, StartingCancels
<1> QED BY <1>1, <1>2, <1>8, <1>9, <1>12, <1>13, StartingKeeps, ServingKeeps DEF KeyInv

(* A job that a remote executor watches exists. *)
LEMMA WatchedJob ==
  ASSUME ExecutorInv, NEW k \in Keys, kind \in Remote, ~Idle(k)
  PROVE  /\ tasks[k].job = Job(k) /\ tasks[k].out = tries[k] /\ k \in held
         /\ tries[k] \in Tries /\ Job(k) \in Tries /\ <<k, Job(k)>> \in Jobs
         /\ jobs[<<k, Job(k)>>] \in {"queued", "running", "complete", "error", "cancelled"}
<1>1. Types /\ KeyInv(k)
  BY DEF ExecutorInv
<1>2. tasks[k].job = Job(k) /\ tasks[k].out = tries[k] /\ k \in held
  BY <1>1 DEF KeyInv, Slot
<1>3. tries[k] \in Tries /\ Job(k) \in Tries
  BY <1>1, <1>2, TriesInRange DEF KeyInv
<1>4. <<k, Job(k)>> \in Jobs /\ <<k, Job(k)>> \in Processes
  BY <1>3 DEF Jobs, Processes
<1>5. jobs[<<k, Job(k)>>] # "none" /\ jobs[<<k, Job(k)>>] # "panicked"
  BY <1>1, <1>3 DEF KeyInv, Created, Remote, Schedulers
<1>6. jobs[<<k, Job(k)>>] \in {"none"} \cup Live \cup Ended
  BY <1>1, <1>4 DEF Types
<1> QED BY <1>2, <1>3, <1>4, <1>5, <1>6 DEF Live, Ended

(* check_jobs: the scheduler reports that a job runs, or that it is over. *)
LEMMA HpcPollKeeps ==
  ASSUME ExecutorInv, NEW k \in Keys, HpcPoll(k) PROVE ExecutorInv'
<1>0. Types /\ KeyInv(k) /\ PlansDistinct
  BY DEF ExecutorInv
<1>1. /\ kind \in Schedulers /\ kind \in Remote /\ up = "up" /\ handles[k] = "watching"
      /\ up' = up /\ lock' = lock /\ plans' = plans /\ cancels' = cancels /\ api' = api /\ jobs' = jobs /\ pids' = pids
      /\ stopped' = stopped /\ stored' = stored /\ lost' = lost /\ setup' = setup /\ restarts' = restarts
  BY DEF HpcPoll, Remote
<1>2. ~Idle(k) /\ tasks[k].phase \in {"waiting", "done", "failed"} /\ lock # k /\ kind # "qrmi" /\ kind # "nexus"
  BY <1>0, <1>1 DEF KeyInv, Slot, Idle, Calling, Schedulers
<1>3. /\ tasks[k].job = Job(k) /\ tasks[k].out = tries[k] /\ k \in held
      /\ tries[k] \in Tries /\ Job(k) \in Tries /\ <<k, Job(k)>> \in Jobs
      /\ jobs[<<k, Job(k)>>] \in {"queued", "running", "complete", "error", "cancelled"}
  BY <1>1, <1>2, WatchedJob
<1>4. PICK status \in check(<<k, Job(k)>>) : HpcRunning(k, status) \/ HpcFinished(k, status)
  BY <1>3 DEF HpcPoll
<1>5. /\ status = "complete" => jobs[<<k, Job(k)>>] = "complete"
      /\ status \notin {"queued", "running"} => jobs[<<k, Job(k)>>] \in Ended
  BY <1>1, <1>3, CheckTells
<1>6. CASE HpcRunning(k, status)
  <2>1. /\ NoFault /\ handles' = handles /\ assets' = assets
        /\ tasks' = [tasks EXCEPT ![k].ran = (status = "running")]
        /\ Send(k, <<Running>>) \/ Send(k, <<>>)
    BY <1>6 DEF HpcRunning
  <2>2. /\ tasks' \in [Keys -> TaskStates] /\ \A u \in Keys \ {k} : tasks'[u] = tasks[u]
        /\ tasks'[k].phase = tasks[k].phase /\ tasks'[k].job = tasks[k].job /\ tasks'[k].out = tasks[k].out
    BY <2>1, <1>0, TaskSet
  <2>3. /\ sent' \in [Keys -> Seq(Events)] /\ (\A u \in Keys : u # k => sent'[u] = sent[u])
        /\ (Settled(k)' <=> Settled(k)) /\ Terminal(sent'[k]) = Terminal(sent[k])
        /\ \A d \in Tries : /\ Queued(d) \in Sent(k)' => Queued(d) \in Sent(k)
                            /\ Complete(d) \in Sent(k)' => Complete(d) \in Sent(k)
    <3>1. CASE Send(k, <<Running>>)
      <4>1. /\ sent' \in [Keys -> Seq(Events)] /\ (\A u \in Keys : u # k => sent'[u] = sent[u])
            /\ Sent(k)' = Sent(k) \cup {Running}
            /\ (Settled(k)' <=> Settled(k)) /\ Terminal(sent'[k]) = Terminal(sent[k])
        BY <3>1, <1>0, OneSent, EventKinds
      <4> QED BY <4>1, EventKinds
    <3>2. CASE Send(k, <<>>)
      BY <3>2, <1>0, NoneSent
    <3> QED BY <2>1, <3>1, <3>2
  <2>4. Serving(k)
    BY <2>1, <2>2, <2>3, <1>0, <1>1 DEF Serving, Types, PlansDistinct, Plans, Requests, Single
  <2>5. Following(k)
    BY <2>1, <2>2, <2>3, <2>4, <1>0, <1>1, <1>2 DEF Following, KeyInv, Slot, Idle, Calling, Requests
  <2>6. Settling(k)' /\ Cancelling(k)'
    BY <2>1, <2>3, <2>5, <1>1, <1>2, QuietSettling, CancellingKept
  <2>7. Watched(k)'
    BY <2>4, <1>2, ServingView DEF Watched
  <2> QED BY <1>1, <2>4, <2>5, <2>6, <2>7, FollowingKeeps, ServingKeeps DEF KeyInv
<1>7. CASE HpcFinished(k, status)
  <2>1. /\ status \notin {"queued", "running"} /\ (Fault \/ NoFault)
        /\ handles' = [handles EXCEPT ![k] = "none"] /\ tasks' = [tasks EXCEPT ![k] = NoTask]
        /\ \/ Send(k, <<Error>>) /\ assets' = assets
           \/ Send(k, <<Cancelled>>) /\ assets' = assets
           \/ /\ status = "complete" /\ Send(k, <<Complete(tries[k])>>)
              /\ assets' = TransferOutput(k, tries[k]).assets
    BY <1>3, <1>7 DEF HpcFinished, Unregistered
  <2>2. /\ assets \subseteq TransferOutput(k, tries[k]).assets /\ TransferOutput(k, tries[k]).assets \subseteq AssetSpecs
        /\ assets \subseteq AssetSpecs
        /\ status = "complete" =>
             \/ Output(k, tries[k]) \in TransferOutput(k, tries[k]).assets
             \/ restarts > 0 /\ kind \in Schedulers /\ storage.work = storage.output
    <3>1. restarts \in Nat /\ (restarts = 0 => Job(k) = tries[k])
      BY <1>0 DEF Types, KeyInv, Tried, Job
    <3>2. status = "complete" /\ restarts = 0 => WorkOutput(k, tries[k]) \in assets
      BY <3>1, <1>0, <1>1, <1>3, <1>5 DEF KeyInv, Written, WritesItself
    <3> QED BY <3>1, <3>2, <1>0, <1>1, <1>3, AssetsTyped DEF Types
  <2>3. /\ tasks' \in [Keys -> TaskStates] /\ tasks'[k].phase = "none" /\ Idle(k)'
        /\ \A u \in Keys \ {k} : tasks'[u] = tasks[u]
        /\ handles' \in [Keys -> {"none", "watching", "cancelBefore"}] /\ handles'[k] = "none"
        /\ \A u \in Keys \ {k} : handles'[u] = handles[u]
        /\ assets \subseteq assets' /\ assets' \subseteq AssetSpecs
    BY <2>1, <2>2, <1>0, TaskSet DEF Idle
  <2>4. /\ sent' \in [Keys -> Seq(Events)] /\ (\A u \in Keys : u # k => sent'[u] = sent[u])
        /\ Settled(k) => Settled(k)'
        /\ ~Settled(k) => \A i, j \in Terminal(sent'[k]) : i = j
        /\ \A d \in Tries :
             /\ Queued(d) \in Sent(k)' => Queued(d) \in Sent(k)
             /\ Complete(d) \in Sent(k)' =>
                  \/ Complete(d) \in Sent(k) \/ Output(k, d) \in assets'
                  \/ restarts > 0 /\ kind \in Schedulers /\ storage.work = storage.output
    <3>1. ASSUME NEW e \in {Error, Cancelled, Complete(tries[k])}, Send(k, <<e>>)
          PROVE  /\ sent' \in [Keys -> Seq(Events)] /\ (\A u \in Keys : u # k => sent'[u] = sent[u])
                 /\ Sent(k)' = Sent(k) \cup {e} /\ (Settled(k) => Settled(k)')
                 /\ ~Settled(k) => \A i, j \in Terminal(sent'[k]) : i = j
      <4>1. e \in Events
        BY <1>3, EventKinds
      <4> QED BY <3>1, <4>1, <1>0, OneSent
    <3>2. CASE Send(k, <<Error>>)
      BY <3>1, <3>2, EventKinds
    <3>3. CASE Send(k, <<Cancelled>>)
      BY <3>1, <3>3, EventKinds
    <3>4. CASE /\ status = "complete" /\ Send(k, <<Complete(tries[k])>>)
               /\ assets' = TransferOutput(k, tries[k]).assets
      BY <3>1, <3>4, <2>2, <1>3, EventKinds
    <3> QED BY <2>1, <3>2, <3>3, <3>4
  <2>5. Serving(k)
    BY <2>1, <2>3, <2>4, <1>0, <1>1 DEF Serving, Types, PlansDistinct, Plans, Requests, Single
  <2>6. Following(k)
    BY <2>1, <2>3, <2>4, <2>5, <1>0, <1>1, <1>2 DEF Following, KeyInv, Slot, Idle, Calling, Requests
  <2>7. Settling(k)'
    BY <2>3, <2>4, <2>6, <1>2, FinalSettling
  <2>8. Watched(k)'
    BY <2>5, <1>2, ServingView DEF Watched
  <2>9. Cancelling(k)'
    <3>1. ASSUME FirstLife' PROVE Honoured(k)'
      <4>1. Job(k) = tries[k] /\ tries' = tries
        BY <3>1, <2>5, <1>0, ServingView, FirstJob
      <4> QED BY <4>1, <2>1, <1>1, <1>5 DEF Honoured
    <3> QED BY <3>1, <2>3, <2>6, <1>1, <1>2, CancellingKept
  <2> QED BY <1>1, <2>5, <2>6, <2>7, <2>8, <2>9, FollowingKeeps, ServingKeeps DEF KeyInv
<1> QED BY <1>4, <1>6, <1>7

(* process_cancelled_task of the HPC and of the Nexus executor: in the     *)
(* first one the job is forgotten with the request.                        *)
LEMMA RemoteCancelKeeps ==
  ASSUME ExecutorInv, NEW k \in Keys, HpcCancel(k) \/ NexusCancel(k) PROVE ExecutorInv'
<1>0. Types /\ KeyInv(k) /\ PlansDistinct
  BY DEF ExecutorInv
<1>1. /\ kind \in Schedulers \cup {"nexus"} /\ NextCancel(k) /\ (Fault \/ NoFault)
      /\ lock' = lock /\ plans' = plans /\ api' = api /\ pids' = pids /\ jobs' = jobs
      /\ assets' = assets /\ sent' = sent /\ stored' = stored /\ lost' = lost /\ setup' = setup
      /\ restarts' = restarts
  BY DEF HpcCancel, NexusCancel, record
<1>2. /\ up = "up" /\ k \in Requests /\ cancels' \in Seq(Keys) /\ Requests = {k} \cup Requests'
      /\ \A u \in Keys : Single(u) => Single(u)'
      /\ cancelled[k] > 0
  BY <1>0, <1>1, CancelTaken DEF KeyInv, Asked
<1>3. kind \in Remote /\ kind # "qrmi" /\ kind # "subprocess" /\ lock # k
  BY <1>0, <1>1 DEF KeyInv, Slot, Calling, Schedulers, Remote
<1>4. handles[k] = "watching" => ~Idle(k) /\ tasks[k].job = Job(k) /\ <<k, Job(k)>> \in Jobs
  <2>1. handles[k] = "watching" => ~Idle(k)
    BY <1>0, <1>2 DEF KeyInv, Slot
  <2> QED BY <2>1, <1>3, WatchedJob
<1>5. \/ /\ handles[k] = "watching" /\ handles' = [handles EXCEPT ![k] = "none"] /\ up' = up
         /\ stopped' = stopped \cup {<<k, Job(k)>>}
         /\ tasks' = tasks \/ tasks' = [tasks EXCEPT ![k] = NoTask]
      \/ handles[k] = "watching" /\ handles' = handles /\ up' = "dead" /\ stopped' = stopped /\ tasks' = tasks
      \/ /\ handles[k] # "watching" /\ up' = up /\ stopped' = stopped /\ tasks' = tasks
         /\ handles' = [handles EXCEPT ![k] = IF @ = "none" THEN "cancelBefore" ELSE "none"]
  BY <1>4 DEF HpcCancel, NexusCancel
<1>6. /\ handles' \in [Keys -> {"none", "watching", "cancelBefore"}]
      /\ \A u \in Keys \ {k} : handles'[u] = handles[u]
      /\ \/ handles[k] = "watching" /\ handles'[k] = "none" /\ up' = up /\ stopped' = stopped \cup {<<k, Job(k)>>}
         \/ handles[k] = "watching" /\ up' = "dead" /\ handles'[k] = "watching" /\ tasks' = tasks
         \/ /\ handles[k] # "watching" /\ handles'[k] # "watching" /\ up' = up /\ tasks' = tasks
            /\ handles[k] = "none" => handles'[k] = "cancelBefore"
  BY <1>0, <1>5 DEF Types
<1>7. /\ tasks' \in [Keys -> TaskStates] /\ \A u \in Keys \ {k} : tasks'[u] = tasks[u]
      /\ tasks'[k] = tasks[k] \/ (handles[k] = "watching" /\ tasks'[k] = NoTask)
      /\ NoTask.phase = "none"
  <2>1. tasks \in [Keys -> TaskStates]
    BY <1>0 DEF Types
  <2> QED BY <2>1, <1>0, <1>5, TaskSet
<1>8. /\ stopped' \in SUBSET Stoppable /\ stopped \subseteq stopped'
      /\ \A u \in Keys, d \in Tries : <<u, d>> \in stopped' => <<u, d>> \in stopped \/ u = k
  BY <1>0, <1>4, <1>5 DEF Types, Stoppable, Processes
<1>9. /\ sent' \in [Keys -> Seq(Events)] /\ Sent(k)' = Sent(k) /\ (Settled(k)' <=> Settled(k))
      /\ Terminal(sent'[k]) = Terminal(sent[k])
  BY <1>0, <1>1, NoneSent
<1>10. Serving(k)
  BY <1>0, <1>1, <1>2, <1>6, <1>7, <1>8, <1>9 DEF Serving, Types, PlansDistinct, Plans
<1>11. Following(k)
  <2>1. /\ Idle(k)' \/ (~Idle(k) /\ tasks'[k] = tasks[k])
        /\ tasks'[k].phase \in {"none", "waiting", "done", "failed"}
        /\ tasks'[k].phase \notin Calling
        /\ Idle(k)' /\ up' = "up" => handles'[k] # "watching"
    BY <1>0, <1>2, <1>3, <1>4, <1>6, <1>7 DEF KeyInv, Slot, Idle, Calling
  <2> QED BY <2>1, <1>1, <1>2, <1>3, <1>6, <1>8, <1>9, <1>10 DEF Following
<1>12. Settling(k)'
  <2>1. tasks'[k].phase = "failed" => tasks[k].phase = "failed"
    BY <1>7
  <2> QED BY <2>1, <1>3, <1>9, <1>11, QuietSettling
<1>13. Watched(k)'
  <2>1. tasks'[k].phase = "done" => tasks[k].phase = "done"
    BY <1>7
  <2>2. kind' = kind /\ Job(k)' = Job(k) /\ (faults' = 0 => faults = 0)
    BY <1>10, ServingView
  <2> QED BY <2>1, <2>2, <1>0, <1>1, <1>3 DEF KeyInv, Watched
<1>14. Cancelling(k)'
  <2>1. ASSUME FirstLife' PROVE Job(k) = tries[k] /\ tries' = tries /\ up' # "dead"
    BY <2>1, <1>0, <1>10, ServingView, FirstJob DEF FirstLife
  <2>2. ASSUME FirstLife', handles[k] = "watching" PROVE handles'[k] = "none" /\ Honoured(k)'
    BY <2>1, <2>2, <1>6 DEF Honoured
  <2> QED BY <2>1, <2>2, <1>1, <1>3, <1>6, <1>11, RequestServed
<1>15. up' = up \/ ServiceFailsOnlyOnCancel'
  <2>1. cancelled' = cancelled
    BY <1>1 DEF api
  <2> QED BY <2>1, <1>2 DEF ServiceFailsOnlyOnCancel
<1> QED BY <1>10, <1>11, <1>12, <1>13, <1>14, <1>15, FollowingKeeps, ServingKeeps DEF KeyInv

-----------------------------------------------------------------------------
(* The Nexus executor. *)

(* monitor_task: a request that came first is put on the channel again. *)
LEMMA NexusMonitorKeeps ==
  ASSUME ExecutorInv, NEW plan, NexusMonitor(plan) PROVE ExecutorInv'
<1> DEFINE k == plan.key
           t == Task("waiting", plan)
<1>0. Types
  BY DEF ExecutorInv
<1>1. /\ kind = "nexus" /\ kind \in Remote /\ NextPlan(plan) /\ NoFault
      /\ lock' = lock /\ api' = api /\ jobs' = jobs /\ pids' = pids /\ assets' = assets /\ stopped' = stopped
      /\ stored' = stored /\ lost' = lost /\ setup' = setup /\ restarts' = restarts
      /\ Send(k, <<Queued(plan.job)>>) /\ tasks' = [tasks EXCEPT ![k] = t]
  BY DEF NexusMonitor, Remote, outside, budget, NoFault
<1>2. /\ up = "up" /\ plan \in TaskPlan /\ k \in Keys
      /\ plans' \in Seq(TaskPlan) /\ PlansDistinct' /\ Plans' = {p \in Plans : p.key # k}
      /\ KeyInv(k) /\ Pending(k) /\ k \in held /\ Idle(k) /\ handles[k] # "watching"
      /\ plan.out = tries[k] /\ tries[k] \in Tries /\ plan.job = Job(k) /\ Job(k) \in Tries
  BY <1>1, PlanOf DEF PlanJob
<1>3. \/ /\ handles[k] # "cancelBefore" /\ cancels' = cancels /\ up' = "up"
         /\ handles' = [handles EXCEPT ![k] = "watching"]
      \/ /\ handles[k] = "cancelBefore" /\ cancels' = Append(cancels, k) /\ up' = "up"
         /\ handles' = [handles EXCEPT ![k] = "watching"]
      \/ /\ handles[k] = "cancelBefore" /\ cancels' = Append(cancels, k) /\ up' = "blocked"
         /\ handles' = handles
  BY DEF NexusMonitor
<1>4. t \in TaskStates /\ t.phase = "waiting" /\ t.job = Job(k) /\ t.out = tries[k]
  BY <1>2 DEF Task, TaskPlan, TaskStates, Phases
<1> HIDE DEF k, t
<1>5. /\ sent' \in [Keys -> Seq(Events)] /\ (\A u \in Keys : u # k => sent'[u] = sent[u])
      /\ (Settled(k)' <=> Settled(k)) /\ Terminal(sent'[k]) = Terminal(sent[k])
      /\ \A d \in Tries : /\ Queued(d) \in Sent(k)' => Queued(d) \in Sent(k) \/ d = Job(k)
                          /\ Complete(d) \in Sent(k)' => Complete(d) \in Sent(k)
  <2>1. /\ sent' \in [Keys -> Seq(Events)] /\ (\A u \in Keys : u # k => sent'[u] = sent[u])
        /\ Sent(k)' = Sent(k) \cup {Queued(Job(k))} /\ (Settled(k)' <=> Settled(k))
        /\ Terminal(sent'[k]) = Terminal(sent[k])
    BY <1>0, <1>1, <1>2, OneSent, EventKinds
  <2> QED BY <2>1, <1>2, EventKinds
<1>6. /\ tasks' \in [Keys -> TaskStates] /\ tasks'[k] = t /\ \A u \in Keys \ {k} : tasks'[u] = tasks[u]
      /\ handles' \in [Keys -> {"none", "watching", "cancelBefore"}]
      /\ \A u \in Keys \ {k} : handles'[u] = handles[u]
      /\ up' = "up" => handles'[k] = "watching"
      /\ handles'[k] = "cancelBefore" => handles[k] = "cancelBefore"
  <2>1. handles \in [Keys -> {"none", "watching", "cancelBefore"}]
    BY <1>0 DEF Types
  <2>2. /\ tasks' \in [Keys -> TaskStates] /\ tasks'[k] = t
        /\ \A u \in Keys \ {k} : tasks'[u] = tasks[u]
    BY <1>0, <1>1, <1>2, <1>4, TaskSet
  <2>3. /\ handles' \in [Keys -> {"none", "watching", "cancelBefore"}]
        /\ \A u \in Keys \ {k} : handles'[u] = handles[u]
        /\ up' = "up" => handles'[k] = "watching"
        /\ handles'[k] = "cancelBefore" => handles[k] = "cancelBefore"
    BY <2>1, <1>2, <1>3
  <2> QED BY <2>2, <2>3
<1>7. /\ cancels' \in Seq(Keys)
      /\ \A u \in Keys \ {k} : (u \in Requests' <=> u \in Requests) /\ (Single(u) => Single(u)')
      /\ Requests \subseteq Requests' /\ (handles[k] = "cancelBefore" => k \in Requests')
      /\ k \in Requests' => k \in Requests \/ handles[k] = "cancelBefore"
      /\ Single(k) /\ ~(handles[k] = "cancelBefore" /\ k \in Requests) => Single(k)'
  <2>1. CASE cancels' = cancels /\ handles[k] # "cancelBefore"
    BY <2>1, <1>0 DEF Types, Requests, Single
  <2>2. CASE cancels' = Append(cancels, k) /\ handles[k] = "cancelBefore"
    BY <2>2, <1>0, <1>2, CancelPut
  <2> QED BY <2>1, <2>2, <1>3
<1>8. Serving(k)
  BY <1>0, <1>1, <1>2, <1>3, <1>5, <1>6, <1>7 DEF Serving, Types
<1>9. Starting(k)
  BY <1>1, <1>2, <1>4, <1>5, <1>6, <1>7, <1>8 DEF Starting, Idle
<1>10. Settling(k)' /\ Watched(k)'
  BY <1>2, <1>5, <1>9, StartingSettles DEF Settled
<1>11. Cancelling(k)'
  <2>1. FirstLife' => up' = "up"
    BY DEF FirstLife
  <2> QED BY <2>1, <1>2, <1>6, <1>7, <1>9, StartingCancels
<1>12. up' = up \/ ServiceFailsOnlyOnCancel'
  <2>1. cancelled' = cancelled
    BY <1>1 DEF api
  <2>2. handles[k] = "cancelBefore" => cancelled[k] > 0
    BY <1>2 DEF KeyInv, Asked
  <2> QED BY <2>1, <2>2, <1>2, <1>3 DEF ServiceFailsOnlyOnCancel
<1> QED BY <1>2, <1>8, <1>9, <1>10, <1>11, <1>12, StartingKeeps, ServingKeeps DEF KeyInv

(* The listener of a job, which goes on whatever process_tasks does. *)
LEMMA NexusListenKeeps ==
  ASSUME ExecutorInv, NEW k \in Keys, NexusListen(k) PROVE ExecutorInv'
<1>0. Types /\ KeyInv(k) /\ PlansDistinct
  BY DEF ExecutorInv
<1>1. /\ kind = "nexus" /\ kind \in Remote /\ tasks[k].phase = "waiting" /\ (Fault \/ NoFault)
      /\ up' = up /\ handles' = handles /\ lock' = lock /\ plans' = plans /\ cancels' = cancels /\ api' = api
      /\ jobs' = jobs /\ pids' = pids /\ assets' = assets /\ stopped' = stopped
      /\ stored' = stored /\ lost' = lost /\ setup' = setup /\ restarts' = restarts
  BY DEF NexusListen, StreamFails, Remote, outside
<1>2. ~Idle(k) /\ lock # k
  BY <1>0, <1>1 DEF KeyInv, Slot, Idle, Calling
<1>3. /\ tasks[k].job = Job(k) /\ tasks[k].out = tries[k] /\ Job(k) \in Tries
      /\ jobs[<<k, Job(k)>>] \in {"queued", "running", "complete", "error", "cancelled"}
  BY <1>1, <1>2, WatchedJob
<1>4. \/ Send(k, <<Running>>) /\ tasks' = [tasks EXCEPT ![k].ran = TRUE]
      \/ jobs[<<k, Job(k)>>] \in Ended /\ sent' = sent /\ tasks' = [tasks EXCEPT ![k].phase = "done"]
      \/ Fault /\ sent' = sent /\ tasks' = [tasks EXCEPT ![k].phase = "failed"]
  BY <1>3 DEF NexusListen, StreamFails, Final, Ended
<1>5. /\ tasks' \in [Keys -> TaskStates] /\ \A u \in Keys \ {k} : tasks'[u] = tasks[u]
      /\ tasks'[k].job = tasks[k].job /\ tasks'[k].out = tasks[k].out
      /\ \/ tasks'[k].phase = "waiting"
         \/ tasks'[k].phase = "done" /\ jobs[<<k, Job(k)>>] \in Ended
         \/ tasks'[k].phase = "failed" /\ Fault
  <2>1. "done" \in Phases /\ "failed" \in Phases /\ TRUE \in BOOLEAN
    BY DEF Phases
  <2>2. CASE tasks' = [tasks EXCEPT ![k].ran = TRUE]
    BY <2>1, <2>2, <1>0, <1>1, TaskSet
  <2>3. CASE jobs[<<k, Job(k)>>] \in Ended /\ tasks' = [tasks EXCEPT ![k].phase = "done"]
    BY <2>1, <2>3, <1>0, TaskSet
  <2>4. CASE Fault /\ tasks' = [tasks EXCEPT ![k].phase = "failed"]
    BY <2>1, <2>4, <1>0, TaskSet
  <2> QED BY <2>2, <2>3, <2>4, <1>4
<1>6. /\ sent' \in [Keys -> Seq(Events)] /\ (\A u \in Keys : u # k => sent'[u] = sent[u])
      /\ (Settled(k)' <=> Settled(k)) /\ Terminal(sent'[k]) = Terminal(sent[k])
      /\ \A d \in Tries : /\ Queued(d) \in Sent(k)' => Queued(d) \in Sent(k)
                          /\ Complete(d) \in Sent(k)' => Complete(d) \in Sent(k)
  <2>1. CASE Send(k, <<Running>>)
    <3>1. /\ sent' \in [Keys -> Seq(Events)] /\ (\A u \in Keys : u # k => sent'[u] = sent[u])
          /\ Sent(k)' = Sent(k) \cup {Running}
          /\ (Settled(k)' <=> Settled(k)) /\ Terminal(sent'[k]) = Terminal(sent[k])
      BY <2>1, <1>0, OneSent, EventKinds
    <3> QED BY <3>1, EventKinds
  <2>2. CASE sent' = sent
    BY <2>2, <1>0, NoneSent
  <2> QED BY <2>1, <2>2, <1>4
<1>7. Serving(k)
  BY <1>0, <1>1, <1>5, <1>6 DEF Serving, Types, PlansDistinct, Plans, Requests, Single
<1>8. Following(k)
  BY <1>0, <1>1, <1>2, <1>5, <1>6, <1>7 DEF Following, KeyInv, Slot, Idle, Calling, Requests
<1>9. /\ kind' = kind /\ Job(k)' = Job(k) /\ (faults' = 0 => NoFault)
  BY <1>7, ServingView
<1>10. ~(Fault /\ NoFault)
  BY <1>0 DEF Fault, NoFault, Types
<1>11. Settling(k)'
  <2>1. tasks'[k].phase = "failed" => ~SettleOnce(k)'
    BY <1>1, <1>5, <1>9, <1>10 DEF SettleOnce
  <2> QED BY <2>1, <1>1, <1>6, <1>8, QuietSettling
<1>12. Watched(k)'
  BY <1>1, <1>5, <1>9 DEF Watched
<1>13. Cancelling(k)'
  BY <1>1, <1>8, CancellingKept
<1> QED BY <1>1, <1>7, <1>8, <1>11, <1>12, <1>13, FollowingKeeps, ServingKeeps DEF KeyInv

(* running.next(): the end of a listener is reported. *)
LEMMA NexusFinishKeeps ==
  ASSUME ExecutorInv, NEW k \in Keys, NexusFinish(k) PROVE ExecutorInv'
<1>0. Types /\ KeyInv(k) /\ PlansDistinct
  BY DEF ExecutorInv
<1>1. /\ kind = "nexus" /\ kind \in Remote /\ up = "up" /\ tasks[k].phase \in {"done", "failed"}
      /\ up' = up /\ lock' = lock /\ plans' = plans /\ cancels' = cancels /\ api' = api
      /\ jobs' = jobs /\ pids' = pids /\ stopped' = stopped
      /\ stored' = stored /\ lost' = lost /\ setup' = setup /\ restarts' = restarts
      /\ handles' = [handles EXCEPT ![k] = "none"] /\ tasks' = [tasks EXCEPT ![k] = NoTask]
  BY DEF NexusFinish, Remote
<1>2. ~Idle(k) /\ lock # k
  BY <1>0, <1>1 DEF KeyInv, Slot, Idle, Calling
<1>3. /\ tasks[k].job = Job(k) /\ tasks[k].out = tries[k] /\ Job(k) \in Tries /\ tries[k] \in Tries
      /\ jobs[<<k, Job(k)>>] \in {"queued", "running", "complete", "error", "cancelled"}
  BY <1>1, <1>2, WatchedJob
<1>4. \E e \in {Error, Cancelled, Complete(tries[k])} :
        /\ \/ tasks[k].phase = "done" /\ Send(k, <<e>>)
           \/ tasks[k].phase = "failed" /\ Send(k, <<Error, e>>)
        /\ Fault \/ NoFault
        /\ \/ assets' = assets /\ e # Complete(tries[k])
           \/ assets' = assets \cup {Output(k, tries[k])}
  <2>1. Outcome(k)
    BY DEF NexusFinish
  <2>2. Error # Complete(tries[k]) /\ Cancelled # Complete(tries[k])
    BY <1>3, EventKinds
  <2>3. CASE Fault /\ Send(k, IF tasks[k].phase = "failed" THEN <<Error, Error>> ELSE <<Error>>) /\ assets' = assets
    <3>1. CASE tasks[k].phase = "done"
      BY <3>1, <2>3, <2>2
    <3>2. CASE tasks[k].phase = "failed"
      BY <3>2, <2>3, <2>2
    <3> QED BY <3>1, <3>2, <1>1
  <2>4. ASSUME ~Fault
        PROVE  \E e \in {Error, Cancelled, Complete(tries[k])} :
                 /\ Send(k, Append(IF tasks[k].phase = "failed" THEN <<Error>> ELSE <<>>, e))
                 /\ NoFault
                 /\ \/ assets' = assets /\ e # Complete(tries[k])
                    \/ assets' = assets \cup {Output(k, tries[k])}
    <3> DEFINE status == jobs[<<k, tasks[k].job>>]
               e == CASE status = "complete" -> Complete(tasks[k].out)
                      [] status = "cancelled" -> Cancelled
                      [] OTHER -> Error
    <3>1. /\ Send(k, Append(IF tasks[k].phase = "failed" THEN <<Error>> ELSE <<>>, e)) /\ NoFault
          /\ assets' = IF status = "complete" THEN Saved(k) ELSE assets
      BY <2>1, <2>4 DEF Outcome
    <3>2. /\ e \in {Error, Cancelled, Complete(tries[k])}
          /\ status # "complete" => e # Complete(tries[k])
          /\ Saved(k) = assets \cup {Output(k, tries[k])}
      BY <2>2, <1>3 DEF Saved, save_assets, storage_save
    <3> HIDE DEF status, e
    <3> QED BY <3>1, <3>2
  <2>5. CASE ~Fault
    <3>1. PICK e \in {Error, Cancelled, Complete(tries[k])} :
                 /\ Send(k, Append(IF tasks[k].phase = "failed" THEN <<Error>> ELSE <<>>, e))
                 /\ NoFault
                 /\ \/ assets' = assets /\ e # Complete(tries[k])
                    \/ assets' = assets \cup {Output(k, tries[k])}
      BY <2>4, <2>5
    <3>2. e \in Events /\ Error \in Events
      BY <1>3, EventKinds
    <3>3. Append(<<Error>>, e) = <<Error, e>>
      BY <3>2, TwoInOrder
    <3>4. Append(<<>>, e) = <<e>>
      BY <3>2
    <3> QED BY <3>1, <3>3, <3>4, <1>1
  <2>6. Fault => ~NoFault
    BY <1>0 DEF Fault, NoFault, Types
  <2> QED BY <2>1, <2>3, <2>5, <2>6 DEF Outcome
<1>5. PICK e \in {Error, Cancelled, Complete(tries[k])} :
        /\ \/ tasks[k].phase = "done" /\ Send(k, <<e>>)
           \/ tasks[k].phase = "failed" /\ Send(k, <<Error, e>>)
        /\ Fault \/ NoFault
        /\ \/ assets' = assets /\ e # Complete(tries[k])
           \/ assets' = assets \cup {Output(k, tries[k])}
  BY <1>4
<1>6. /\ assets \subseteq assets' /\ assets' \subseteq AssetSpecs
      /\ e = Complete(tries[k]) => Output(k, tries[k]) \in assets'
  BY <1>0, <1>3, <1>5, AssetsTyped DEF Types
<1>7. /\ tasks' \in [Keys -> TaskStates] /\ tasks'[k].phase = "none" /\ Idle(k)'
      /\ \A u \in Keys \ {k} : tasks'[u] = tasks[u]
      /\ handles' \in [Keys -> {"none", "watching", "cancelBefore"}] /\ handles'[k] = "none"
      /\ \A u \in Keys \ {k} : handles'[u] = handles[u]
  BY <1>0, <1>1, TaskSet DEF Idle
<1>8. /\ sent' \in [Keys -> Seq(Events)] /\ (\A u \in Keys : u # k => sent'[u] = sent[u])
      /\ Settled(k) => Settled(k)'
      /\ ~Settled(k) /\ tasks[k].phase = "done" => \A i, j \in Terminal(sent'[k]) : i = j
      /\ Sent(k)' \subseteq Sent(k) \cup {Error, e}
  <2>1. e \in Events /\ Error \in Events
    BY <1>3, EventKinds
  <2>2. CASE tasks[k].phase = "done" /\ Send(k, <<e>>)
    <3>1. /\ sent' \in [Keys -> Seq(Events)] /\ (\A u \in Keys : u # k => sent'[u] = sent[u])
          /\ Sent(k)' = Sent(k) \cup {e} /\ (Settled(k) => Settled(k)')
          /\ ~Settled(k) => \A i, j \in Terminal(sent'[k]) : i = j
      BY <2>1, <2>2, <1>0, OneSent
    <3> QED BY <3>1
  <2>3. CASE tasks[k].phase = "failed" /\ Send(k, <<Error, e>>)
    <3>1. /\ sent' \in [Keys -> Seq(Events)] /\ (\A u \in Keys : u # k => sent'[u] = sent[u])
          /\ Sent(k)' = Sent(k) \cup {Error, e} /\ (Settled(k) => Settled(k)')
      BY <2>1, <2>3, <1>0, TwoSent
    <3> QED BY <3>1, <2>3
  <2> QED BY <2>2, <2>3, <1>5
<1>9. \A d \in Tries :
        /\ Queued(d) \in Sent(k)' => Queued(d) \in Sent(k)
        /\ Complete(d) \in Sent(k)' => Complete(d) \in Sent(k) \/ Output(k, d) \in assets'
  BY <1>3, <1>6, <1>8, EventKinds
<1>10. Serving(k)
  BY <1>0, <1>1, <1>5, <1>6, <1>7, <1>8 DEF Serving, Types, PlansDistinct, Plans, Requests, Single
<1>11. Following(k)
  BY <1>0, <1>1, <1>2, <1>7, <1>8, <1>9, <1>10 DEF Following, KeyInv, Slot, Idle, Calling, Requests
<1>12. SettleOnce(k)' => tasks[k].phase = "done"
  <2>1. SettleOnce(k)' => SettleOnce(k)
    BY <1>10, ServingView
  <2> QED BY <2>1, <1>0, <1>1 DEF KeyInv, Settling
<1>13. Settling(k)'
  BY <1>1, <1>2, <1>7, <1>8, <1>11, <1>12, FinalSettling
<1>14. Watched(k)'
  BY <1>7, <1>1, <1>10, ServingView DEF Watched
<1>15. Cancelling(k)'
  <2>1. ASSUME FirstLife' PROVE Honoured(k)'
    <3>1. Job(k) = tries[k] /\ tries' = tries /\ faults = 0 /\ kind' = kind
      BY <2>1, <1>0, <1>10, ServingView, FirstJob DEF FirstLife
    <3>2. SettleOnce(k)'
      BY <2>1 DEF FirstLife, SettleOnce
    <3>3. jobs[<<k, Job(k)>>] \in Ended
      BY <3>1, <3>2, <1>0, <1>1, <1>12 DEF KeyInv, Watched
    <3> QED BY <3>1, <3>3, <1>1 DEF Honoured
  <2> QED BY <2>1, <1>1, <1>2, <1>7, <1>11, CancellingKept
<1> QED BY <1>1, <1>10, <1>11, <1>13, <1>14, <1>15, FollowingKeeps, ServingKeeps DEF KeyInv

-----------------------------------------------------------------------------
(* The QRMI executor. *)

(* task_stop: the job is asked to stop, that fails, or process_tasks waits *)
(* for the resource for ever.                                              *)
LEMMA TaskStopped ==
  ASSUME Types, NEW k \in Keys, NEW d \in Tries, task_stop(<<k, d>>)
  PROVE  /\ up' = up \/ up' = "blocked"
         /\ Fault \/ NoFault
         /\ NoFault /\ up' = "up" => <<k, d>> \in stopped'
         /\ stopped' \in SUBSET Stoppable /\ stopped \subseteq stopped'
         /\ \A u \in Keys, e \in Tries : <<u, e>> \in stopped' => <<u, e>> \in stopped \/ u = k
         /\ sent' \in [Keys -> Seq(Events)] /\ (\A u \in Keys : u # k => sent'[u] = sent[u])
         /\ (Settled(k) => Settled(k)') /\ (NoFault => Terminal(sent'[k]) = Terminal(sent[k]))
         /\ \A e \in Tries : /\ Queued(e) \in Sent(k)' => Queued(e) \in Sent(k)
                             /\ Complete(e) \in Sent(k)' => Complete(e) \in Sent(k)
<1>1. /\ up' = up \/ up' = "blocked"
      /\ \/ NoFault /\ up' = "blocked" /\ stopped' = stopped /\ sent' = sent
         \/ NoFault /\ stopped' = stopped \cup {<<k, d>>} /\ sent' = sent
         \/ Fault /\ stopped' = stopped /\ Send(k, <<Error>>)
  BY DEF task_stop
<1>2. ~(Fault /\ NoFault)
  BY DEF Fault, NoFault, Types
<1>3. stopped \in SUBSET Stoppable /\ <<k, d>> \in Jobs
  BY DEF Types, Jobs
<1>4. /\ stopped' \in SUBSET Stoppable /\ stopped \subseteq stopped'
      /\ \A u \in Keys, e \in Tries : <<u, e>> \in stopped' => <<u, e>> \in stopped \/ u = k
      /\ NoFault /\ up' = "up" => <<k, d>> \in stopped'
  BY <1>1, <1>2, <1>3 DEF Stoppable, Processes
<1>5. CASE NoFault /\ sent' = sent
  BY <1>1, <1>4, <1>5, NoneSent
<1>6. CASE Fault /\ Send(k, <<Error>>)
  <2>1. /\ sent' \in [Keys -> Seq(Events)] /\ (\A u \in Keys : u # k => sent'[u] = sent[u])
        /\ Sent(k)' = Sent(k) \cup {Error} /\ (Settled(k) => Settled(k)')
    BY <1>6, OneSent, EventKinds
  <2> QED BY <2>1, <1>1, <1>2, <1>4, <1>6, EventKinds
<1> QED BY <1>1, <1>5, <1>6

(* A task is registered, or stopped when a request came first. *)
LEMMA QrmiRegisterKeeps ==
  ASSUME ExecutorInv, NEW plan, QrmiRegister(plan) PROVE ExecutorInv'
<1> DEFINE k == plan.key
           t == Task("new", plan)
<1>0. Types
  BY DEF ExecutorInv
<1>1. /\ kind = "qrmi" /\ kind \in Remote /\ NextPlan(plan)
      /\ lock' = lock /\ cancels' = cancels /\ api' = api /\ jobs' = jobs /\ pids' = pids /\ assets' = assets
      /\ stored' = stored /\ lost' = lost /\ setup' = setup /\ restarts' = restarts
      /\ tasks' = [tasks EXCEPT ![k] = t]
  BY DEF QrmiRegister, Remote
<1>2. /\ up = "up" /\ plan \in TaskPlan /\ k \in Keys
      /\ plans' \in Seq(TaskPlan) /\ PlansDistinct' /\ Plans' = {p \in Plans : p.key # k}
      /\ KeyInv(k) /\ Pending(k) /\ k \in held /\ Idle(k) /\ handles[k] # "watching"
      /\ plan.out = tries[k] /\ tries[k] \in Tries /\ plan.job = Job(k) /\ Job(k) \in Tries
  BY <1>1, PlanOf DEF PlanJob
<1>3. \/ /\ handles[k] = "cancelBefore" /\ handles' = [handles EXCEPT ![k] = "none"]
         /\ task_stop(<<k, Job(k)>>)
      \/ /\ handles[k] # "cancelBefore" /\ handles' = [handles EXCEPT ![k] = "watching"]
         /\ NoFault /\ up' = up /\ stopped' = stopped /\ sent' = sent
  BY <1>2 DEF QrmiRegister
<1>4. t \in TaskStates /\ t.phase = "new" /\ t.job = Job(k) /\ t.out = tries[k]
  BY <1>2 DEF Task, TaskPlan, TaskStates, Phases
<1> HIDE DEF k, t
<1>5. /\ up' = up \/ (up' = "blocked" /\ handles[k] = "cancelBefore")
      /\ Fault \/ NoFault
      /\ NoFault /\ up' = "up" /\ handles[k] = "cancelBefore" => <<k, Job(k)>> \in stopped'
      /\ stopped' \in SUBSET Stoppable /\ stopped \subseteq stopped'
      /\ \A u \in Keys, e \in Tries :
           <<u, e>> \in stopped' => <<u, e>> \in stopped \/ (u = k /\ handles[k] = "cancelBefore")
      /\ sent' \in [Keys -> Seq(Events)] /\ (\A u \in Keys : u # k => sent'[u] = sent[u])
      /\ (Settled(k) => Settled(k)') /\ (NoFault => Terminal(sent'[k]) = Terminal(sent[k]))
      /\ \A e \in Tries : /\ Queued(e) \in Sent(k)' => Queued(e) \in Sent(k)
                          /\ Complete(e) \in Sent(k)' => Complete(e) \in Sent(k)
  <2>1. CASE handles[k] = "cancelBefore" /\ task_stop(<<k, Job(k)>>)
    BY <2>1, <1>0, <1>2, TaskStopped
  <2>2. CASE handles[k] # "cancelBefore" /\ NoFault /\ up' = up /\ stopped' = stopped /\ sent' = sent
    BY <2>2, <1>0, <1>2, NoneSent DEF Types
  <2> QED BY <2>1, <2>2, <1>3
<1>6. /\ tasks' \in [Keys -> TaskStates] /\ tasks'[k] = t /\ \A u \in Keys \ {k} : tasks'[u] = tasks[u]
      /\ handles' \in [Keys -> {"none", "watching", "cancelBefore"}]
      /\ \A u \in Keys \ {k} : handles'[u] = handles[u]
      /\ handles'[k] = IF handles[k] = "cancelBefore" THEN "none" ELSE "watching"
  BY <1>0, <1>1, <1>2, <1>3, <1>4, TaskSet
<1>7. handles[k] = "cancelBefore" => cancelled[k] > 0
  BY <1>2 DEF KeyInv, Asked
<1>8. Serving(k)
  BY <1>0, <1>1, <1>2, <1>5, <1>6 DEF Serving, Types, Requests, Single
<1>9. Starting(k)
  BY <1>1, <1>2, <1>4, <1>5, <1>6, <1>7, <1>8 DEF Starting, Idle, Requests
<1>10. SettleOnce(k)' => NoFault
  BY <1>1, <1>2, <1>8, ServingView DEF SettleOnce
<1>11. Settling(k)' /\ Watched(k)'
  BY <1>2, <1>5, <1>9, <1>10, StartingSettles DEF Settled
<1>12. Cancelling(k)'
  <2>1. ASSUME FirstLife' PROVE NoFault /\ Job(k) = tries[k] /\ tries' = tries /\ up' = "up"
    BY <2>1, <1>2, <1>8, ServingView, FirstJob DEF FirstLife
  <2>2. ASSUME FirstLife', handles[k] = "cancelBefore" PROVE Honoured(k)'
    BY <2>1, <2>2, <1>5 DEF Honoured
  <2>3. Requests' = Requests /\ (Single(k) => Single(k)')
    BY <1>1 DEF Requests, Single
  <2> QED BY <2>2, <2>3, <1>2, <1>6, <1>9, StartingCancels
<1>13. up' = up \/ ServiceFailsOnlyOnCancel'
  <2>1. cancelled' = cancelled
    BY <1>1 DEF api
  <2> QED BY <2>1, <1>2, <1>5, <1>7 DEF ServiceFailsOnlyOnCancel
<1> QED BY <1>2, <1>8, <1>9, <1>11, <1>12, <1>13, StartingKeeps, ServingKeeps DEF KeyInv

(* A request stops the watched task or is kept for the one to come. *)
LEMMA QrmiCancelKeeps ==
  ASSUME ExecutorInv, NEW k \in Keys, QrmiCancel(k) PROVE ExecutorInv'
<1>0. Types /\ KeyInv(k) /\ PlansDistinct
  BY DEF ExecutorInv
<1>1. /\ kind = "qrmi" /\ kind \in Remote /\ NextCancel(k)
      /\ tasks' = tasks /\ lock' = lock /\ plans' = plans /\ api' = api /\ pids' = pids /\ jobs' = jobs
      /\ assets' = assets /\ stored' = stored /\ lost' = lost /\ setup' = setup
      /\ restarts' = restarts
  BY DEF QrmiCancel, Remote
<1>2. /\ up = "up" /\ k \in Requests /\ cancels' \in Seq(Keys) /\ Requests = {k} \cup Requests'
      /\ \A u \in Keys : Single(u) => Single(u)'
      /\ cancelled[k] > 0
  BY <1>0, <1>1, CancelTaken DEF KeyInv, Asked
<1>3. handles[k] = "watching" => ~Idle(k) /\ tasks[k].job = Job(k) /\ Job(k) \in Tries
  <2>1. handles[k] = "watching" => ~Idle(k)
    BY <1>0, <1>2 DEF KeyInv, Slot
  <2> QED BY <2>1, <1>1, WatchedJob
<1>4. \/ /\ handles[k] = "watching" /\ handles' = [handles EXCEPT ![k] = "none"]
         /\ task_stop(<<k, Job(k)>>)
      \/ /\ handles[k] # "watching" /\ handles' = [handles EXCEPT ![k] = "cancelBefore"]
         /\ NoFault /\ up' = up /\ stopped' = stopped /\ sent' = sent
  BY <1>3 DEF QrmiCancel
<1>5. /\ up' = up \/ up' = "blocked"
      /\ Fault \/ NoFault
      /\ NoFault /\ up' = "up" /\ handles[k] = "watching" => <<k, Job(k)>> \in stopped'
      /\ stopped' \in SUBSET Stoppable /\ stopped \subseteq stopped'
      /\ \A u \in Keys, e \in Tries : <<u, e>> \in stopped' => <<u, e>> \in stopped \/ u = k
      /\ sent' \in [Keys -> Seq(Events)] /\ (\A u \in Keys : u # k => sent'[u] = sent[u])
      /\ (Settled(k) => Settled(k)') /\ (NoFault => Terminal(sent'[k]) = Terminal(sent[k]))
      /\ \A e \in Tries : /\ Queued(e) \in Sent(k)' => Queued(e) \in Sent(k)
                          /\ Complete(e) \in Sent(k)' => Complete(e) \in Sent(k)
  <2>1. CASE handles[k] = "watching" /\ task_stop(<<k, Job(k)>>)
    BY <2>1, <1>0, <1>3, TaskStopped
  <2>2. CASE handles[k] # "watching" /\ NoFault /\ up' = up /\ stopped' = stopped /\ sent' = sent
    BY <2>2, <1>0, NoneSent DEF Types
  <2> QED BY <2>1, <2>2, <1>4
<1>6. /\ handles' \in [Keys -> {"none", "watching", "cancelBefore"}]
      /\ \A u \in Keys \ {k} : handles'[u] = handles[u]
      /\ handles'[k] = IF handles[k] = "watching" THEN "none" ELSE "cancelBefore"
  BY <1>0, <1>4, TaskSet
<1>7. Serving(k)
  BY <1>0, <1>1, <1>2, <1>5, <1>6 DEF Serving, Types, PlansDistinct, Plans
<1>8. Following(k)
  <2>1. Idle(k)' <=> Idle(k)
    BY <1>1 DEF Idle
  <2>2. lock' = k <=> tasks'[k].phase \in Calling
    BY <1>0, <1>1 DEF KeyInv, Slot
  <2> QED BY <2>1, <2>2, <1>1, <1>2, <1>5, <1>6, <1>7 DEF Following, Idle
<1>9. SettleOnce(k)' => NoFault
  BY <1>1, <1>7, ServingView DEF SettleOnce
<1>10. Settling(k)'
  <2>1. CASE SettleOnce(k)'
    BY <2>1, <1>1, <1>5, <1>8, <1>9, QuietSettling
  <2>2. CASE ~SettleOnce(k)'
    BY <2>2 DEF Settling
  <2> QED BY <2>1, <2>2
<1>11. Watched(k)'
  <2>1. kind' = kind /\ Job(k)' = Job(k) /\ (faults' = 0 => faults = 0)
    BY <1>7, ServingView
  <2> QED BY <2>1, <1>0, <1>1 DEF KeyInv, Watched
<1>12. Cancelling(k)'
  <2>1. ASSUME FirstLife' PROVE NoFault /\ Job(k) = tries[k] /\ tries' = tries /\ up' = "up"
    BY <2>1, <1>0, <1>7, ServingView, FirstJob DEF FirstLife
  <2>2. ASSUME FirstLife', handles[k] = "watching" PROVE Honoured(k)'
    BY <2>1, <2>2, <1>5 DEF Honoured
  <2> QED BY <2>2, <1>1, <1>6, <1>8, RequestServed
<1>13. up' = up \/ ServiceFailsOnlyOnCancel'
  <2>1. cancelled' = cancelled
    BY <1>1 DEF api
  <2> QED BY <2>1, <1>2 DEF ServiceFailsOnlyOnCancel
<1> QED BY <1>7, <1>8, <1>10, <1>11, <1>12, <1>13, FollowingKeeps, ServingKeeps DEF KeyInv

(* From one await of a monitor to the next, nothing or the truth about the *)
(* job is sent.                                                            *)
Telling(k, to) ==
  /\ Fault \/ NoFault
  /\ assets \subseteq assets' /\ assets' \subseteq AssetSpecs
  /\ lock' \in Keys \cup {"free"} /\ (lock' = k <=> to \in Calling)
  /\ \A u \in Keys \ {k} : lock' = u <=> lock = u
  /\ sent' \in [Keys -> Seq(Events)] /\ (\A u \in Keys : u # k => sent'[u] = sent[u])
  /\ Settled(k) => Settled(k)'
  /\ \A d \in Tries :
       /\ Queued(d) \in Sent(k)' => Queued(d) \in Sent(k) \/ d = Job(k)
       /\ Complete(d) \in Sent(k)' => Complete(d) \in Sent(k) \/ Output(k, d) \in assets'
  /\ \/ Terminal(sent'[k]) = Terminal(sent[k])
     \/ to = "done" /\ (~Settled(k) => \A i, j \in Terminal(sent'[k]) : i = j)
  /\ faults' = 0 /\ to \in {"ready", "fetching", "broken", "logging", "done", "failed"} =>
       jobs[<<k, Job(k)>>] \in Ended

(* A step of monitor_task keeps the invariant. *)
LEMMA MonitorKeeps ==
  ASSUME ExecutorInv, NEW k \in Keys, NEW from \in Phases \ {"none", "waiting", "done", "failed"},
         NEW to \in Phases \ {"none", "waiting"}, Monitor(k, from, to), Telling(k, to)
  PROVE  ExecutorInv'
<1>0. Types /\ KeyInv(k) /\ PlansDistinct
  BY DEF ExecutorInv
<1>1. /\ kind = "qrmi" /\ kind \in Remote /\ up = "up" /\ tasks[k].phase = from
      /\ up' = up /\ handles' = handles /\ plans' = plans /\ cancels' = cancels /\ api' = api
      /\ jobs' = jobs /\ pids' = pids /\ stopped' = stopped
      /\ stored' = stored /\ lost' = lost /\ setup' = setup /\ restarts' = restarts
  BY DEF Monitor, Remote
<1>2. ~Idle(k)
  BY <1>1 DEF Idle
<1>3. tasks[k].job = Job(k) /\ tasks[k].out = tries[k]
  BY <1>1, <1>2, WatchedJob
<1>4. /\ tasks' \in [Keys -> TaskStates] /\ \A u \in Keys \ {k} : tasks'[u] = tasks[u]
      /\ tasks'[k].phase = to /\ tasks'[k].job = tasks[k].job /\ tasks'[k].out = tasks[k].out
  <2> DEFINE r == tasks[k].ran \/ (from = "asking" /\ jobs[<<k, tasks[k].job>>] = "running")
             t == [[tasks[k] EXCEPT !.phase = to] EXCEPT !.ran = r]
  <2>1. tasks \in [Keys -> TaskStates]
    BY <1>0 DEF Types
  <2>2. tasks[k] \in [phase : Phases, job : {0} \cup Tries, out : {0} \cup Tries, ran : BOOLEAN]
    BY <2>1 DEF TaskStates
  <2>3. r \in BOOLEAN
    OBVIOUS
  <2>4. tasks' = [tasks EXCEPT ![k].phase = to, ![k].ran = r]
    BY DEF Monitor
  <2> HIDE DEF r
  <2>5. t \in TaskStates /\ t.phase = to /\ t.job = tasks[k].job /\ t.out = tasks[k].out
    BY <2>2, <2>3 DEF TaskStates
  <2>6. tasks' = [tasks EXCEPT ![k] = t]
    BY <2>1, <2>2, <2>4
  <2> HIDE DEF t
  <2> QED BY <2>1, <2>5, <2>6
<1>5. /\ Fault \/ NoFault
      /\ assets \subseteq assets' /\ assets' \subseteq AssetSpecs
      /\ lock' \in Keys \cup {"free"} /\ (lock' = k <=> to \in Calling)
      /\ \A u \in Keys \ {k} : lock' = u <=> lock = u
      /\ sent' \in [Keys -> Seq(Events)] /\ (\A u \in Keys : u # k => sent'[u] = sent[u])
      /\ Settled(k) => Settled(k)'
      /\ \A d \in Tries :
           /\ Queued(d) \in Sent(k)' => Queued(d) \in Sent(k) \/ d = Job(k)
           /\ Complete(d) \in Sent(k)' => Complete(d) \in Sent(k) \/ Output(k, d) \in assets'
  BY DEF Telling
<1>6. Serving(k)
  BY <1>0, <1>1, <1>4, <1>5 DEF Serving, Types, PlansDistinct, Plans, Requests, Single
<1>7. Following(k)
  BY <1>1, <1>2, <1>4, <1>5, <1>6 DEF Following, Idle, Requests
<1>8. Settling(k)'
  <2>1. CASE Terminal(sent'[k]) = Terminal(sent[k])
    BY <2>1, <1>1, <1>7, QuietSettling
  <2>2. CASE to = "done" /\ (~Settled(k) => \A i, j \in Terminal(sent'[k]) : i = j)
    BY <2>2, <1>1, <1>2, <1>4, <1>7, FinalSettling
  <2> QED BY <2>1, <2>2 DEF Telling
<1>9. Watched(k)'
  <2>1. kind' = kind /\ Job(k)' = Job(k)
    BY <1>6, ServingView
  <2> QED BY <2>1, <1>1, <1>4 DEF Watched, Telling
<1>10. Cancelling(k)'
  BY <1>1, <1>7, CancellingKept
<1> QED BY <1>1, <1>6, <1>7, <1>8, <1>9, <1>10, FollowingKeeps, ServingKeeps DEF KeyInv

(* Queued, with the handle, is the first event. *)
LEMMA QrmiQueuedKeeps ==
  ASSUME ExecutorInv, NEW k \in Keys, QrmiQueued(k) PROVE ExecutorInv'
<1>0. Types /\ KeyInv(k)
  BY DEF ExecutorInv
<1>1. /\ Send(k, <<Queued(tasks[k].job)>>) /\ NoFault /\ lock' = lock /\ assets' = assets
      /\ Monitor(k, "new", "idle") /\ kind = "qrmi" /\ kind \in Remote /\ tasks[k].phase = "new"
  BY DEF QrmiQueued, Monitor, Remote
<1>2. ~Idle(k) /\ lock # k
  BY <1>0, <1>1 DEF KeyInv, Slot, Idle, Calling
<1>3. tasks[k].job = Job(k) /\ Job(k) \in Tries
  BY <1>1, <1>2, WatchedJob
<1>4. /\ sent' \in [Keys -> Seq(Events)] /\ (\A u \in Keys : u # k => sent'[u] = sent[u])
      /\ Sent(k)' = Sent(k) \cup {Queued(Job(k))} /\ (Settled(k) => Settled(k)')
      /\ Terminal(sent'[k]) = Terminal(sent[k])
  BY <1>0, <1>1, <1>3, OneSent, EventKinds
<1>5. \A d \in Tries : /\ Queued(d) \in Sent(k)' => Queued(d) \in Sent(k) \/ d = Job(k)
                       /\ Complete(d) \in Sent(k)' => Complete(d) \in Sent(k)
  BY <1>3, <1>4, EventKinds
<1>6. Telling(k, "idle")
  BY <1>0, <1>1, <1>2, <1>4, <1>5 DEF Telling, Types, Calling
<1> QED BY <1>1, <1>6, MonitorKeeps DEF Phases

(* Nothing is sent, and the resource is taken or given back. *)
LEMMA QuietTelling ==
  ASSUME Types, NEW k \in Keys, NEW to, Fault \/ NoFault, sent' = sent \/ Send(k, <<>>), assets' = assets,
         (lock = "free" /\ lock' = k /\ to \in Calling) \/ (lock = k /\ lock' = "free" /\ to \notin Calling),
         to \in {"idle", "asking"} \/ Fault \/ (faults' = 0 => jobs[<<k, Job(k)>>] \in Ended)
  PROVE  Telling(k, to)
<1>1. /\ sent' \in [Keys -> Seq(Events)] /\ (\A u \in Keys : u # k => sent'[u] = sent[u])
      /\ Sent(k)' = Sent(k) /\ (Settled(k)' <=> Settled(k))
      /\ Terminal(sent'[k]) = Terminal(sent[k])
  BY NoneSent
<1>2. "free" \notin Keys
  BY ExecutorAssumption
<1>3. Fault => faults' # 0
  BY Mishaps
<1> QED BY <1>1, <1>2, <1>3 DEF Telling, Types

(* resource.lock().await *)
LEMMA QrmiAskKeeps ==
  ASSUME ExecutorInv, NEW k \in Keys, QrmiAsk(k) PROVE ExecutorInv'
<1>0. Types /\ KeyInv(k)
  BY DEF ExecutorInv
<1>1. lock = "free" /\ lock' = k /\ NoFault /\ sent' = sent /\ assets' = assets
  BY DEF QrmiAsk
<1>2. CASE Monitor(k, "idle", "asking")
  <2>1. Telling(k, "asking")
    BY <1>0, <1>1, QuietTelling DEF Calling
  <2> QED BY <2>1, <1>2, MonitorKeeps DEF Phases
<1>3. faults' = 0 /\ kind = "qrmi" /\ tasks[k].phase \in {"ready", "broken"} => jobs[<<k, Job(k)>>] \in Ended
  BY <1>0, <1>1 DEF KeyInv, Watched, NoFault
<1>4. CASE Monitor(k, "ready", "fetching")
  <2>1. kind = "qrmi" /\ tasks[k].phase = "ready"
    BY <1>4 DEF Monitor
  <2>2. Telling(k, "fetching")
    BY <2>1, <1>0, <1>1, <1>3, QuietTelling DEF Calling
  <2> QED BY <2>2, <1>4, MonitorKeeps DEF Phases
<1>5. CASE Monitor(k, "broken", "logging")
  <2>1. kind = "qrmi" /\ tasks[k].phase = "broken"
    BY <1>5 DEF Monitor
  <2>2. Telling(k, "logging")
    BY <2>1, <1>0, <1>1, <1>3, QuietTelling DEF Calling
  <2> QED BY <2>2, <1>5, MonitorKeeps DEF Phases
<1> QED BY <1>2, <1>4, <1>5 DEF QrmiAsk

(* One event is sent, and the resource is given back. *)
LEMMA EventTelling ==
  ASSUME Types, NEW k \in Keys, NEW to \in {"idle", "done"}, NoFault, lock = k, lock' = "free",
         NEW e \in Events, Send(k, <<e>>), e[1] \in Ended => to = "done",
         \A d \in Tries : Queued(d) # e /\ (Complete(d) = e => Output(k, d) \in assets'),
         assets \subseteq assets', assets' \subseteq AssetSpecs,
         to = "done" /\ faults' = 0 => jobs[<<k, Job(k)>>] \in Ended
  PROVE  Telling(k, to)
<1>1. /\ sent' \in [Keys -> Seq(Events)] /\ (\A u \in Keys : u # k => sent'[u] = sent[u])
      /\ Sent(k)' = Sent(k) \cup {e} /\ (Settled(k) => Settled(k)')
      /\ e[1] \notin Ended => Terminal(sent'[k]) = Terminal(sent[k])
      /\ ~Settled(k) => \A i, j \in Terminal(sent'[k]) : i = j
  BY OneSent
<1>2. "free" \notin Keys
  BY ExecutorAssumption
<1>3. \A d \in Tries :
        /\ Queued(d) \in Sent(k)' => Queued(d) \in Sent(k)
        /\ Complete(d) \in Sent(k)' => Complete(d) \in Sent(k) \/ Output(k, d) \in assets'
  BY <1>1
<1> QED BY <1>1, <1>2, <1>3 DEF Telling, Calling

(* task_status *)
LEMMA QrmiAnswerKeeps ==
  ASSUME ExecutorInv, NEW k \in Keys, QrmiAnswer(k) PROVE ExecutorInv'
<1> DEFINE status == jobs[<<k, tasks[k].job>>]
<1>0. Types /\ KeyInv(k)
  BY DEF ExecutorInv
<1>1. /\ lock = k /\ lock' = "free" /\ assets' = assets
      /\ kind = "qrmi" /\ kind \in Remote /\ tasks[k].phase = "asking"
  BY DEF QrmiAnswer, Monitor, Remote
<1>2. tasks[k].job = Job(k)
  BY <1>1, WatchedJob DEF Idle
<1>3. CASE NoFault /\ status = "queued" /\ sent' = sent /\ Monitor(k, "asking", "idle")
  <2>1. Telling(k, "idle")
    BY <1>0, <1>1, <1>3, QuietTelling DEF Calling
  <2> QED BY <2>1, <1>3, MonitorKeeps DEF Phases
<1>4. CASE /\ NoFault /\ Monitor(k, "asking", "idle")
           /\ Send(k, <<>>) \/ Send(k, <<Running>>)
  <2>1. CASE Send(k, <<>>)
    <3>1. Telling(k, "idle")
      BY <2>1, <1>0, <1>1, <1>4, QuietTelling DEF Calling
    <3> QED BY <3>1, <1>4, MonitorKeeps DEF Phases
  <2>2. CASE Send(k, <<Running>>)
    <3>1. Telling(k, "idle")
      BY <2>2, <1>0, <1>1, <1>4, EventTelling, EventKinds DEF Types
    <3> QED BY <3>1, <1>4, MonitorKeeps DEF Phases
  <2> QED BY <2>1, <2>2, <1>4
<1>5. CASE NoFault /\ status = "complete" /\ sent' = sent /\ Monitor(k, "asking", "ready")
  <2>1. Telling(k, "ready")
    BY <1>0, <1>1, <1>2, <1>5, QuietTelling DEF Calling, Ended
  <2> QED BY <2>1, <1>5, MonitorKeeps DEF Phases
<1>6. CASE NoFault /\ status = "cancelled" /\ Send(k, <<Cancelled>>) /\ Monitor(k, "asking", "done")
  <2>1. Cancelled \in Events /\ \A d \in Tries : Queued(d) # Cancelled /\ Complete(d) # Cancelled
    BY EventKinds
  <2>2. jobs[<<k, Job(k)>>] \in Ended /\ assets \subseteq AssetSpecs
    BY <1>0, <1>2, <1>6 DEF Ended, Types
  <2>3. Telling(k, "done")
    BY <2>1, <2>2, <1>0, <1>1, <1>6, EventTelling
  <2> QED BY <2>3, <1>6, MonitorKeeps DEF Phases
<1>7. CASE NoFault /\ status = "error" /\ sent' = sent /\ Monitor(k, "asking", "broken")
  <2>1. Telling(k, "broken")
    BY <1>0, <1>1, <1>2, <1>7, QuietTelling DEF Calling, Ended
  <2> QED BY <2>1, <1>7, MonitorKeeps DEF Phases
<1>8. CASE Fault /\ sent' = sent /\ Monitor(k, "asking", "failed")
  <2>1. Telling(k, "failed")
    BY <1>0, <1>1, <1>8, QuietTelling DEF Calling
  <2> QED BY <2>1, <1>8, MonitorKeeps DEF Phases
<1> QED BY <1>3, <1>4, <1>5, <1>6, <1>7, <1>8 DEF QrmiAnswer

(* task_result: the result is saved before it is reported. *)
LEMMA QrmiResultKeeps ==
  ASSUME ExecutorInv, NEW k \in Keys, QrmiResult(k) PROVE ExecutorInv'
<1>0. Types /\ KeyInv(k)
  BY DEF ExecutorInv
<1>1. /\ lock = k /\ lock' = "free"
      /\ kind = "qrmi" /\ kind \in Remote /\ tasks[k].phase = "fetching"
  BY DEF QrmiResult, Monitor, Remote
<1>2. tasks[k].out = tries[k] /\ tries[k] \in Tries
  BY <1>1, WatchedJob DEF Idle
<1>3. faults = 0 => jobs[<<k, Job(k)>>] \in Ended
  BY <1>0, <1>1 DEF KeyInv, Watched
<1>4. CASE /\ NoFault /\ assets' = save_assets({Output(k, tasks[k].out)})
           /\ Send(k, <<Complete(tasks[k].out)>>) /\ Monitor(k, "fetching", "done")
  <2>1. assets \subseteq assets' /\ assets' \subseteq AssetSpecs /\ Output(k, tries[k]) \in assets'
    BY <1>0, <1>2, <1>4, AssetsTyped DEF save_assets, storage_save, Types
  <2> DEFINE e == Complete(tries[k])
  <2>2. /\ e \in Events
        /\ \A d \in Tries : Queued(d) # e /\ (Complete(d) = e => Output(k, d) \in assets')
    BY <2>1, <1>2, EventKinds
  <2>3. Send(k, <<e>>) /\ (faults' = 0 => jobs[<<k, Job(k)>>] \in Ended)
    BY <1>2, <1>3, <1>4 DEF NoFault
  <2> HIDE DEF e
  <2>4. Telling(k, "done")
    BY <2>1, <2>2, <2>3, <1>0, <1>1, <1>4, EventTelling
  <2> QED BY <2>4, <1>4, MonitorKeeps DEF Phases
<1>5. CASE Fault /\ sent' = sent /\ assets' = assets /\ Monitor(k, "fetching", "failed")
  <2>1. Telling(k, "failed")
    BY <1>0, <1>1, <1>5, QuietTelling DEF Calling
  <2> QED BY <2>1, <1>5, MonitorKeeps DEF Phases
<1> QED BY <1>4, <1>5 DEF QrmiResult

(* task_logs *)
LEMMA QrmiLogsKeeps ==
  ASSUME ExecutorInv, NEW k \in Keys, QrmiLogs(k) PROVE ExecutorInv'
<1>0. Types /\ KeyInv(k)
  BY DEF ExecutorInv
<1>1. /\ lock = k /\ lock' = "free" /\ NoFault /\ sent' = sent /\ assets' = assets
      /\ Monitor(k, "logging", "failed") /\ kind = "qrmi" /\ tasks[k].phase = "logging"
  BY DEF QrmiLogs, Monitor
<1>2. faults' = 0 => jobs[<<k, Job(k)>>] \in Ended
  BY <1>0, <1>1 DEF KeyInv, Watched, NoFault
<1>3. Telling(k, "failed")
  BY <1>0, <1>1, <1>2, QuietTelling DEF Calling
<1> QED BY <1>1, <1>3, MonitorKeeps DEF Phases

(* The end of the monitor future: an Error, if it failed. *)
LEMMA QrmiFinishKeeps ==
  ASSUME ExecutorInv, NEW k \in Keys, QrmiFinish(k) PROVE ExecutorInv'
<1>0. Types /\ KeyInv(k) /\ PlansDistinct
  BY DEF ExecutorInv
<1>1. /\ kind = "qrmi" /\ kind \in Remote /\ up = "up" /\ tasks[k].phase \in {"done", "failed"}
      /\ up' = up /\ lock' = lock /\ plans' = plans /\ cancels' = cancels /\ api' = api
      /\ jobs' = jobs /\ pids' = pids /\ stopped' = stopped /\ assets' = assets
      /\ stored' = stored /\ lost' = lost /\ setup' = setup /\ restarts' = restarts /\ NoFault
      /\ handles' = [handles EXCEPT ![k] = "none"] /\ tasks' = [tasks EXCEPT ![k] = NoTask]
      /\ \/ tasks[k].phase = "failed" /\ Send(k, <<Error>>)
         \/ tasks[k].phase = "done" /\ Send(k, <<>>)
  BY DEF QrmiFinish, Failed, Remote, outside, budget, NoFault
<1>2. ~Idle(k) /\ lock # k
  BY <1>0, <1>1 DEF KeyInv, Slot, Idle, Calling
<1>3. /\ tasks' \in [Keys -> TaskStates] /\ tasks'[k].phase = "none" /\ Idle(k)'
      /\ \A u \in Keys \ {k} : tasks'[u] = tasks[u]
      /\ handles' \in [Keys -> {"none", "watching", "cancelBefore"}] /\ handles'[k] = "none"
      /\ \A u \in Keys \ {k} : handles'[u] = handles[u]
  BY <1>0, <1>1, TaskSet DEF Idle
<1>4. /\ sent' \in [Keys -> Seq(Events)] /\ (\A u \in Keys : u # k => sent'[u] = sent[u])
      /\ Settled(k) => Settled(k)'
      /\ tasks[k].phase = "done" => Terminal(sent'[k]) = Terminal(sent[k])
      /\ tasks[k].phase = "failed" /\ ~Settled(k) => \A i, j \in Terminal(sent'[k]) : i = j
      /\ \A d \in Tries : /\ Queued(d) \in Sent(k)' => Queued(d) \in Sent(k)
                          /\ Complete(d) \in Sent(k)' => Complete(d) \in Sent(k)
  <2>1. CASE tasks[k].phase = "failed" /\ Send(k, <<Error>>)
    <3>1. /\ sent' \in [Keys -> Seq(Events)] /\ (\A u \in Keys : u # k => sent'[u] = sent[u])
          /\ Sent(k)' = Sent(k) \cup {Error} /\ (Settled(k) => Settled(k)')
          /\ ~Settled(k) => \A i, j \in Terminal(sent'[k]) : i = j
      BY <2>1, <1>0, OneSent, EventKinds
    <3> QED BY <3>1, <2>1, EventKinds
  <2>2. CASE tasks[k].phase = "done" /\ Send(k, <<>>)
    BY <2>2, <1>0, NoneSent
  <2> QED BY <2>1, <2>2, <1>1
<1>5. Serving(k)
  BY <1>0, <1>1, <1>3, <1>4 DEF Serving, Types, PlansDistinct, Plans, Requests, Single
<1>6. Following(k)
  BY <1>1, <1>2, <1>3, <1>4, <1>5 DEF Following, Idle, Calling, Requests
<1>7. Settling(k)'
  <2>1. CASE tasks[k].phase = "done"
    BY <2>1, <1>1, <1>3, <1>4, <1>6, QuietSettling
  <2>2. CASE tasks[k].phase = "failed"
    BY <2>2, <1>2, <1>3, <1>4, <1>6, FinalSettling
  <2> QED BY <2>1, <2>2, <1>1
<1>8. Watched(k)'
  BY <1>3, <1>5, <1>1, ServingView DEF Watched
<1>9. Cancelling(k)'
  <2>1. ASSUME FirstLife' PROVE Honoured(k)'
    <3>1. Job(k) = tries[k] /\ tries' = tries /\ faults = 0
      BY <2>1, <1>0, <1>5, ServingView, FirstJob DEF FirstLife
    <3>2. jobs[<<k, Job(k)>>] \in Ended
      BY <3>1, <1>0, <1>1 DEF KeyInv, Watched
    <3> QED BY <3>1, <3>2, <1>1 DEF Honoured
  <2> QED BY <2>1, <1>1, <1>2, <1>3, <1>6, CancellingKept
<1> QED BY <1>1, <1>5, <1>6, <1>7, <1>8, <1>9, FollowingKeeps, ServingKeeps DEF KeyInv

-----------------------------------------------------------------------------
(* The invariant holds when the executor is started. *)
LEMMA InitHolds == Init => ExecutorInv
<1> SUFFICES ASSUME Init PROVE ExecutorInv
  OBVIOUS
<1>1. PICK s \in Setups :
        kind = s.kind /\ os = s.os /\ load = s.load /\ mishaps = s.mishaps /\ storage = s.storage
  BY DEF Init
<1>2. /\ kind \in Kinds /\ os \in Platforms /\ load \in SUBSET Keys /\ mishaps \in Nat /\ storage \in Storages
      /\ MaxRestarts \in Nat
  BY <1>1, ExecutorAssumption
<1>3. /\ assets = {Input(k) : k \in load}
      /\ up = "up" /\ caller = "up" /\ lock = "free"
      /\ handles = [k \in Keys |-> "none"] /\ tasks = [k \in Keys |-> NoTask]
      /\ plans = <<>> /\ cancels = <<>>
      /\ tries = [k \in Keys |-> 0] /\ held = {} /\ cancelled = [k \in Keys |-> 0]
      /\ jobs = [j \in Processes |-> "none"] /\ pids = [j \in Processes |-> 0]
      /\ stopped = {} /\ lost = {}
      /\ sent = [k \in Keys |-> <<>>] /\ stored = [k \in Keys |-> 0]
      /\ faults = 0 /\ restarts = 0
  BY DEF Init
<1>4. plans \in Seq(TaskPlan) /\ cancels \in Seq(Keys) /\ <<>> \in Seq(Events)
      /\ Plans = {} /\ Requests = {} /\ PlansDistinct
  BY <1>3, EmptySeq DEF Plans, Requests, Elems, PlansDistinct
<1>5. assets \in SUBSET AssetSpecs
  <2>1. storage.input \in DOMAIN Registry /\ 0 \in 0 .. (MaxRestarts + 1)
    BY <1>2 DEF Storages
  <2> QED BY <2>1, <1>2, <1>3 DEF Input, AssetSpec, AssetKey, AssetSpecs
<1>6. NoTask \in TaskStates
  BY DEF NoTask, TaskStates, Phases
<1>7. Types
  BY <1>2, <1>3, <1>4, <1>5, <1>6 DEF Types
<1>8. ServiceFailsOnlyOnCancel
  BY <1>3 DEF ServiceFailsOnlyOnCancel
<1>9. ASSUME NEW k \in Keys PROVE KeyInv(k)
  <2>1. /\ tries[k] = 0 /\ cancelled[k] = 0 /\ stored[k] = 0 /\ sent[k] = <<>> /\ handles[k] = "none"
        /\ tasks[k].phase = "none" /\ Idle(k) /\ k \notin held
    BY <1>3 DEF NoTask, Idle
  <2>2. ~Pending(k) /\ k \notin Requests /\ Sent(k) = {} /\ Terminal(sent[k]) = {} /\ ~Settled(k)
    BY <2>1, <1>4, EmptySeq DEF Pending, Sent, Elems, Terminal, Settled
  <2>3. \A d \in Tries : jobs[<<k, d>>] = "none"
    BY <1>3 DEF Processes, Jobs
  <2>4. Abroad(k) = {}
    BY <2>3 DEF Abroad, Live
  <2>5. Tried(k)
    BY <2>1, <2>2, <1>3 DEF Tried
  <2>6. Slot(k)
    <3>1. k # "free"
      BY ExecutorAssumption
    <3> QED BY <3>1, <2>1, <2>2, <1>3, <1>4 DEF Slot, Calling
  <2>7. Created(k) /\ Asked(k)
    BY <2>1, <2>2, <2>3, <1>3 DEF Created, Asked
  <2>8. Accounted(k)
    BY <2>4 DEF Accounted
  <2>9. Written(k)
    BY <2>2, <2>3 DEF Written
  <2>10. Settling(k)
    BY <2>1, <2>2 DEF Settling
  <2>11. Watched(k)
    BY <2>1 DEF Watched
  <2>12. Cancelling(k)
    <3>1. Single(k)
      BY <1>3, EmptySeq DEF Single
    <3> QED BY <3>1, <2>1, <2>2 DEF Cancelling
  <2> QED BY <2>5, <2>6, <2>7, <2>8, <2>9, <2>10, <2>11, <2>12 DEF KeyInv
<1> QED BY <1>4, <1>7, <1>8, <1>9 DEF ExecutorInv

(* Every step keeps it, one that changes nothing included. *)
LEMMA NextKeeps ==
  ASSUME ExecutorInv, [Next]_vars PROVE ExecutorInv'
<1>1. CASE \E k \in Keys : Cancel(k)
  BY <1>1, CancelKeeps
<1>2. CASE \E j \in Jobs : JobStep(j)
  BY <1>2, JobStepKeeps
<1>3. CASE Restart
  BY <1>3, RestartKeeps
<1>4. CASE InMemoryNext
  BY <1>4, InMemoryExecuteKeeps, InMemoryCancelKeeps, InMemoryFinishKeeps, InMemoryStartKeeps DEF InMemoryNext
<1>5. CASE SubprocessNext
  BY <1>5, ForeignStartKeeps, SubprocessExecuteKeeps, SubprocessCancelKeeps, SubprocessFinishKeeps,
     SubprocessStartKeeps DEF SubprocessNext
<1>6. CASE HpcNext
  BY <1>6, HpcExecuteKeeps, HpcPollKeeps, RemoteCancelKeeps, HpcMonitorKeeps DEF HpcNext
<1>7. CASE NexusNext
  BY <1>7, NexusExecuteKeeps, NexusListenKeeps, NexusFinishKeeps, RemoteCancelKeeps, NexusMonitorKeeps DEF NexusNext
<1>8. CASE QrmiNext
  BY <1>8, QrmiExecuteKeeps, QrmiCancelKeeps, QrmiQueuedKeeps, QrmiAskKeeps, QrmiAnswerKeeps,
     QrmiResultKeeps, QrmiLogsKeeps, QrmiFinishKeeps, QrmiRegisterKeeps DEF QrmiNext
<1>9. CASE UNCHANGED vars
  <2>1. /\ up' = up /\ handles' = handles /\ tasks' = tasks /\ lock' = lock /\ plans' = plans
        /\ cancels' = cancels /\ caller' = caller /\ tries' = tries /\ held' = held
        /\ cancelled' = cancelled /\ jobs' = jobs /\ pids' = pids /\ assets' = assets
        /\ stopped' = stopped /\ sent' = sent /\ stored' = stored /\ lost' = lost /\ kind' = kind
        /\ os' = os /\ load' = load /\ storage' = storage /\ mishaps' = mishaps /\ faults' = faults
        /\ restarts' = restarts
    BY <1>9 DEF vars, service, api, outside, record, setup, budget
  <2>2. Types /\ PlansDistinct /\ ServiceFailsOnlyOnCancel
    BY DEF ExecutorInv
  <2>3. Types' /\ PlansDistinct' /\ ServiceFailsOnlyOnCancel'
    BY <2>1, <2>2, ServiceKept DEF Types, PlansDistinct, Stoppable, ByPidAlone
  <2>4. Meanwhile
    BY <2>1, <2>2 DEF Meanwhile, Types
  <2>5. ASSUME NEW u \in Keys PROVE Same(u)
    BY <2>1 DEF Same, Plans, Requests, Single
  <2> QED BY <2>2, <2>3, <2>4, <2>5, Frame DEF ExecutorInv
<1> QED BY <1>1, <1>2, <1>3, <1>4, <1>5, <1>6, <1>7, <1>8, <1>9 DEF Next

(* The invariant of all executors, through every interleaving, failure     *)
(* and restart.                                                            *)
LEMMA ExecutorInvHolds == Spec => []ExecutorInv
<1>1. Init => ExecutorInv
  BY InitHolds
<1>2. ExecutorInv /\ [Next]_vars => ExecutorInv'
  BY NextKeeps
<1> QED BY <1>1, <1>2, PTL DEF Spec

-----------------------------------------------------------------------------
(* The variables of the executors keep their types, a registration is of a *)
(* task with a job, and the QRMI resource is held during a call only.      *)
THEOREM ExecutorsTypeCorrect == Spec => []TypeOK
<1>1. ASSUME ExecutorInv PROVE TypeOK
  <2>1. Types /\ \A k \in Keys : KeyInv(k)
    BY <1>1 DEF ExecutorInv
  <2>2. /\ kind \in Kinds
        /\ up \in {"up", "dead", "blocked"} /\ caller \in {"up", "dead"}
        /\ handles \in [Keys -> {"none", "watching", "cancelBefore"}]
        /\ lock \in Keys \cup {"free"}
        /\ jobs \in [Processes -> {"none"} \cup Live \cup Ended]
        /\ pids \in [Processes -> {0} \cup Pids]
        /\ assets \subseteq (DOMAIN Registry) \X (Keys \X (0 .. (MaxRestarts + 1)) \X {"in", "out"})
        /\ stopped \subseteq Processes /\ lost \subseteq Jobs /\ held \subseteq Keys
    BY <2>1 DEF Types, AssetSpecs, Processes, Stoppable
  <2>3. ASSUME NEW k \in Keys PROVE tasks[k].job \in {0} \cup Tries /\ tasks[k].out \in {0} \cup Tries
    <3>1. tasks[k] \in [phase : Phases, job : {0} \cup Tries, out : {0} \cup Tries, ran : BOOLEAN]
      BY <2>1 DEF Types, TaskStates
    <3> QED BY <3>1
  <2>4. ASSUME NEW k \in Keys, handles[k] = "watching", up = "up"
        PROVE  tasks[k].phase # "none" /\ tasks[k].job # 0
    <3>1. ~Idle(k) /\ k \in held /\ tasks[k].job = Job(k)
      BY <2>1, <2>4 DEF KeyInv, Slot
    <3>2. Job(k) \in Tries
      BY <3>1, <2>1, TriesInRange DEF KeyInv
    <3> QED BY <3>1, <3>2, TriesCounted DEF Idle
  <2>5. \A k \in Keys : lock = k <=> tasks[k].phase \in {"asking", "fetching", "logging"}
    BY <2>1 DEF KeyInv, Slot, Calling
  <2>6. tries \in [Keys -> 0 .. (MaxRestarts + 1)]
    <3>1. \A k \in Keys : tries[k] \in 0 .. (MaxRestarts + 1)
      BY <2>1, TriesInRange DEF KeyInv
    <3> QED BY <3>1, <2>1 DEF Types
  <2> QED BY <2>2, <2>3, <2>4, <2>5, <2>6 DEF TypeOK
<1> QED BY <1>1, ExecutorInvHolds, PTL

(* A job is asked to stop only for a request to cancel its own task, or    *)
(* because its own task is executed again: for any number of tasks,        *)
(* restarts, processes and process ids, and on every platform for remote   *)
(* jobs and in-memory tasks.  Worker processes have this protection on     *)
(* Linux; elsewhere only as long as the process has not been restarted     *)
(* (ByPidAlone).                                                           *)
THEOREM OnlyOwnJobsAreStopped == Spec => []StopsOnlyOwn
<1>1. ASSUME ExecutorInv PROVE StopsOnlyOwn
  <2> SUFFICES ASSUME NEW j \in stopped, ~ByPidAlone
               PROVE  j # Foreign /\ (cancelled[j[1]] > 0 \/ j[2] < tries[j[1]])
    BY DEF StopsOnlyOwn
  <2>1. Types /\ \A k \in Keys : Asked(k)
    BY <1>1 DEF ExecutorInv, KeyInv
  <2>2. PICK k \in Keys, d \in Tries : j = <<k, d>>
    BY <2>1 DEF Types, Stoppable, Jobs
  <2>3. cancelled[k] > 0 \/ d < tries[k]
    BY <2>1, <2>2 DEF Asked
  <2>4. k # "another program"
    BY ExecutorAssumption
  <2> QED BY <2>2, <2>3, <2>4 DEF Foreign
<1> QED BY <1>1, ExecutorInvHolds, PTL

(* process_tasks ends or waits for ever only after a request to cancel, a  *)
(* panic of a builtin, or a restart of the subprocess executor.            *)
THEOREM ServiceOutlivesTasks == Spec => []ServiceFailsOnlyOnCancel
<1>1. ExecutorInv => ServiceFailsOnlyOnCancel
  BY DEF ExecutorInv
<1> QED BY <1>1, ExecutorInvHolds, PTL

(* What is reported complete has been written, for every executor and      *)
(* every pair of storages.                                                 *)
THEOREM CompleteOutputsExist == Spec => []CompleteIsWritten
<1>1. ASSUME ExecutorInv PROVE CompleteIsWritten
  <2> SUFFICES ASSUME NEW j \in Completed
               PROVE  \/ Output(j[1], j[2]) \in assets
                      \/ restarts > 0 /\ kind \in Schedulers /\ storage.work = storage.output
                      \/ restarts > 0 /\ ~path(Output(j[1], j[2]))
    BY DEF CompleteIsWritten
  <2>1. PICK k \in Keys, d \in Tries : j = <<k, d>> /\ Complete(d) \in Sent(k)
    BY DEF Completed, Jobs, Sent, Elems
  <2>2. Written(k)
    BY <1>1 DEF ExecutorInv, KeyInv
  <2> QED BY <2>1, <2>2 DEF Written
<1> QED BY <1>1, ExecutorInvHolds, PTL

(* A set all of whose elements are equal has one at most. *)
LEMMA AtMostOne ==
  ASSUME NEW S, \A x, y \in S : x = y
  PROVE  Cardinality(S) <= 1
<1>1. CASE S = {}
  BY <1>1, FS_EmptySet
<1>2. CASE S # {}
  <2>1. PICK x \in S : S = {x}
    BY <1>2
  <2> QED BY <2>1, FS_Singleton
<1> QED BY <1>1, <1>2

(* At most one live job works on a task, across cancels and restarts,      *)
(* unless its handle was lost with the process.                            *)
THEOREM OneJobPerTask == Spec => []OneLiveJob
<1>1. ASSUME ExecutorInv PROVE OneLiveJob
  <2>1. ASSUME NEW k \in Keys
        PROVE  Cardinality({d \in Tries : jobs[<<k, d>>] \in Live /\ <<k, d>> \notin stopped \cup lost}) <= 1
    <3>1. \A d, e \in Abroad(k) : d = e
      BY <1>1 DEF ExecutorInv, KeyInv, Accounted
    <3>2. Cardinality(Abroad(k)) <= 1
      BY <3>1, AtMostOne
    <3> QED BY <3>2 DEF Abroad
  <2> QED BY <2>1 DEF OneLiveJob
<1> QED BY <1>1, ExecutorInvHolds, PTL

(* A task is settled by one event, as long as no call fails (remote        *)
(* executors) or nobody cancels it (local ones).                           *)
THEOREM TasksSettleOnce == Spec => []SettlesOnce
<1>1. ASSUME ExecutorInv PROVE SettlesOnce
  <2>1. ASSUME NEW k \in Keys, SettleOnce(k) PROVE Cardinality(Terminal(sent[k])) <= 1
    <3>1. \A i, j \in Terminal(sent[k]) : i = j
      BY <1>1, <2>1 DEF ExecutorInv, KeyInv, Settling
    <3> QED BY <3>1, AtMostOne
  <2> QED BY <2>1 DEF SettlesOnce, SettleOnce
<1> QED BY <1>1, ExecutorInvHolds, PTL

(* In the first lifetime of a remote executor a request to cancel stops    *)
(* the job, in whatever order it and the task reach process_tasks.         *)
THEOREM CancelsAreHonoured == Spec => []CancelHonoured
<1>1. ASSUME ExecutorInv PROVE CancelHonoured
  <2> SUFFICES ASSUME NEW k \in Keys, kind \in Remote, restarts = 0, faults = 0, Seen(k),
                      IF kind = "qrmi" THEN cancelled[k] > 0 ELSE cancelled[k] = 1
               PROVE  <<k, tries[k]>> \in stopped \/ jobs[<<k, tries[k]>>] \in Ended
    BY DEF CancelHonoured
  <2>1. Cancelling(k)
    BY <1>1 DEF ExecutorInv, KeyInv
  <2>2. k \in held /\ up = "up" /\ caller = "up" /\ ~Pending(k) /\ k \notin Requests
    BY DEF Seen, Pending, Plans, Requests, Elems
  <2>3. FirstLife
    BY <2>2 DEF FirstLife
  <2> QED BY <2>1, <2>2, <2>3 DEF Cancelling, Honoured
<1> QED BY <1>1, ExecutorInvHolds, PTL

-----------------------------------------------------------------------------
(* execute() fails for a reason.  Steps that execute nothing leave the     *)
(* callers as they are, and what ended badly stays so.                     *)
Going ==
  /\ caller' = caller /\ held' = held /\ tries' = tries /\ stored' = stored
  /\ restarts' = restarts /\ kind' = kind /\ os' = os /\ load' = load /\ storage' = storage
  /\ (faults' = 0 => faults = 0) /\ (up' # "dead" => up # "dead")
  /\ \A k \in Keys, d \in Tries :
       jobs[<<k, d>>] \in {"error", "cancelled"} => jobs'[<<k, d>>] = jobs[<<k, d>>]
  /\ assets \subseteq assets'
  /\ \A name \in DOMAIN Registry, k \in Keys, d \in Tries :
       <<name, <<k, d, "out">>>> \in assets' => <<name, <<k, d, "out">>>> \in assets \/ d <= tries[k]

(* Such steps keep what execute() needs. *)
LEMMA GoingKeeps ==
  ASSUME Types, SupplyInv, Going PROVE SupplyInv'
<1>1. PathsForWorkers' /\ OutputsFresh'
  BY DEF Going, SupplyInv, PathsForWorkers, WritesItself, OutputsFresh
<1>2. \A k \in Keys : Input(k)' = Input(k) /\ (path(Input(k))' <=> path(Input(k)))
  BY DEF Going, Input, AssetSpec, AssetKey, path, StorageOf
<1>3. InputsKept'
  BY <1>2 DEF Going, SupplyInv, InputsKept, Types
<1>4. ExecuteSucceeds'
  <2> SUFFICES ASSUME faults' = 0, up' # "dead", caller' = "dead"
               PROVE  /\ restarts > 0
                      /\ \E k \in held' :
                           \/ kind \in Schedulers /\ stored[k] # 0 /\ jobs'[<<k, stored[k]>>] \in {"error", "cancelled"}
                           \/ kind # "inmemory" /\ ~path(Input(k))'
    BY DEF Going, ExecuteSucceeds
  <2>1. PICK k \in held :
          /\ restarts > 0
          /\ \/ kind \in Schedulers /\ stored[k] # 0 /\ jobs[<<k, stored[k]>>] \in {"error", "cancelled"}
             \/ kind # "inmemory" /\ ~path(Input(k))
    BY DEF Going, SupplyInv, ExecuteSucceeds
  <2>2. k \in Keys /\ (stored[k] # 0 => stored[k] \in Tries) /\ k \in held'
    BY DEF Types, Going
  <2>3. stored[k] # 0 /\ jobs[<<k, stored[k]>>] \in {"error", "cancelled"} =>
          jobs'[<<k, stored[k]>>] \in {"error", "cancelled"}
    BY <2>2 DEF Going
  <2> QED BY <2>1, <2>2, <2>3, <1>2
<1> QED BY <1>1, <1>3, <1>4 DEF SupplyInv

(* Handlers that neither save assets nor touch jobs. *)
LEMMA WatchersGo ==
  ASSUME Types, NEW k \in Keys, NEW plan,
         \/ SubprocessCancel(k) \/ HpcMonitor(plan) \/ HpcCancel(k)
         \/ NexusMonitor(plan) \/ NexusListen(k) \/ NexusCancel(k)
         \/ QrmiRegister(plan) \/ QrmiCancel(k) \/ QrmiQueued(k) \/ QrmiAsk(k) \/ QrmiAnswer(k)
         \/ QrmiLogs(k) \/ QrmiFinish(k) \/ Cancel(k)
  PROVE  Going
<1>1. /\ api' = api \/ (caller' = caller /\ held' = held /\ tries' = tries)
      /\ stored' = stored /\ restarts' = restarts /\ setup' = setup
      /\ jobs' = jobs /\ assets' = assets
  <2>1. CASE SubprocessCancel(k) BY <2>1 DEF SubprocessCancel, outside, budget
  <2>2. CASE HpcMonitor(plan) BY <2>2 DEF HpcMonitor
  <2>3. CASE HpcCancel(k) BY <2>3 DEF HpcCancel, record
  <2>4. CASE NexusMonitor(plan) BY <2>4 DEF NexusMonitor, outside, budget
  <2>5. CASE NexusListen(k) BY <2>5 DEF NexusListen, outside
  <2>6. CASE NexusCancel(k) BY <2>6 DEF NexusCancel, record
  <2>7. CASE QrmiRegister(plan) BY <2>7 DEF QrmiRegister
  <2>8. CASE QrmiCancel(k) BY <2>8 DEF QrmiCancel
  <2>9. CASE QrmiQueued(k) BY <2>9 DEF QrmiQueued, Monitor
  <2>10. CASE QrmiAsk(k) BY <2>10 DEF QrmiAsk, Monitor
  <2>11. CASE QrmiAnswer(k) BY <2>11 DEF QrmiAnswer, Monitor
  <2>12. CASE QrmiLogs(k) BY <2>12 DEF QrmiLogs, Monitor
  <2>13. CASE QrmiFinish(k) BY <2>13 DEF QrmiFinish, outside, budget
  <2>14. CASE Cancel(k) BY <2>14 DEF Cancel, outside, record
  <2> QED BY <2>1, <2>2, <2>3, <2>4, <2>5, <2>6, <2>7, <2>8, <2>9, <2>10, <2>11, <2>12, <2>13, <2>14
<1>2. (Fault \/ faults' = faults) /\ (up = "up" \/ up' = up)
  <2>1. CASE SubprocessCancel(k) BY <2>1 DEF SubprocessCancel, budget
  <2>2. CASE HpcMonitor(plan) BY <2>2 DEF HpcMonitor, NoFault
  <2>3. CASE HpcCancel(k) BY <2>3 DEF HpcCancel, NextCancel, NoFault
  <2>4. CASE NexusMonitor(plan) BY <2>4 DEF NexusMonitor, NextPlan, budget
  <2>5. CASE NexusListen(k) BY <2>5 DEF NexusListen, StreamFails, NoFault
  <2>6. CASE NexusCancel(k) BY <2>6 DEF NexusCancel, NextCancel, NoFault
  <2>7. CASE QrmiRegister(plan) BY <2>7 DEF QrmiRegister, NextPlan, task_stop, NoFault
  <2>8. CASE QrmiCancel(k) BY <2>8 DEF QrmiCancel, NextCancel, task_stop, NoFault
  <2>9. CASE QrmiQueued(k) BY <2>9 DEF QrmiQueued, Monitor, NoFault
  <2>10. CASE QrmiAsk(k) BY <2>10 DEF QrmiAsk, Monitor, NoFault
  <2>11. CASE QrmiAnswer(k) BY <2>11 DEF QrmiAnswer, Monitor, NoFault
  <2>12. CASE QrmiLogs(k) BY <2>12 DEF QrmiLogs, Monitor, NoFault
  <2>13. CASE QrmiFinish(k) BY <2>13 DEF QrmiFinish, budget
  <2>14. CASE Cancel(k) BY <2>14 DEF Cancel, service
  <2> QED BY <2>1, <2>2, <2>3, <2>4, <2>5, <2>6, <2>7, <2>8, <2>9, <2>10, <2>11, <2>12, <2>13, <2>14
<1>3. faults' = 0 => faults = 0
  BY <1>2 DEF Fault, Types
<1> QED BY <1>1, <1>2, <1>3 DEF Going, api, setup

(* Outputs of the present try, or of a job that exists, are saved. *)
LEMMA SavedInTime ==
  ASSUME Types, NEW k \in Keys, NEW d \in Tries, d <= tries[k]
  PROVE  /\ assets' = save_assets({Output(k, d)}) \/ assets' = save_assets({WorkOutput(k, d)})
            \/ assets' = TransferOutput(k, d).assets \/ assets' = assets
           => /\ assets \subseteq assets'
              /\ \A name \in DOMAIN Registry, u \in Keys, e \in Tries :
                   <<name, <<u, e, "out">>>> \in assets' => <<name, <<u, e, "out">>>> \in assets \/ e <= tries[u]
<1>1. /\ Output(k, d) = <<storage.output, <<k, d, "out">>>> /\ WorkOutput(k, d) = <<storage.work, <<k, d, "out">>>>
      /\ TransferOutput(k, d).assets = assets \/ TransferOutput(k, d).assets = assets \cup {Output(k, d)}
  BY DEF Output, WorkOutput, TransferOutput, transfer_assets, AssetSpec, AssetKey, storage_save, StorageOf
<1> QED BY <1>1 DEF save_assets, storage_save

(* Handlers that start or end a local job, and those that save results. *)
LEMMA WorkersGo ==
  ASSUME ExecutorInv, NEW k \in Keys,
         \/ InMemoryCancel(k) \/ InMemoryFinish(k) \/ SubprocessFinish(k)
         \/ HpcPoll(k) \/ NexusFinish(k) \/ QrmiResult(k)
  PROVE  Going
<1>0. Types /\ KeyInv(k)
  BY DEF ExecutorInv
<1>1. ~Idle(k) => tasks[k].out = tries[k] /\ tries[k] \in Tries /\ tries[k] <= tries[k]
  <2>1. ~Idle(k) => k \in held /\ tasks[k].out = tries[k]
    BY <1>0 DEF KeyInv, Slot
  <2> QED BY <2>1, <1>0, TriesInRange, TriesCounted DEF KeyInv
<1>2. /\ api' = api /\ stored' = stored /\ restarts' = restarts /\ setup' = setup
      /\ Fault \/ faults' = faults
      /\ up = "up" /\ \A j \in Processes : jobs[j] # "queued" => jobs'[j] = jobs[j]
  <2>1. CASE InMemoryCancel(k)
    <3>1. jobs \in [Processes -> {"none"} \cup Live \cup Ended]
      BY <1>0 DEF Types
    <3> QED BY <3>1, <2>1 DEF InMemoryCancel, NextCancel, budget
  <2>2. CASE InMemoryFinish(k) BY <2>2 DEF InMemoryFinish, NoFault
  <2>3. CASE SubprocessFinish(k) BY <2>3 DEF SubprocessFinish, NoFault
  <2>4. CASE HpcPoll(k) BY <2>4 DEF HpcPoll, HpcRunning, HpcFinished, NoFault
  <2>5. CASE NexusFinish(k) BY <2>5 DEF NexusFinish, Outcome, NoFault
  <2>6. CASE QrmiResult(k) BY <2>6 DEF QrmiResult, Monitor, NoFault
  <2> QED BY <2>1, <2>2, <2>3, <2>4, <2>5, <2>6
<1>3. \/ assets' = assets
      \/ /\ ~Idle(k)
         /\ assets' = save_assets({Output(k, tasks[k].out)}) \/ assets' = TransferOutput(k, tasks[k].out).assets
  <2>1. CASE InMemoryCancel(k) BY <2>1 DEF InMemoryCancel
  <2>2. CASE InMemoryFinish(k) BY <2>2 DEF InMemoryFinish, Idle
  <2>3. CASE SubprocessFinish(k) BY <2>3 DEF SubprocessFinish, Idle
  <2>4. CASE HpcPoll(k)
    <3>1. ~Idle(k)
      BY <2>4, <1>0 DEF HpcPoll, KeyInv, Slot
    <3> QED BY <3>1, <2>4 DEF HpcPoll, HpcRunning, HpcFinished
  <2>5. CASE NexusFinish(k) BY <2>5 DEF NexusFinish, Outcome, Saved, Idle
  <2>6. CASE QrmiResult(k) BY <2>6 DEF QrmiResult, Monitor, Idle
  <2> QED BY <2>1, <2>2, <2>3, <2>4, <2>5, <2>6
<1>4. /\ assets \subseteq assets'
      /\ \A name \in DOMAIN Registry, u \in Keys, e \in Tries :
           <<name, <<u, e, "out">>>> \in assets' => <<name, <<u, e, "out">>>> \in assets \/ e <= tries[u]
  <2>1. CASE assets' = assets
    BY <2>1
  <2>2. CASE /\ ~Idle(k)
             /\ assets' = save_assets({Output(k, tries[k])}) \/ assets' = TransferOutput(k, tries[k]).assets
    BY <2>2, <1>0, <1>1, SavedInTime
  <2> QED BY <2>1, <2>2, <1>1, <1>3
<1>5. faults' = 0 => faults = 0
  BY <1>0, <1>2 DEF Fault, Types
<1>6. \A u \in Keys, d \in Tries :
        jobs[<<u, d>>] \in {"error", "cancelled"} => jobs'[<<u, d>>] = jobs[<<u, d>>]
  BY <1>2 DEF Processes, Jobs
<1> QED BY <1>2, <1>4, <1>5, <1>6 DEF Going, api, setup

(* Handlers that take a plan and start a local job for it. *)
LEMMA StartersGo ==
  ASSUME ExecutorInv, NEW plan, InMemoryStart(plan) \/ SubprocessStart(plan) PROVE Going
<1> DEFINE k == plan.key
<1>0. Types
  BY DEF ExecutorInv
<1>1. NextPlan(plan) /\ kind \in {"inmemory", "subprocess"}
  BY DEF InMemoryStart, SubprocessStart
<1>2. /\ up = "up" /\ k \in Keys /\ KeyInv(k) /\ Pending(k) /\ plan.out = tries[k] /\ tries[k] \in Tries
      /\ plan.job = PlanJob(k) /\ plan \in TaskPlan
  BY <1>1, PlanOf
<1>3. jobs[<<k, tries[k]>>] = "none"
  BY <1>1, <1>2 DEF KeyInv, Created, Remote, Schedulers
<1>4. jobs \in [Processes -> {"none"} \cup Live \cup Ended]
  BY <1>0 DEF Types
<1>5. /\ api' = api /\ stored' = stored /\ restarts' = restarts /\ setup' = setup
      /\ Fault \/ faults' = faults
  BY DEF InMemoryStart, SubprocessStart, KillFails, SpawnFails, Spawns, NoFault
<1>6. CASE \/ jobs' = jobs /\ assets' = assets
           \/ assets' = assets /\ \E s \in Live : jobs' = [jobs EXCEPT ![<<k, tries[k]>>] = s]
  <2>1. ASSUME NEW u \in Keys, NEW d \in Tries, jobs[<<u, d>>] \in {"error", "cancelled"}
        PROVE  jobs'[<<u, d>>] = jobs[<<u, d>>]
    <3>1. <<u, d>> # <<k, tries[k]>> /\ <<u, d>> \in Processes
      BY <2>1, <1>3 DEF Processes, Jobs
    <3> QED BY <3>1, <1>4, <1>6
  <2>2. faults' = 0 => faults = 0
    BY <1>0, <1>5 DEF Fault, Types
  <2> QED BY <2>1, <2>2, <1>2, <1>5, <1>6 DEF Going, api, setup
<1>7. CASE InMemoryStart(plan)
  <2>1. jobs' = jobs \/ jobs' = [jobs EXCEPT ![<<k, tries[k]>>] = "queued"]
    BY <1>2, <1>7 DEF InMemoryStart
  <2>2. assets' = assets /\ "queued" \in Live
    BY <1>7 DEF InMemoryStart, Live
  <2> QED BY <2>1, <2>2, <1>6
<1>8. CASE SubprocessStart(plan)
  <2> DEFINE old == IF plan.job = 0 THEN {} ELSE OriginalProcess(<<plan.key, plan.job>>)
  <2>1. KillFails(plan, old) \/ SpawnFails(plan, old) \/ Spawns(plan, old)
    BY <1>8 DEF SubprocessStart
  <2>2. CASE KillFails(plan, old)
    <3>0. CASE os # "linux"
      <4>1. jobs' = [j \in Processes |-> jobs[j]] /\ assets' = assets
        BY <3>0, <2>2 DEF KillFails, save_assets, storage_save
      <4> QED BY <4>1, <1>4, <1>6
    <3> SUFFICES ASSUME os = "linux" PROVE Going
      BY <3>0
    <3>1. /\ plan.job # 0 /\ old # {}
          /\ jobs' = [j \in Processes |-> IF j \in old THEN "complete" ELSE jobs[j]]
          /\ assets' = save_assets({WorkOutput(j[1], j[2]) : j \in old})
      BY <2>2 DEF KillFails
    <3>2. (\A j \in old : jobs[j] \in Live) /\ old = {<<k, plan.job>>}
      BY <3>1 DEF OriginalProcess, process_identity
    <3>3. plan.job \in Tries /\ plan.job <= tries[k]
      <4>1. kind = "subprocess"
        BY <1>8 DEF SubprocessStart
      <4>2. plan.job = stored[k]
        BY <4>1, <1>2 DEF PlanJob
      <4> QED BY <4>2, <3>1, <1>0, <1>2 DEF KeyInv, Tried, TaskPlan
    <3>4. assets' = save_assets({WorkOutput(k, plan.job)})
      BY <3>1, <3>2
    <3> DEFINE d == plan.job
    <3>5. d \in Tries /\ d <= tries[k] /\ assets' = save_assets({WorkOutput(k, d)})
      BY <3>3, <3>4
    <3> HIDE DEF d, k
    <3>6. /\ assets \subseteq assets'
          /\ \A name \in DOMAIN Registry, u \in Keys, e \in Tries :
               <<name, <<u, e, "out">>>> \in assets' => <<name, <<u, e, "out">>>> \in assets \/ e <= tries[u]
      BY <3>5, <1>0, <1>2, SavedInTime
    <3>7. \A u \in Keys, e \in Tries :
            jobs[<<u, e>>] \in {"error", "cancelled"} => jobs'[<<u, e>>] = jobs[<<u, e>>]
      BY <3>1, <3>2 DEF Processes, Jobs, Live
    <3>8. faults' = 0 => faults = 0
      BY <1>0, <1>5 DEF Fault, Types
    <3> QED BY <3>6, <3>7, <3>8, <1>2, <1>5 DEF Going, api, setup
  <2>3. CASE SpawnFails(plan, old)
    BY <2>3, <1>6 DEF SpawnFails
  <2>4. CASE Spawns(plan, old)
    <3>1. assets' = assets /\ jobs' = [jobs EXCEPT ![<<k, tries[k]>>] = "running"] /\ "running" \in Live
      BY <2>4, <1>2 DEF Spawns, Live
    <3> QED BY <3>1, <1>6
  <2> QED BY <2>1, <2>2, <2>3, <2>4
<1> QED BY <1>7, <1>8

(* Steps of the jobs themselves, and of other programs. *)
LEMMA OutsideGoes ==
  ASSUME ExecutorInv, (\E j \in Jobs : JobStep(j)) \/ ForeignStart \/ UNCHANGED vars PROVE Going
<1>0. Types
  BY DEF ExecutorInv
<1>1. jobs \in [Processes -> {"none"} \cup Live \cup Ended]
  BY <1>0 DEF Types
<1>2. ASSUME NEW j \in Jobs, JobStep(j) PROVE Going
  <2>1. PICK k \in Keys, d \in Tries : j = <<k, d>>
    BY DEF Jobs
  <2>2. /\ jobs[j] \in Live /\ (\E s \in {"running", "cancelled"} \cup Outcomes : jobs' = [jobs EXCEPT ![j] = s])
        /\ assets' = assets \/ assets' = save_assets({WorkOutput(j[1], j[2])})
        /\ api' = api /\ service' = service /\ record' = record /\ budget' = budget
    BY <1>2 DEF JobStep, Live
  <2>3. d <= tries[k]
    <3>1. jobs[<<k, d>>] # "none"
      BY <2>1, <2>2 DEF Live
    <3>2. d \in Nat /\ tries[k] \in Nat
      BY <1>0, TriesCounted DEF Types
    <3>3. \A e \in Tries : e > tries[k] => jobs[<<k, e>>] = "none"
      BY DEF ExecutorInv, KeyInv, Created
    <3> QED BY <3>1, <3>2, <3>3
  <2>4. /\ assets \subseteq assets'
        /\ \A name \in DOMAIN Registry, u \in Keys, e \in Tries :
             <<name, <<u, e, "out">>>> \in assets' => <<name, <<u, e, "out">>>> \in assets \/ e <= tries[u]
    BY <2>1, <2>2, <2>3, <1>0, SavedInTime
  <2>5. \A u \in Keys, e \in Tries :
          jobs[<<u, e>>] \in {"error", "cancelled"} => jobs'[<<u, e>>] = jobs[<<u, e>>]
    BY <2>2, <1>1 DEF Processes, Jobs, Live
  <2> QED BY <2>2, <2>4, <2>5 DEF Going, api, service, record, budget, setup
<1>3. ASSUME ForeignStart PROVE Going
  <2>1. /\ jobs[Foreign] = "none" /\ jobs' = [jobs EXCEPT ![Foreign] = "running"] /\ assets' = assets
        /\ api' = api /\ service' = service /\ record' = record /\ budget' = budget
    BY <1>3 DEF ForeignStart
  <2>2. \A u \in Keys, e \in Tries :
          jobs[<<u, e>>] \in {"error", "cancelled"} => jobs'[<<u, e>>] = jobs[<<u, e>>]
    BY <2>1, <1>1 DEF Processes, Jobs
  <2> QED BY <2>1, <2>2 DEF Going, api, service, record, budget, setup
<1>4. ASSUME UNCHANGED vars PROVE Going
  BY <1>4 DEF Going, vars, api, service, outside, record, budget, setup
<1> QED BY <1>2, <1>3, <1>4

(* After a restart the callers begin anew, with what was in files. *)
LEMMA RestartSupplies ==
  ASSUME Types, SupplyInv, Restart PROVE SupplyInv'
<1>1. /\ assets' = AfterCrash /\ tries' = tries /\ setup' = setup /\ caller' = "up" /\ restarts' = restarts + 1
  BY DEF Restart
<1>2. PathsForWorkers' /\ OutputsFresh' /\ ExecuteSucceeds'
  BY <1>1 DEF SupplyInv, PathsForWorkers, WritesItself, OutputsFresh, ExecuteSucceeds, AfterCrash, setup
<1>3. InputsKept'
  <2> SUFFICES ASSUME NEW k \in load'
               PROVE  Input(k)' \in assets' \/ (restarts' > 0 /\ ~path(Input(k))')
    BY DEF InputsKept
  <2>1. restarts' > 0 /\ k \in load
    BY <1>1 DEF Types, setup
  <2>2. Input(k)' = Input(k) /\ (path(Input(k))' <=> path(Input(k)))
    BY <1>1 DEF Input, AssetSpec, AssetKey, path, StorageOf, setup
  <2>3. Input(k) \in assets \/ ~path(Input(k))
    BY <2>1 DEF SupplyInv, InputsKept
  <2> QED BY <2>1, <2>2, <2>3, <1>1 DEF AfterCrash
<1> QED BY <1>2, <1>3 DEF SupplyInv

(* The inputs and outputs a try needs: they are there, or the inputs are   *)
(* gone with the memory of an earlier lifetime.                            *)
LEMMA Supplies ==
  ASSUME ExecutorInv, SupplyInv, NEW k \in Keys, Due(k)
  PROVE  /\ reserve_asset_specs({Output(k, Try(k))}) /\ reserve_asset_specs({WorkOutput(k, Try(k))})
         /\ load_assets({Input(k)}) \/ (restarts > 0 /\ ~path(Input(k)))
         /\ WritesItself => path(WorkOutput(k, Try(k))) /\ path(TransferInput(k, Try(k)).spec)
         /\ TransferInput(k, Try(k)).ok \/ (restarts > 0 /\ ~path(Input(k)))
<1>1. /\ Types /\ k \in load /\ k \notin held
      /\ storage.input \in DOMAIN Registry /\ storage.work \in DOMAIN Registry /\ storage.output \in DOMAIN Registry
  BY DEF ExecutorInv, Due, Types, Storages
<1>2. Try(k) \in Tries /\ tries[k] \in Nat /\ ~(Try(k) <= tries[k])
  BY <1>1, TriesInRange DEF ExecutorInv, KeyInv, Types, Try
<1>3. /\ Output(k, Try(k)) = <<storage.output, <<k, Try(k), "out">>>>
      /\ WorkOutput(k, Try(k)) = <<storage.work, <<k, Try(k), "out">>>>
      /\ StorageOf(Input(k)) = storage.input
  BY DEF Output, WorkOutput, Input, AssetSpec, AssetKey, StorageOf
<1>4. Output(k, Try(k)) \notin assets /\ WorkOutput(k, Try(k)) \notin assets
  BY <1>1, <1>2, <1>3 DEF SupplyInv, OutputsFresh
<1>5. reserve_asset_specs({Output(k, Try(k))}) /\ reserve_asset_specs({WorkOutput(k, Try(k))})
  BY <1>1, <1>3, <1>4 DEF reserve_asset_specs, storage_reserve, Known, StorageOf
<1>6. load_assets({Input(k)}) \/ (restarts > 0 /\ ~path(Input(k)))
  BY <1>1, <1>3 DEF load_assets, storage_load, Known, SupplyInv, InputsKept
<1>7. WritesItself => path(WorkOutput(k, Try(k)))
  BY <1>3 DEF SupplyInv, PathsForWorkers, path, StorageOf
<1>8. CASE storage.input = storage.work
  <2>1. TransferInput(k, Try(k)).ok /\ TransferInput(k, Try(k)).spec = Input(k)
    BY <1>1, <1>3, <1>8 DEF TransferInput, transfer_assets, Known
  <2> QED BY <2>1, <1>3, <1>5, <1>6, <1>7, <1>8 DEF SupplyInv, PathsForWorkers, path
<1>9. CASE storage.input # storage.work
  <2>1. /\ TransferInput(k, Try(k)).ok = (Known(storage.work) /\ load_assets({Input(k)}))
        /\ TransferInput(k, Try(k)).spec = <<storage.work, <<k, Try(k), "in">>>>
    BY <1>3, <1>9 DEF TransferInput, transfer_assets, AssetSpec, AssetKey
  <2>2. WritesItself => path(TransferInput(k, Try(k)).spec)
    BY <2>1 DEF SupplyInv, PathsForWorkers, path, StorageOf
  <2> QED BY <2>1, <2>2, <1>1, <1>5, <1>6, <1>7 DEF Known
<1> QED BY <1>8, <1>9

(* A step that executes a task keeps what execute() needs, when it fails   *)
(* only for the reasons the property names.                                *)
LEMMA ExecuteKeepsSupply ==
  ASSUME Types, SupplyInv, NEW k \in Keys, Due(k), Taken(k),
         up' = up, stored' = stored, restarts' = restarts, kind' = kind, load' = load, storage' = storage,
         faults' = 0 => faults = 0,
         jobs' = jobs \/ jobs' = [jobs EXCEPT ![<<k, Try(k)>>] = "queued"],
         assets' = assets \/ assets' = TransferInput(k, Try(k)).assets,
         caller' = "dead" /\ faults' = 0 /\ up # "dead" =>
           /\ restarts > 0
           /\ \/ kind \in Schedulers /\ stored[k] # 0 /\ jobs'[<<k, stored[k]>>] \in {"error", "cancelled"}
              \/ kind # "inmemory" /\ ~path(Input(k))
  PROVE  SupplyInv'
<1>1. held' = held \cup {k} /\ tries' = [tries EXCEPT ![k] = @ + 1] /\ tries \in [Keys -> Nat]
  BY DEF Taken, Types
<1>2. \A u \in Keys : tries[u] \in Nat /\ tries'[u] \in Nat /\ tries[u] <= tries'[u]
  BY <1>1
<1>3. assets' = assets \/ assets' = assets \cup {<<storage.work, <<k, Try(k), "in">>>>}
  BY DEF TransferInput, transfer_assets, AssetSpec, AssetKey, storage_save, StorageOf
<1>4. \A u \in Keys : Input(u)' = Input(u) /\ (path(Input(u))' <=> path(Input(u)))
  BY DEF Input, AssetSpec, AssetKey, path, StorageOf
<1>5. PathsForWorkers'
  BY DEF SupplyInv, PathsForWorkers, WritesItself
<1>6. OutputsFresh'
  <2> SUFFICES ASSUME NEW name \in DOMAIN Registry, NEW u \in Keys, NEW d \in Tries,
                      <<name, <<u, d, "out">>>> \in assets'
               PROVE  d <= tries'[u]
    BY DEF OutputsFresh
  <2>1. <<name, <<u, d, "out">>>> # <<storage.work, <<k, Try(k), "in">>>>
    OBVIOUS
  <2>2. d <= tries[u] /\ d \in Nat
    BY <2>1, <1>3, TriesCounted DEF SupplyInv, OutputsFresh
  <2> QED BY <2>2, <1>2
<1>7. InputsKept'
  BY <1>3, <1>4 DEF SupplyInv, InputsKept, Types
<1>8. ExecuteSucceeds'
  BY <1>1, <1>4 DEF ExecuteSucceeds
<1> QED BY <1>5, <1>6, <1>7, <1>8 DEF SupplyInv

(* is_job_active refuses only jobs that failed or were cancelled. *)
LEMMA ActiveTells ==
  ASSUME NEW j, kind \in Schedulers, jobs[j] \in {"queued", "running", "complete"}
  PROVE  is_job_active(j)
<1>1. ASSUME NEW state \in Reports[kind][jobs[j]], SchedulerStatus(state, ExitZero(jobs[j])) \in {"queued", "running", "complete"}
      PROVE  is_job_active(j)
  BY <1>1 DEF is_job_active, check
<1>2. CASE kind = "slurm"
  <2>1. \A state : SchedulerStatus(state, ExitZero(jobs[j])) = SlurmStatus(state, ExitZero(jobs[j]))
    BY <1>2 DEF SchedulerStatus
  <2>2. CASE jobs[j] = "queued"
    <3>1. "PENDING" \in Reports[kind][jobs[j]] /\ SlurmStatus("PENDING", ExitZero(jobs[j])) = "queued"
      BY <2>2, <1>2 DEF Reports, SlurmStatus
    <3> QED BY <3>1, <2>1, <1>1
  <2>3. CASE jobs[j] = "running"
    <3>1. "RUNNING" \in Reports[kind][jobs[j]] /\ SlurmStatus("RUNNING", ExitZero(jobs[j])) = "running"
      BY <2>3, <1>2 DEF Reports, SlurmStatus
    <3> QED BY <3>1, <2>1, <1>1
  <2>4. CASE jobs[j] = "complete"
    <3>1. "COMPLETED" \in Reports[kind][jobs[j]] /\ SlurmStatus("COMPLETED", ExitZero(jobs[j])) = "complete"
      BY <2>4, <1>2 DEF Reports, SlurmStatus, ExitZero
    <3> QED BY <3>1, <2>1, <1>1
  <2> QED BY <2>2, <2>3, <2>4
<1>3. CASE kind = "pbs"
  <2>1. \A state : SchedulerStatus(state, ExitZero(jobs[j])) = PbsStatus(state, ExitZero(jobs[j]))
    BY <1>3 DEF SchedulerStatus
  <2>2. CASE jobs[j] = "queued"
    <3>1. "Q" \in Reports[kind][jobs[j]] /\ PbsStatus("Q", ExitZero(jobs[j])) = "queued"
      BY <2>2, <1>3 DEF Reports, PbsStatus
    <3> QED BY <3>1, <2>1, <1>1
  <2>3. CASE jobs[j] = "running"
    <3>1. "R" \in Reports[kind][jobs[j]] /\ PbsStatus("R", ExitZero(jobs[j])) = "running"
      BY <2>3, <1>3 DEF Reports, PbsStatus
    <3> QED BY <3>1, <2>1, <1>1
  <2>4. CASE jobs[j] = "complete"
    <3>1. "F" \in Reports[kind][jobs[j]] /\ PbsStatus("F", ExitZero(jobs[j])) = "complete"
      BY <2>4, <1>3 DEF Reports, PbsStatus, ExitZero
    <3> QED BY <3>1, <2>1, <1>1
  <2> QED BY <2>2, <2>3, <2>4
<1>4. CASE kind = "pjsub"
  <2>1. \A state : SchedulerStatus(state, ExitZero(jobs[j])) = PjsubStatus(state, ExitZero(jobs[j]))
    BY <1>4 DEF SchedulerStatus
  <2>2. CASE jobs[j] = "queued"
    <3>1. "QUE" \in Reports[kind][jobs[j]] /\ PjsubStatus("QUE", ExitZero(jobs[j])) = "queued"
      BY <2>2, <1>4 DEF Reports, PjsubStatus
    <3> QED BY <3>1, <2>1, <1>1
  <2>3. CASE jobs[j] = "running"
    <3>1. "RUN" \in Reports[kind][jobs[j]] /\ PjsubStatus("RUN", ExitZero(jobs[j])) = "running"
      BY <2>3, <1>4 DEF Reports, PjsubStatus
    <3> QED BY <3>1, <2>1, <1>1
  <2>4. CASE jobs[j] = "complete"
    <3>1. "EXT" \in Reports[kind][jobs[j]] /\ PjsubStatus("EXT", ExitZero(jobs[j])) = "complete"
      BY <2>4, <1>4 DEF Reports, PjsubStatus, ExitZero
    <3> QED BY <3>1, <2>1, <1>1
  <2> QED BY <2>2, <2>3, <2>4
<1> QED BY <1>2, <1>3, <1>4 DEF Schedulers

(* Every form of execute() fails only for the reasons the property names. *)
LEMMA ExecutesSupplied ==
  ASSUME ExecutorInv, SupplyInv, NEW k \in Keys,
         \/ InMemoryExecute(k) \/ SubprocessExecute(k) \/ HpcExecute(k)
         \/ NexusExecute(k) \/ QrmiExecute(k)
  PROVE  SupplyInv'
<1>0. Types /\ KeyInv(k)
  BY DEF ExecutorInv
<1>1. Due(k) /\ Taken(k) /\ k \notin held
  BY DEF InMemoryExecute, SubprocessExecute, HpcExecute, NexusExecute, QrmiExecute,
         HpcSubmit, NexusSubmit, Enqueue, ExecuteErr, Due
<1>2. /\ reserve_asset_specs({Output(k, Try(k))}) /\ reserve_asset_specs({WorkOutput(k, Try(k))})
      /\ load_assets({Input(k)}) \/ (restarts > 0 /\ ~path(Input(k)))
      /\ WritesItself => path(WorkOutput(k, Try(k))) /\ path(TransferInput(k, Try(k)).spec)
      /\ TransferInput(k, Try(k)).ok \/ (restarts > 0 /\ ~path(Input(k)))
  BY <1>1, Supplies
<1>3. /\ Fault => faults' # 0
      /\ Fault \/ NoFault => (faults' = 0 => faults = 0)
  BY <1>0 DEF Fault, NoFault, Types
<1>4. caller = "up"
  BY <1>1 DEF Due
<1>5. CASE InMemoryExecute(k)
  <2>1. /\ Enqueue(k, 0) /\ jobs' = jobs /\ assets' = assets /\ setup' = setup /\ restarts' = restarts /\ faults' = faults
    BY <1>5 DEF InMemoryExecute, outside, budget
  <2>2. up' = up /\ stored' = stored /\ (caller' = "dead" => up = "dead")
    BY <2>1, <1>4 DEF Enqueue, service, record
  <2> QED BY <2>1, <2>2, <1>0, <1>1, ExecuteKeepsSupply DEF setup
<1>6. CASE SubprocessExecute(k)
  <2>1. /\ jobs' = jobs /\ setup' = setup /\ restarts' = restarts /\ kind = "subprocess"
        /\ assets' = assets \/ assets' = TransferInput(k, Try(k)).assets
        /\ Fault \/ NoFault
    BY <1>6 DEF SubprocessExecute
  <2>2. up' = up /\ stored' = stored
    BY <1>6 DEF SubprocessExecute, Enqueue, ExecuteErr, service, record
  <2>3. WritesItself
    BY <2>1 DEF WritesItself
  <2>4. build_outputs(k) /\ (build_inputs(k) \/ (restarts > 0 /\ ~path(Input(k))))
    BY <2>3, <1>2 DEF build_outputs, build_inputs
  <2>5. caller' = "dead" /\ faults' = 0 /\ up # "dead" => restarts > 0 /\ ~path(Input(k))
    BY <2>4, <1>3, <1>4, <1>6 DEF SubprocessExecute, Enqueue
  <2> QED BY <2>1, <2>2, <2>5, <1>0, <1>1, <1>3, ExecuteKeepsSupply DEF setup
<1>7. CASE HpcExecute(k)
  <2>1. /\ setup' = setup /\ restarts' = restarts /\ kind \in Schedulers /\ kind # "inmemory"
        /\ jobs' = jobs \/ jobs' = [jobs EXCEPT ![<<k, Try(k)>>] = "queued"]
        /\ assets' = assets \/ assets' = TransferInput(k, Try(k)).assets
        /\ Fault \/ NoFault
    BY <1>7 DEF HpcExecute, HpcSubmit, Schedulers
  <2>2. up' = up /\ stored' = stored
    BY <1>7 DEF HpcExecute, HpcSubmit, Enqueue, ExecuteErr, service, record
  <2>3. WritesItself
    BY <2>1 DEF WritesItself
  <2>4. OutputsReserved(k)
    BY <2>3, <1>2 DEF OutputsReserved
  <2>5. \/ Fault
        \/ stored[k] # 0 /\ is_job_active(<<k, stored[k]>>) /\ Enqueue(k, stored[k])
        \/ stored[k] # 0 /\ ~is_job_active(<<k, stored[k]>>) /\ jobs' = jobs
        \/ stored[k] = 0 /\ HpcSubmit(k)
    BY <2>4, <1>7 DEF HpcExecute
  <2>6. CASE Fault
    BY <2>6, <2>1, <2>2, <1>0, <1>1, <1>3, ExecuteKeepsSupply DEF setup
  <2>7. CASE Enqueue(k, stored[k])
    <3>1. caller' = "dead" => up = "dead"
      BY <2>7, <1>4 DEF Enqueue
    <3> QED BY <3>1, <2>1, <2>2, <1>0, <1>1, <1>3, ExecuteKeepsSupply DEF setup
  <2>8. CASE stored[k] # 0 /\ ~is_job_active(<<k, stored[k]>>) /\ jobs' = jobs
    <3>1. stored[k] \in Tries /\ jobs[<<k, stored[k]>>] # "none" /\ restarts # 0 /\ restarts \in Nat
      BY <2>8, <1>0 DEF KeyInv, Tried, Types
    <3>2. <<k, stored[k]>> \in Processes
      BY <3>1 DEF Processes, Jobs
    <3>3. jobs[<<k, stored[k]>>] # "panicked"
      BY <3>1, <2>1, <1>0 DEF KeyInv, Created
    <3>4. jobs[<<k, stored[k]>>] \in {"none"} \cup Live \cup Ended
      BY <3>2, <1>0 DEF Types
    <3>5. jobs[<<k, stored[k]>>] \notin {"queued", "running", "complete"}
      BY <2>8, <2>1, ActiveTells
    <3>6. jobs[<<k, stored[k]>>] \in {"error", "cancelled"}
      BY <3>1, <3>3, <3>4, <3>5 DEF Live, Ended
    <3>7. restarts > 0 /\ jobs'[<<k, stored[k]>>] \in {"error", "cancelled"}
      BY <3>1, <3>6, <2>8
    <3> QED BY <3>7, <2>1, <2>2, <2>8, <1>0, <1>1, <1>3, ExecuteKeepsSupply DEF setup
  <2>9. CASE stored[k] = 0 /\ HpcSubmit(k)
    <3>1. caller' = "dead" /\ up # "dead" => restarts > 0 /\ ~path(Input(k))
      BY <2>9, <2>3, <1>2, <1>4 DEF HpcSubmit, Enqueue
    <3> QED BY <3>1, <2>1, <2>2, <1>0, <1>1, <1>3, ExecuteKeepsSupply DEF setup
  <2> QED BY <2>5, <2>6, <2>7, <2>8, <2>9
<1>8. CASE NexusExecute(k)
  <2>1. /\ setup' = setup /\ restarts' = restarts /\ kind = "nexus" /\ assets' = assets
        /\ jobs' = jobs \/ jobs' = [jobs EXCEPT ![<<k, Try(k)>>] = "queued"]
        /\ Fault \/ NoFault
    BY <1>8 DEF NexusExecute, NexusSubmit
  <2>2. up' = up /\ stored' = stored
    BY <1>8 DEF NexusExecute, NexusSubmit, Enqueue, ExecuteErr, service, record
  <2>3. NexusAssets(k) \/ (restarts > 0 /\ ~path(Input(k)))
    BY <1>2 DEF NexusAssets
  <2>4. caller' = "dead" /\ faults' = 0 /\ up # "dead" => restarts > 0 /\ ~path(Input(k))
    BY <2>3, <1>3, <1>4, <1>8 DEF NexusExecute, NexusSubmit, Enqueue
  <2> QED BY <2>1, <2>2, <2>4, <1>0, <1>1, <1>3, ExecuteKeepsSupply DEF setup
<1>9. CASE QrmiExecute(k)
  <2>1. /\ setup' = setup /\ restarts' = restarts /\ kind = "qrmi" /\ assets' = assets
        /\ jobs' = jobs \/ jobs' = [jobs EXCEPT ![<<k, Try(k)>>] = "queued"]
        /\ Fault \/ NoFault
    BY <1>9 DEF QrmiExecute
  <2>2. up' = up /\ stored' = stored
    BY <1>9 DEF QrmiExecute, Enqueue, ExecuteErr, service, record
  <2>3. QrmiAssets(k) \/ (restarts > 0 /\ ~path(Input(k)))
    BY <1>2 DEF QrmiAssets
  <2>4. caller' = "dead" /\ faults' = 0 /\ up # "dead" => restarts > 0 /\ ~path(Input(k))
    BY <2>3, <1>3, <1>4, <1>9 DEF QrmiExecute, Enqueue
  <2> QED BY <2>1, <2>2, <2>4, <1>0, <1>1, <1>3, ExecuteKeepsSupply DEF setup
<1> QED BY <1>5, <1>6, <1>7, <1>8, <1>9

(* execute() fails only when a call fails, process_tasks is gone, a job to *)
(* take up again has ended badly, or the inputs were lost in a restart:    *)
(* for executors whose workers are given a storage with paths.             *)
THEOREM ExecuteFailsForAReason ==
  ASSUME WorkersHavePaths
  PROVE  Spec => []ExecuteSucceeds
<1>1. ASSUME Init PROVE SupplyInv
  <2>1. PICK s \in Setups :
          kind = s.kind /\ os = s.os /\ load = s.load /\ mishaps = s.mishaps /\ storage = s.storage
    BY <1>1 DEF Init
  <2>2. PathsForWorkers
    BY <2>1 DEF WorkersHavePaths, PathsForWorkers, WritesItself
  <2>3. assets = {Input(k) : k \in load} /\ caller = "up"
    BY <1>1 DEF Init
  <2>4. OutputsFresh
    BY <2>3 DEF OutputsFresh, Input, AssetSpec, AssetKey
  <2>5. InputsKept /\ ExecuteSucceeds
    BY <2>3 DEF InputsKept, ExecuteSucceeds
  <2> QED BY <2>2, <2>4, <2>5 DEF SupplyInv
<1>2. ASSUME ExecutorInv, SupplyInv, [Next]_vars PROVE SupplyInv'
  <2>0. Types
    BY <1>2 DEF ExecutorInv
  <2>1. Going => SupplyInv'
    BY <2>0, <1>2, GoingKeeps
  <2>2. CASE \E k \in Keys : Cancel(k)
    BY <2>0, <2>1, <2>2, WatchersGo
  <2>3. CASE (\E j \in Jobs : JobStep(j)) \/ ForeignStart \/ UNCHANGED vars
    BY <2>1, <2>3, <1>2, OutsideGoes
  <2>4. CASE Restart
    BY <2>0, <2>4, <1>2, RestartSupplies
  <2>5. CASE \E k \in Keys : \/ InMemoryExecute(k) \/ SubprocessExecute(k) \/ HpcExecute(k)
                             \/ NexusExecute(k) \/ QrmiExecute(k)
    BY <2>5, <1>2, ExecutesSupplied
  <2>6. CASE \E plan : InMemoryStart(plan) \/ SubprocessStart(plan)
    BY <2>1, <2>6, <1>2, StartersGo
  <2>7. CASE \E k \in Keys : \/ InMemoryCancel(k) \/ InMemoryFinish(k) \/ SubprocessFinish(k)
                             \/ HpcPoll(k) \/ NexusFinish(k) \/ QrmiResult(k)
    BY <2>1, <2>7, <1>2, WorkersGo
  <2>8. CASE \E k \in Keys : \/ SubprocessCancel(k) \/ HpcCancel(k) \/ NexusListen(k) \/ NexusCancel(k)
                             \/ QrmiCancel(k) \/ QrmiQueued(k) \/ QrmiAsk(k) \/ QrmiAnswer(k)
                             \/ QrmiLogs(k) \/ QrmiFinish(k)
    BY <2>0, <2>1, <2>8, WatchersGo
  <2>9. CASE \E plan \in Plans : HpcMonitor(plan) \/ NexusMonitor(plan) \/ QrmiRegister(plan)
    <3>1. PICK plan \in Plans : HpcMonitor(plan) \/ NexusMonitor(plan) \/ QrmiRegister(plan)
      BY <2>9
    <3>2. plan.key \in Keys
      <4>1. NextPlan(plan)
        BY <3>1 DEF HpcMonitor, NexusMonitor, QrmiRegister
      <4> QED BY <4>1, <1>2, PlanOf
    <3> QED BY <3>1, <3>2, <2>0, <2>1, WatchersGo
  <2>10. CASE InMemoryNext
    BY <2>5, <2>6, <2>7, <2>10 DEF InMemoryNext
  <2>11. CASE SubprocessNext
    BY <2>3, <2>5, <2>6, <2>7, <2>8, <2>11 DEF SubprocessNext
  <2>12. CASE HpcNext
    BY <2>5, <2>7, <2>8, <2>9, <2>12 DEF HpcNext, Plans, Elems
  <2>13. CASE NexusNext
    BY <2>5, <2>7, <2>8, <2>9, <2>13 DEF NexusNext, Plans, Elems
  <2>14. CASE QrmiNext
    BY <2>5, <2>7, <2>8, <2>9, <2>14 DEF QrmiNext, Plans, Elems
  <2> QED BY <2>2, <2>3, <2>4, <2>10, <2>11, <2>12, <2>13, <2>14, <1>2 DEF Next
<1>3. SupplyInv => ExecuteSucceeds
  BY DEF SupplyInv
<1> QED BY <1>1, <1>2, <1>3, ExecutorInvHolds, PTL DEF Spec

=============================================================================
