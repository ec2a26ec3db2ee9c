---------------------------- MODULE SessionProofs ----------------------------
(***************************************************************************)
(* The owner and the session lock, for every number of servers, calls,     *)
(* brokers and crashes.  QueueIsLive is not inductive: a call that ends    *)
(* takes the head of the queue off, whoever that is.  IInv adds that the   *)
(* only locked call past the lock is the head (HeadRuns) and that servers  *)
(* the client does not talk to have empty queues (OthersRest).             *)
(***************************************************************************)
EXTENDS SessionLifecycle, FiniteSetTheorems, SequenceTheorems, TLAPS

LockedCalls == {c \in Calls : Active(c) /\ call[c].kind \in Locked}

QueueIsLocked == \A i \in DOMAIN Me.queue : Me.queue[i] \in LockedCalls
LockedQueue == \A c \in LockedCalls : \E i \in DOMAIN Me.queue : Me.queue[i] = c
OncePerCall == \A i, k \in DOMAIN Me.queue : Me.queue[i] = Me.queue[k] => i = k
HeadRuns == \A c \in LockedCalls : call[c].pc # "lock" => Me.queue[1] = c
OthersRest == \A s \in Servers : s # home => server[s].queue = <<>>

QueueInv == QueueIsLocked /\ LockedQueue /\ OncePerCall /\ HeadRuns /\ OthersRest

\* A broker owes a summary only when its capture is over.
Owing(brokers) ==
  \A b \in DOMAIN brokers : brokers[b].owes => brokers[b].phase \in {"stopped", "failed"}

BrokersExist ==
  /\ \A s \in Servers : server[s].reg <= Len(broker)
  /\ \A c \in Calls : call[c].broker <= Len(broker)
  /\ Owing(broker)

IInv == TypeOK /\ BrokersExist /\ QueueInv

Running == Pcs \ {"idle", "lock", "done", "failed"}

\* A step of a call leaves everything else of its type, and no broker is forgotten.
OthersSound ==
  /\ token' = token /\ home' = home /\ crashes' = crashes
  /\ dir' \in Dir
  /\ broker' \in Seq(Broker) /\ Len(broker) <= Len(broker') /\ Len(broker') <= MaxBrokers
  /\ Owing(broker')

-----------------------------------------------------------------------------
(* The three things a call does to the queue.                                *)

(* A call past the lock goes on: the queue stays.                          *)
LEMMA GoesOn ==
  ASSUME IInv, NEW c \in Calls, call[c].pc \in Running, NEW r \in Call,
         call' = [call EXCEPT ![c] = r], r.kind = call[c].kind, r.pc \in Running,
         server' \in [Servers -> Process], home' = home,
         \A s \in Servers : server'[s].queue = server[s].queue
  PROVE  QueueInv'
<1>1. /\ call \in [Calls -> Call] /\ home \in Servers
      /\ call'[c] = r /\ \A d \in Calls : d # c => call'[d] = call[d]
      /\ server'[home].queue = server[home].queue
  BY DEF IInv, TypeOK
<1>2. LockedCalls' = LockedCalls
  BY <1>1 DEF LockedCalls, Active, Running
<1>3. \A d \in Calls : d # c => call'[d].pc = call[d].pc
  BY <1>1
<1>4. Me.queue' = Me.queue
  BY <1>1 DEF Me
<1>5. QueueIsLocked' /\ LockedQueue' /\ OncePerCall'
  BY <1>2, <1>4 DEF IInv, QueueInv, QueueIsLocked, LockedQueue, OncePerCall
<1>6. HeadRuns'
  <2> SUFFICES ASSUME NEW d \in LockedCalls, call'[d].pc # "lock"
               PROVE  Me.queue[1] = d
    BY <1>2, <1>4 DEF HeadRuns
  <2>1. d \in Calls
    BY DEF LockedCalls
  <2>2. call[d].pc # "lock"
    BY <1>3, <2>1 DEF Running
  <2> QED BY <2>2 DEF IInv, QueueInv, HeadRuns
<1>7. OthersRest'
  BY DEF IInv, QueueInv, OthersRest
<1> QED BY <1>5, <1>6, <1>7 DEF QueueInv

(* A call past the lock ends: a locked one is the head, and leaves.        *)
LEMMA Ends ==
  ASSUME IInv, NEW c \in Calls, call[c].pc \in Running, NEW how \in {"done", "failed"},
         End(c, how), home' = home
  PROVE  /\ call' \in [Calls -> Call] /\ server' \in [Servers -> Process]
         /\ \A s \in Servers : server'[s].reg = server[s].reg
         /\ call'[c].broker = 0 /\ \A d \in Calls : d # c => call'[d] = call[d]
         /\ QueueInv'
<1> DEFINE r == [NoCall EXCEPT !.kind = call[c].kind, !.pc = how]
           q == server[home].queue
<1>1. /\ call \in [Calls -> Call] /\ server \in [Servers -> Process] /\ home \in Servers
      /\ call[c].kind \in CallKinds \cup {"none"} /\ q \in Seq(Calls)
  BY DEF IInv, TypeOK, Call, Process
<1>2. r \in Call /\ r.kind = call[c].kind /\ r.pc = how /\ r.broker = 0
  <2>1. <<>> \in Seq(Calls)
    BY EmptySeq
  <2>2. 0 \in 0..MaxBrokers
    BY LifecycleConstants
  <2> QED BY <1>1, <2>1, <2>2 DEF Call, NoCall, Pcs
<1> HIDE DEF r
<1>3. /\ call' = [call EXCEPT ![c] = r] /\ server' = Leave(c)
      /\ call' \in [Calls -> Call] /\ call'[c] = r
      /\ \A d \in Calls : d # c => call'[d] = call[d]
  BY <1>1, <1>2 DEF End, r
<1>4. LockedCalls' = LockedCalls \ {c}
  BY <1>2, <1>3 DEF LockedCalls, Active, Running
<1>5. CASE call[c].kind \notin Locked
  <2>1. server' = server /\ c \notin LockedCalls
    BY <1>3, <1>5 DEF Leave, LockedCalls
  <2>2. LockedCalls' = LockedCalls /\ Me.queue' = Me.queue
    BY <1>4, <2>1 DEF Me
  <2>3. QueueIsLocked' /\ LockedQueue' /\ OncePerCall' /\ OthersRest'
    BY <2>1, <2>2
    DEF IInv, QueueInv, QueueIsLocked, LockedQueue, OncePerCall, OthersRest
  <2>4. HeadRuns'
    <3>1. \A d \in LockedCalls : call'[d] = call[d]
      BY <1>3, <2>1 DEF LockedCalls
    <3> QED BY <2>2, <3>1 DEF IInv, QueueInv, HeadRuns
  <2> QED BY <1>1, <1>2, <1>3, <2>1, <2>3, <2>4 DEF QueueInv
<1>6. CASE call[c].kind \in Locked
  <2>1. c \in LockedCalls /\ q[1] = c
    BY <1>6 DEF IInv, QueueInv, HeadRuns, LockedCalls, Active, Running, Me
  <2>2. PICK i \in DOMAIN q : q[i] = c
    BY <2>1 DEF IInv, QueueInv, LockedQueue, Me
  <2>3. q # <<>> /\ Len(q) \in Nat \ {0} /\ DOMAIN q = 1..Len(q)
    BY <1>1, <2>2, EmptySeq, LenProperties
  <2>4. /\ Tail(q) \in Seq(Calls) /\ DOMAIN Tail(q) = 1..(Len(q) - 1)
        /\ \A k \in 1..(Len(q) - 1) : Tail(q)[k] = q[k + 1]
    BY <1>1, <2>3, HeadTailProperties, LenProperties
  <2>5. /\ server' = [server EXCEPT ![home].queue = Tail(q)]
        /\ server' \in [Servers -> Process]
        /\ server'[home].queue = Tail(q)
        /\ \A s \in Servers : server'[s].reg = server[s].reg
        /\ \A s \in Servers : s # home => server'[s] = server[s]
    BY <1>1, <1>3, <1>6, <2>4 DEF Leave, Process
  <2>6. Me.queue' = Tail(q) /\ Me.queue = q
    BY <2>5 DEF Me
  <2>7. \A k, l \in 1..Len(q) : q[k] = q[l] => k = l
    BY <2>3, <2>6 DEF IInv, QueueInv, OncePerCall
  <2>8. \A k \in 1..(Len(q) - 1) : k + 1 \in 1..Len(q) /\ k + 1 # 1
    BY <2>3
  <2>9. 1 \in 1..Len(q)
    BY <2>3
  <2>10. \A k \in 1..Len(q) : q[k] \in LockedCalls
    BY <2>3, <2>6 DEF IInv, QueueInv, QueueIsLocked
  <2>11. QueueIsLocked'
    <3>1. \A k \in 1..(Len(q) - 1) : q[k + 1] \in LockedCalls \ {c}
      BY <2>1, <2>7, <2>8, <2>9, <2>10
    <3> QED BY <1>4, <2>4, <2>6, <3>1 DEF QueueIsLocked
  <2>12. LockedQueue'
    <3> SUFFICES ASSUME NEW d \in LockedCalls \ {c}
                 PROVE  \E k \in 1..(Len(q) - 1) : Tail(q)[k] = d
      BY <1>4, <2>4, <2>6 DEF LockedQueue
    <3>1. PICK m \in 1..Len(q) : q[m] = d
      BY <2>3, <2>6 DEF IInv, QueueInv, LockedQueue
    <3>2. m # 1
      BY <2>1, <3>1
    <3>3. m - 1 \in 1..(Len(q) - 1) /\ (m - 1) + 1 = m
      BY <2>3, <3>1, <3>2
    <3> QED BY <2>4, <3>1, <3>3
  <2>13. OncePerCall'
    <3>1. \A k, l \in 1..(Len(q) - 1) : q[k + 1] = q[l + 1] => k = l
      BY <2>3, <2>7, <2>8
    <3> QED BY <2>4, <2>6, <3>1 DEF OncePerCall
  <2>14. HeadRuns'
    <3> SUFFICES ASSUME NEW d \in LockedCalls \ {c}, call'[d].pc # "lock"
                 PROVE  FALSE
      BY <1>4 DEF HeadRuns
    <3>1. call[d].pc # "lock"
      BY <1>3 DEF LockedCalls
    <3> QED BY <2>1, <2>6, <3>1 DEF IInv, QueueInv, HeadRuns
  <2>15. OthersRest'
    BY <2>5 DEF IInv, QueueInv, OthersRest
  <2> QED BY <1>2, <1>3, <2>5, <2>11, <2>12, <2>13, <2>14, <2>15 DEF QueueInv
<1> QED BY <1>5, <1>6

(* A call begins: a locked one queues up, whatever else is under way.      *)
LEMMA Begins ==
  ASSUME IInv, NEW c \in Calls, NEW kind \in CallKinds, Begin(c, kind)
  PROVE  IInv'
<1> DEFINE pc == IF kind = "create" THEN "create" ELSE IF kind \in Locked THEN "lock" ELSE "load"
           r == [call[c] EXCEPT !.kind = kind, !.pc = pc]
           q == server[home].queue
<1>1. /\ call \in [Calls -> Call] /\ server \in [Servers -> Process] /\ home \in Servers
      /\ call[c].pc = "idle" /\ q \in Seq(Calls)
      /\ call[c] \in Call
  BY DEF IInv, TypeOK, Process, Begin, At
<1>2. pc \in Pcs /\ pc \notin {"idle", "done", "failed"}
  BY DEF Pcs
<1>3. r \in Call /\ r.kind = kind /\ r.pc = pc /\ r.broker = call[c].broker
  BY <1>1, <1>2 DEF Call
<1>4. /\ call' = [call EXCEPT ![c] = r]
      /\ call' \in [Calls -> Call] /\ call'[c] = r
      /\ \A d \in Calls : d # c => call'[d] = call[d]
  <2>1. call' = [call EXCEPT ![c].kind = kind, ![c].pc = pc]
    BY DEF Begin
  <2>2. call' = [call EXCEPT ![c] = r]
    BY <1>1, <2>1
  <2> QED BY <1>1, <1>3, <2>2
<1> HIDE DEF r
<1>5. c \notin LockedCalls
  BY <1>1 DEF LockedCalls, Active
<1>6. UNCHANGED <<token, dir, broker, home, crashes>>
  BY DEF Begin
<1>7. CASE kind \notin Locked
  <2>1. server' = server
    BY <1>7 DEF Begin
  <2>2. LockedCalls' = LockedCalls /\ Me.queue' = Me.queue
    BY <1>3, <1>4, <1>5, <1>6, <1>7, <2>1 DEF LockedCalls, Active, Me
  <2>3. \A d \in LockedCalls : call'[d] = call[d]
    BY <1>4, <1>5 DEF LockedCalls
  <2>4. QueueInv'
    BY <1>6, <2>1, <2>2, <2>3
    DEF IInv, QueueInv, QueueIsLocked, LockedQueue, OncePerCall, HeadRuns, OthersRest
  <2>5. TypeOK'
    BY <1>4, <1>6, <2>1 DEF IInv, TypeOK
  <2>6. BrokersExist'
    BY <1>3, <1>4, <1>6, <2>1 DEF IInv, BrokersExist
  <2> QED BY <2>4, <2>5, <2>6 DEF IInv
<1>8. CASE kind \in Locked
  <2>1. /\ Append(q, c) \in Seq(Calls)
        /\ Len(q) \in Nat /\ DOMAIN q = 1..Len(q)
        /\ DOMAIN Append(q, c) = 1..(Len(q) + 1)
        /\ \A k \in 1..Len(q) : Append(q, c)[k] = q[k]
        /\ Append(q, c)[Len(q) + 1] = c
    BY <1>1, LenProperties, AppendProperties
  <2>2. /\ server' = [server EXCEPT ![home].queue = Append(q, c)]
        /\ server' \in [Servers -> Process]
        /\ server'[home].queue = Append(q, c)
        /\ \A s \in Servers : server'[s].reg = server[s].reg
        /\ \A s \in Servers : s # home => server'[s] = server[s]
    BY <1>1, <1>8, <2>1 DEF Begin, Process
  <2>3. Me.queue' = Append(q, c) /\ Me.queue = q
    BY <1>6, <2>2 DEF Me
  <2>4. LockedCalls' = LockedCalls \cup {c}
    <3>1. pc = "lock"
      BY <1>8 DEF Locked
    <3>2. c \in LockedCalls'
      BY <1>3, <1>4, <1>8, <3>1 DEF LockedCalls, Active
    <3> QED BY <1>4, <3>2 DEF LockedCalls, Active
  <2>5. \A k \in 1..Len(q) : q[k] \in LockedCalls /\ q[k] # c
    BY <1>5, <2>1, <2>3 DEF IInv, QueueInv, QueueIsLocked
  <2>6. QueueIsLocked'
    <3>1. \A k \in 1..(Len(q) + 1) : k \in 1..Len(q) \/ k = Len(q) + 1
      BY <2>1
    <3> QED BY <2>1, <2>3, <2>4, <2>5, <3>1 DEF QueueIsLocked
  <2>7. LockedQueue'
    <3> SUFFICES ASSUME NEW d \in LockedCalls \cup {c}
                 PROVE  \E k \in 1..(Len(q) + 1) : Append(q, c)[k] = d
      BY <2>1, <2>3, <2>4 DEF LockedQueue
    <3>1. CASE d = c
      <4>1. Len(q) + 1 \in 1..(Len(q) + 1)
        BY <2>1
      <4> QED BY <2>1, <3>1, <4>1
    <3>2. CASE d # c
      <4>1. PICK m \in 1..Len(q) : q[m] = d
        BY <2>1, <2>3, <3>2 DEF IInv, QueueInv, LockedQueue
      <4>2. m \in 1..(Len(q) + 1)
        BY <2>1
      <4> QED BY <2>1, <4>1, <4>2
    <3> QED BY <3>1, <3>2
  <2>8. OncePerCall'
    <3>1. \A k \in 1..(Len(q) + 1) : k \in 1..Len(q) \/ k = Len(q) + 1
      BY <2>1
    <3>2. \A k, l \in 1..Len(q) : q[k] = q[l] => k = l
      BY <2>1, <2>3 DEF IInv, QueueInv, OncePerCall
    <3> QED BY <2>1, <2>3, <2>5, <3>1, <3>2 DEF OncePerCall
  <2>9. HeadRuns'
    <3> SUFFICES ASSUME NEW d \in LockedCalls \cup {c}, call'[d].pc # "lock"
                 PROVE  Append(q, c)[1] = d
      BY <2>3, <2>4 DEF HeadRuns
    <3>1. pc = "lock"
      BY <1>8 DEF Locked
    <3>2. d # c /\ d \in LockedCalls
      BY <1>3, <1>4, <3>1
    <3>3. call'[d] = call[d]
      BY <1>4, <3>2 DEF LockedCalls
    <3>4. q[1] = d
      BY <2>3, <3>2, <3>3 DEF IInv, QueueInv, HeadRuns
    <3>5. PICK m \in 1..Len(q) : q[m] = d
      BY <2>1, <2>3, <3>2 DEF IInv, QueueInv, LockedQueue
    <3>6. 1 \in 1..Len(q)
      BY <2>1, <3>5
    <3> QED BY <2>1, <3>4, <3>6
  <2>10. OthersRest'
    BY <1>6, <2>2 DEF IInv, QueueInv, OthersRest
  <2>11. TypeOK'
    BY <1>4, <1>6, <2>2 DEF IInv, TypeOK
  <2>12. BrokersExist'
    BY <1>3, <1>4, <1>6, <2>2 DEF IInv, BrokersExist
  <2> QED BY <2>6, <2>7, <2>8, <2>9, <2>10, <2>11, <2>12 DEF IInv, QueueInv
<1> QED BY <1>7, <1>8

(* The lock is passed on: the head of the queue goes past it.              *)
LEMMA EnterKeeps == ASSUME IInv, NEW c \in Calls, Enter(c) PROVE IInv'
<1> DEFINE r == [call[c] EXCEPT !.pc = "load"]
<1>1. /\ call \in [Calls -> Call] /\ call[c] \in Call /\ call[c].pc = "lock"
      /\ server' = server /\ home' = home
      /\ Head(Me.queue) = c
  BY DEF IInv, TypeOK, Enter, At
<1>2. r \in Call /\ r.kind = call[c].kind /\ r.pc = "load" /\ r.broker = call[c].broker
  BY <1>1 DEF Call, Pcs
<1>3. /\ call' = [call EXCEPT ![c] = r]
      /\ call' \in [Calls -> Call] /\ call'[c] = r
      /\ \A d \in Calls : d # c => call'[d] = call[d]
  BY <1>1, <1>2 DEF Enter, Goto
<1> HIDE DEF r
<1>4. LockedCalls' = LockedCalls /\ Me.queue' = Me.queue
  BY <1>1, <1>2, <1>3 DEF LockedCalls, Active, Me
<1>5. HeadRuns'
  <2> SUFFICES ASSUME NEW d \in LockedCalls, call'[d].pc # "lock" PROVE Me.queue[1] = d
    BY <1>4 DEF HeadRuns
  <2>1. CASE d = c
    <3>1. PICK i \in DOMAIN Me.queue : Me.queue[i] = d
      BY DEF IInv, QueueInv, LockedQueue
    <3>2. Me.queue \in Seq(Calls)
      BY DEF IInv, TypeOK, Process, Me
    <3> QED BY <1>1, <2>1, <3>2
  <2>2. CASE d # c
    <3>1. call'[d] = call[d]
      BY <1>3, <2>2 DEF LockedCalls
    <3> QED BY <3>1 DEF IInv, QueueInv, HeadRuns
  <2> QED BY <2>1, <2>2
<1>6. QueueInv'
  BY <1>1, <1>4, <1>5 DEF IInv, QueueInv, QueueIsLocked, LockedQueue, OncePerCall, OthersRest
<1>7. TypeOK' /\ BrokersExist'
  BY <1>1, <1>2, <1>3 DEF IInv, TypeOK, BrokersExist, Enter
<1> QED BY <1>6, <1>7 DEF IInv

-----------------------------------------------------------------------------
(* Steps of a call past the lock: it goes on, or it ends.                    *)

(* It goes on: with the queue, the invariant stays.                        *)
LEMMA GoesOnKeeps ==
  ASSUME IInv, NEW c \in Calls, call[c].pc \in Running, OthersSound,
         NEW r \in Call, call' = [call EXCEPT ![c] = r],
         r.kind = call[c].kind, r.pc \in Running, r.broker <= Len(broker'),
         server' \in [Servers -> Process],
         \A s \in Servers : server'[s].queue = server[s].queue,
         \A s \in Servers : server'[s].reg <= Len(broker')
  PROVE  IInv'
<1>1. QueueInv'
  BY GoesOn DEF OthersSound
<1>2. call' \in [Calls -> Call] /\ call'[c] = r /\ \A d \in Calls : d # c => call'[d] = call[d]
  BY DEF IInv, TypeOK
<1>3. TypeOK'
  BY <1>2 DEF IInv, TypeOK, OthersSound
<1>4. BrokersExist'
  <2>1. \A d \in Calls : call[d].broker <= Len(broker')
    <3>1. Len(broker) \in Nat /\ Len(broker') \in Nat /\ \A d \in Calls : call[d].broker \in Int
      BY LifecycleConstants, LenProperties DEF IInv, TypeOK, OthersSound, Call
    <3> QED BY <3>1 DEF IInv, BrokersExist, OthersSound
  <2> QED BY <1>2, <2>1 DEF BrokersExist, OthersSound
<1> QED BY <1>1, <1>3, <1>4 DEF IInv

(* The common case: the call goes to another place and nothing of it or of *)
(* the servers changes.                                                    *)
LEMMA GotoKeeps ==
  ASSUME IInv, NEW c \in Calls, call[c].pc \in Running, OthersSound,
         NEW pc \in Running, Goto(c, pc), server' = server
  PROVE  IInv'
<1>1. call \in [Calls -> Call] /\ call[c] \in Call /\ server \in [Servers -> Process]
  BY DEF IInv, TypeOK
<1>2. PICK r \in Call : r = [call[c] EXCEPT !.pc = pc]
  BY <1>1 DEF Call, Running
<1>3. r.kind = call[c].kind /\ r.pc = pc /\ r.broker = call[c].broker
  BY <1>1, <1>2 DEF Call
<1>4. call' = [call EXCEPT ![c] = r]
  BY <1>1, <1>2 DEF Goto
<1>5. /\ Len(broker) \in Nat /\ Len(broker') \in Nat
      /\ call[c].broker \in Int /\ \A s \in Servers : server[s].reg \in Int
  BY <1>1, LifecycleConstants, LenProperties DEF IInv, TypeOK, OthersSound, Call, Process
<1>6. r.broker <= Len(broker') /\ \A s \in Servers : server'[s].reg <= Len(broker')
  BY <1>3, <1>5 DEF IInv, BrokersExist, OthersSound
<1> QED BY <1>1, <1>3, <1>4, <1>6, GoesOnKeeps

(* It ends: with the queue, the invariant stays.                           *)
LEMMA EndKeeps ==
  ASSUME IInv, NEW c \in Calls, call[c].pc \in Running, OthersSound,
         NEW how \in {"done", "failed"}, End(c, how)
  PROVE  IInv'
<1>1. /\ call' \in [Calls -> Call] /\ server' \in [Servers -> Process]
      /\ \A s \in Servers : server'[s].reg = server[s].reg
      /\ call'[c].broker = 0 /\ \A d \in Calls : d # c => call'[d] = call[d]
      /\ QueueInv'
  BY Ends DEF OthersSound
<1>2. TypeOK'
  BY <1>1 DEF IInv, TypeOK, OthersSound
<1>3. /\ Len(broker) \in Nat /\ Len(broker') \in Nat
      /\ \A d \in Calls : call[d].broker \in Int
      /\ \A s \in Servers : server[s].reg \in Int
  BY LifecycleConstants, LenProperties DEF IInv, TypeOK, OthersSound, Call, Process
<1>4. BrokersExist'
  BY <1>1, <1>3 DEF IInv, BrokersExist, OthersSound
<1> QED BY <1>1, <1>2, <1>4 DEF IInv

(* A step that changes nothing but the directory.                          *)
LEMMA DirSound ==
  ASSUME IInv, UNCHANGED <<token, broker, home, crashes>>, dir' \in Dir
  PROVE  OthersSound
<1>1. Len(broker) \in Nat
  BY LenProperties DEF IInv, TypeOK
<1> QED BY <1>1 DEF IInv, TypeOK, BrokersExist, OthersSound

(* A call that only reads, and goes on or ends.                            *)
LEMMA ReadKeeps ==
  ASSUME IInv, NEW c \in Calls, call[c].pc \in Running,
         UNCHANGED <<token, dir, broker, home, crashes>>,
         \/ \E pc \in Running : Goto(c, pc) /\ server' = server
         \/ \E how \in {"done", "failed"} : End(c, how)
  PROVE  IInv'
<1>1. OthersSound
  BY DirSound DEF IInv, TypeOK
<1> QED BY <1>1, GotoKeeps, EndKeeps

(* A call that writes in the directory, and goes on or ends.               *)
LEMMA WriteKeeps ==
  ASSUME IInv, NEW c \in Calls, call[c].pc \in Running, dir' \in Dir,
         UNCHANGED <<token, broker, home, crashes>>,
         \/ \E pc \in Running : Goto(c, pc) /\ server' = server
         \/ \E how \in {"done", "failed"} : End(c, how)
  PROVE  IInv'
<1>1. OthersSound
  BY DirSound
<1> QED BY <1>1, GotoKeeps, EndKeeps

-----------------------------------------------------------------------------
(* The actions of a call.                                                    *)

(* Steps that read and decide.                                             *)
LEMMA Reads ==
  ASSUME IInv, NEW c \in Calls,
         \/ Load(c) \/ LookForSummary(c) \/ Inspect(c) \/ CheckEvidence(c)
         \/ RenderEvidence(c) \/ RenderFault(c)
  PROVE  IInv'
<1>1. CASE Load(c)
  <2>1. call[c].pc \in Running
    BY <1>1 DEF Load, At, Running, Pcs
  <2>2. \/ \E pc \in Running : Goto(c, pc) /\ server' = server
        \/ \E how \in {"done", "failed"} : End(c, how)
    <3>1. {"close", "ensured", "start", "mark"} \subseteq Running
      BY DEF Running, Pcs
    <3> QED BY <1>1, <3>1 DEF Load
  <2> QED BY <1>1, <2>1, <2>2, ReadKeeps DEF Load
<1>2. CASE LookForSummary(c)
  <2>1. call[c].pc \in Running /\ "explain" \in Running
    BY <1>2 DEF LookForSummary, At, Running, Pcs
  <2> QED BY <1>2, <2>1, ReadKeeps DEF LookForSummary
<1>3. CASE Inspect(c)
  <2>1. call[c].pc \in Running
    BY <1>3 DEF Inspect, At, Running, Pcs
  <2> QED BY <1>3, <2>1, ReadKeeps DEF Inspect
<1>4. CASE CheckEvidence(c)
  <2>1. call[c].pc \in Running /\ "seal" \in Running
    BY <1>4 DEF CheckEvidence, At, Running, Pcs
  <2> QED BY <1>4, <2>1, ReadKeeps DEF CheckEvidence
<1>5. CASE RenderEvidence(c)
  <2>1. call[c].pc \in Running /\ "publish" \in Running
    BY <1>5 DEF RenderEvidence, At, Running, Pcs
  <2> QED BY <1>5, <2>1, ReadKeeps DEF RenderEvidence
<1>6. CASE RenderFault(c)
  <2>1. call[c].pc \in Running
    BY <1>6 DEF RenderFault, At, Running, Pcs
  <2> QED BY <1>6, <2>1, ReadKeeps DEF RenderFault
<1> QED BY <1>1, <1>2, <1>3, <1>4, <1>5, <1>6

(* A call that replaces its place and the telemetry it will write.         *)
LEMMA EventSteps ==
  ASSUME IInv, NEW c \in Calls, StampEvent(c) \/ CheckEvent(c) PROVE IInv'
<1>1. /\ call \in [Calls -> Call] /\ call[c] \in Call /\ call[c].pc \in Running
      /\ dir.telemetry \in Seq(Calls) /\ server \in [Servers -> Process]
      /\ Append(dir.telemetry, c) \in Seq(Calls)
  <2>1. dir.telemetry \in Seq(Calls)
    BY DEF IInv, TypeOK, Dir
  <2>2. Append(dir.telemetry, c) \in Seq(Calls)
    BY <2>1, AppendProperties
  <2> QED BY <2>1, <2>2 DEF IInv, TypeOK, StampEvent, CheckEvent, At, Running, Pcs
<1>2. UNCHANGED <<token, dir, broker, home, crashes>> /\ OthersSound
  <2>1. UNCHANGED <<token, dir, broker, home, crashes>>
    BY DEF StampEvent, CheckEvent
  <2> QED BY <2>1, DirSound DEF IInv, TypeOK
<1>3. CASE End(c, "failed")
  BY <1>1, <1>2, <1>3, EndKeeps
<1>4. CASE ~End(c, "failed")
  <2>1. PICK pc \in Running, lines \in Seq(Calls) :
          call' = [call EXCEPT ![c].pc = pc, ![c].lines = lines] /\ server' = server
    <3>1. "append" \in Running /\ "save" \in Running
      BY DEF Running, Pcs
    <3> QED BY <1>1, <1>4, <3>1 DEF StampEvent, CheckEvent
  <2>2. PICK r \in Call : r = [call[c] EXCEPT !.pc = pc, !.lines = lines]
    BY <1>1 DEF Call, Running
  <2>3. r.kind = call[c].kind /\ r.pc = pc /\ r.broker = call[c].broker
    BY <1>1, <2>2 DEF Call
  <2>4. call' = [call EXCEPT ![c] = r]
    BY <1>1, <2>1, <2>2
  <2>5. r.broker <= Len(broker') /\ \A s \in Servers : server'[s].reg <= Len(broker')
    BY <1>2, <2>1, <2>3 DEF IInv, BrokersExist
  <2> QED BY <1>1, <1>2, <2>1, <2>3, <2>4, <2>5, GoesOnKeeps
<1> QED BY <1>3, <1>4

(* Steps that write in the session's directory.                            *)
LEMMA Writes ==
  ASSUME IInv, NEW c \in Calls,
         \/ Create(c) \/ WriteReady(c) \/ UndoCreate(c) \/ MarkInterrupted(c)
         \/ WriteInterruptedSummary(c) \/ SaveEvents(c) \/ WriteSealed(c)
         \/ RemoveHelpers(c) \/ RemoveSession(c) \/ Publish(c)
         \/ \E file \in {"video", "manifest", "report"} : Rename(c, file)
  PROVE  IInv'
<1>1. dir \in Dir /\ call[c].lines \in Seq(Calls)
  BY DEF IInv, TypeOK, Call
<1>2. NoSummary \in Summary /\ NoDir \in Dir
  <2>1. 0 \in 0..MaxBrokers /\ 0 \in 0..MaxFrames
    BY LifecycleConstants
  <2>2. NoSummary \in Summary
    BY <2>1 DEF NoSummary, Summary
  <2> QED BY <2>1, <2>2, EmptySeq DEF NoDir, Dir
<1>3. CASE Create(c)
  <2>1. dir' \in Dir
    BY <1>2, <1>3 DEF Create, Dir
  <2>2. call[c].pc \in Running /\ "state" \in Running
    BY <1>3 DEF Create, At, Running, Pcs
  <2> QED BY <1>3, <2>1, <2>2, WriteKeeps DEF Create
<1>4. CASE WriteReady(c)
  <2>1. dir' \in Dir
    BY <1>1, <1>4 DEF WriteReady, Dir, BrokerPhases
  <2>2. call[c].pc \in Running /\ "start" \in Running
    BY <1>4 DEF WriteReady, At, Running, Pcs
  <2> QED BY <1>4, <2>1, <2>2, WriteKeeps DEF WriteReady
<1>5. CASE UndoCreate(c)
  <2>1. dir' \in Dir
    BY <1>2, <1>5 DEF UndoCreate
  <2>2. call[c].pc \in Running
    BY <1>5 DEF UndoCreate, At, Running, Pcs
  <2> QED BY <1>5, <2>1, <2>2, WriteKeeps DEF UndoCreate
<1>6. CASE MarkInterrupted(c)
  <2>1. dir' \in Dir
    BY <1>1, <1>6 DEF MarkInterrupted, Dir
  <2>2. call[c].pc \in Running /\ "look" \in Running
    BY <1>6 DEF MarkInterrupted, At, Running, Pcs
  <2> QED BY <1>6, <2>1, <2>2, WriteKeeps DEF MarkInterrupted
<1>7. CASE WriteInterruptedSummary(c)
  <2>1. [NoSummary EXCEPT !.status = "interrupted"] \in Summary
    BY <1>2 DEF Summary
  <2>2. dir' \in Dir
    BY <1>1, <1>7, <2>1 DEF WriteInterruptedSummary, Dir
  <2>3. call[c].pc \in Running
    BY <1>7 DEF WriteInterruptedSummary, At, Running, Pcs
  <2> QED BY <1>7, <2>2, <2>3, WriteKeeps DEF WriteInterruptedSummary
<1>8. CASE SaveEvents(c)
  <2>1. dir' \in Dir
    BY <1>1, <1>8 DEF SaveEvents, Dir
  <2>2. call[c].pc \in Running
    BY <1>8 DEF SaveEvents, At, Running, Pcs
  <2> QED BY <1>8, <2>1, <2>2, WriteKeeps DEF SaveEvents
<1>9. CASE WriteSealed(c)
  <2>1. dir' \in Dir
    BY <1>1, <1>9 DEF WriteSealed, Dir
  <2>2. call[c].pc \in Running /\ "close" \in Running
    BY <1>9 DEF WriteSealed, At, Running, Pcs
  <2> QED BY <1>9, <2>1, <2>2, WriteKeeps DEF WriteSealed
<1>10. CASE RemoveHelpers(c)
  <2>1. dir' \in Dir
    BY <1>1, <1>10 DEF RemoveHelpers, Dir
  <2>2. call[c].pc \in Running /\ "remove" \in Running
    BY <1>10 DEF RemoveHelpers, At, Running, Pcs
  <2> QED BY <1>10, <2>1, <2>2, WriteKeeps DEF RemoveHelpers
<1>11. CASE RemoveSession(c)
  <2>1. dir' \in Dir
    BY <1>1, <1>2, <1>11 DEF RemoveSession, Dir
  <2>2. call[c].pc \in Running
    BY <1>11 DEF RemoveSession, At, Running, Pcs
  <2> QED BY <1>11, <2>1, <2>2, WriteKeeps DEF RemoveSession
<1>12. CASE Publish(c)
  <2>1. dir' \in Dir
    BY <1>1, <1>12 DEF Publish, Dir
  <2>2. call[c].pc \in Running /\ "video" \in Running
    BY <1>12 DEF Publish, At, Running, Pcs
  <2> QED BY <1>12, <2>1, <2>2, WriteKeeps DEF Publish
<1>13. ASSUME NEW file \in {"video", "manifest", "report"}, Rename(c, file) PROVE IInv'
  <2>1. dir' \in Dir
    BY <1>1, <1>13 DEF Rename, Dir
  <2>2. call[c].pc \in Running /\ "manifest" \in Running /\ "report" \in Running
    BY <1>13 DEF Rename, At, Running, Pcs
  <2> QED BY <1>13, <2>1, <2>2, WriteKeeps DEF Rename
<1> QED BY <1>3, <1>4, <1>5, <1>6, <1>7, <1>8, <1>9, <1>10, <1>11, <1>12, <1>13

(* A call that does not hold the lock may end anywhere.                    *)
LEMMA UnlockedKeeps ==
  ASSUME IInv, NEW c \in Calls, call[c].kind \notin Locked, OthersSound,
         NEW r \in Call, call' = [call EXCEPT ![c] = r],
         r.kind = call[c].kind, r.broker <= Len(broker'),
         server' \in [Servers -> Process],
         \A s \in Servers : server'[s].queue = server[s].queue,
         \A s \in Servers : server'[s].reg <= Len(broker')
  PROVE  IInv'
<1>1. /\ call' \in [Calls -> Call] /\ call'[c] = r /\ home \in Servers
      /\ \A d \in Calls : d # c => call'[d] = call[d]
  BY DEF IInv, TypeOK
<1>2. LockedCalls' = LockedCalls /\ Me.queue' = Me.queue
  BY <1>1 DEF LockedCalls, Active, OthersSound, Me
<1>3. \A d \in LockedCalls : call'[d] = call[d]
  BY <1>1 DEF LockedCalls
<1>4. QueueInv'
  BY <1>2, <1>3
  DEF IInv, QueueInv, QueueIsLocked, LockedQueue, OncePerCall, HeadRuns, OthersRest, OthersSound
<1>5. TypeOK'
  BY <1>1 DEF IInv, TypeOK, OthersSound
<1>6. BrokersExist'
  <2>1. Len(broker) \in Nat /\ Len(broker') \in Nat /\ \A d \in Calls : call[d].broker \in Int
    BY LifecycleConstants, LenProperties DEF IInv, TypeOK, OthersSound, Call
  <2> QED BY <1>1, <2>1 DEF IInv, BrokersExist, OthersSound
<1> QED BY <1>4, <1>5, <1>6 DEF IInv

(* A broker starts, for a call that will register it.                      *)
LEMMA StartKeeps == ASSUME IInv, NEW c \in Calls, StartBroker(c) PROVE IInv'
<1> DEFINE new == [up |-> TRUE, phase |-> "ready", frames |-> 0, owes |-> FALSE]
           n == Len(broker)
<1>1. /\ broker \in Seq(Broker) /\ n \in Nat /\ n < MaxBrokers /\ MaxBrokers \in Nat
      /\ call \in [Calls -> Call] /\ call[c] \in Call /\ server \in [Servers -> Process]
      /\ call[c].pc \in Running /\ "wrap" \in Running /\ new \in Broker
  BY LifecycleConstants, LenProperties
  DEF IInv, TypeOK, StartBroker, At, Running, Pcs, Broker, BrokerPhases
<1>2. /\ broker' = Append(broker, new) /\ broker' \in Seq(Broker)
      /\ Len(broker') = n + 1 /\ DOMAIN broker' = 1..(n + 1) /\ DOMAIN broker = 1..n
      /\ \A b \in 1..n : broker'[b] = broker[b]
      /\ broker'[n + 1] = new
  BY <1>1, AppendProperties, LenProperties DEF StartBroker
<1>3. Owing(broker')
  <2>1. \A b \in 1..(n + 1) : b \in 1..n \/ b = n + 1
    BY <1>1
  <2>2. ~new.owes
    OBVIOUS
  <2> QED BY <1>2, <2>1, <2>2 DEF IInv, BrokersExist, Owing
<1> HIDE DEF new
<1>4. OthersSound
  <2>1. dir' \in Dir /\ UNCHANGED <<token, home, crashes>>
    BY DEF IInv, TypeOK, StartBroker, Dir
  <2> QED BY <1>1, <1>2, <1>3, <2>1 DEF OthersSound
<1>5. PICK r \in Call : r = [call[c] EXCEPT !.pc = "wrap", !.broker = n + 1]
  <2>1. n + 1 \in 0..MaxBrokers
    BY <1>1
  <2> QED BY <1>1, <2>1 DEF Call, Running
<1>6. r.kind = call[c].kind /\ r.pc = "wrap" /\ r.broker = n + 1
  BY <1>1, <1>5 DEF Call
<1>7. call' = [call EXCEPT ![c] = r] /\ server' = server
  BY <1>1, <1>5 DEF StartBroker
<1>8. /\ r.broker <= Len(broker')
      /\ \A s \in Servers : server'[s].reg <= Len(broker')
  <2>1. \A s \in Servers : server[s].reg \in Int
    BY <1>1, LifecycleConstants DEF Process
  <2> QED BY <1>1, <1>2, <1>6, <1>7, <2>1 DEF IInv, BrokersExist
<1> QED BY <1>1, <1>4, <1>6, <1>7, <1>8, GoesOnKeeps

(* Brokers that only go down or change their phase leave the rest in order. *)
LEMMA BrokersSound ==
  ASSUME IInv, NEW b \in DOMAIN broker, NEW r \in Broker,
         r.owes => r.phase \in {"stopped", "failed"},
         broker' = [broker EXCEPT ![b] = r]
  PROVE  /\ broker' \in Seq(Broker) /\ Len(broker') = Len(broker)
         /\ Len(broker) \in Nat /\ Len(broker) <= Len(broker') /\ Len(broker') <= MaxBrokers
         /\ Owing(broker')
<1>1. broker \in Seq(Broker) /\ DOMAIN broker = 1..Len(broker) /\ Len(broker) \in Nat
  BY LenProperties DEF IInv, TypeOK
<1>2. broker' \in Seq(Broker) /\ Len(broker') = Len(broker)
  BY <1>1, ExceptSeq
<1>3. Owing(broker')
  BY <1>1 DEF IInv, BrokersExist, Owing
<1> QED BY <1>1, <1>2, <1>3 DEF IInv, TypeOK

(* A broker that could not be started goes down, and its call fails.       *)
LEMMA FaultKeeps == ASSUME IInv, NEW c \in Calls, BrokerFault(c) PROVE IInv'
<1> DEFINE b == call[c].broker
<1>1. /\ call[c].pc \in Running /\ "undo" \in Running
      /\ UNCHANGED <<token, dir, home, crashes>>
  BY DEF BrokerFault, At, Running, Pcs
<1>2. OthersSound
  <2>1. CASE b = 0
    <3>1. UNCHANGED <<token, broker, home, crashes>> /\ dir' \in Dir
      BY <1>1, <2>1 DEF BrokerFault, IInv, TypeOK
    <3> QED BY <3>1, DirSound
  <2>2. CASE b # 0
    <3>1. broker \in Seq(Broker) /\ DOMAIN broker = 1..Len(broker) /\ Len(broker) \in Nat
      BY LenProperties DEF IInv, TypeOK
    <3>2. b \in DOMAIN broker
      <4>1. b \in 0..MaxBrokers /\ b <= Len(broker)
        BY DEF IInv, TypeOK, Call, BrokersExist
      <4> QED BY <2>2, <3>1, <4>1, LifecycleConstants
    <3>3. broker[b] \in Broker
      BY <3>1, <3>2
    <3>4. PICK r \in Broker : r = [broker[b] EXCEPT !.up = FALSE]
      BY <3>3 DEF Broker
    <3>5. r.owes = broker[b].owes /\ r.phase = broker[b].phase
      BY <3>3, <3>4 DEF Broker
    <3>6. broker' = [broker EXCEPT ![b] = r]
      BY <2>2, <3>1, <3>2, <3>4 DEF BrokerFault
    <3>7. r.owes => r.phase \in {"stopped", "failed"}
      BY <3>2, <3>5 DEF IInv, BrokersExist, Owing
    <3> QED BY <1>1, <3>2, <3>6, <3>7, BrokersSound DEF OthersSound, IInv, TypeOK
  <2> QED BY <2>1, <2>2
<1>3. CASE call[c].kind = "create"
  BY <1>1, <1>2, <1>3, GotoKeeps DEF BrokerFault
<1>4. CASE call[c].kind # "create"
  BY <1>1, <1>2, <1>4, EndKeeps DEF BrokerFault
<1> QED BY <1>3, <1>4

(* A broker is registered, and its call goes on; create is done.           *)
LEMMA WrapKeeps == ASSUME IInv, NEW c \in Calls, WriteWrappers(c) PROVE IInv'
<1> DEFINE b == call[c].broker
<1>1. /\ call \in [Calls -> Call] /\ call[c] \in Call /\ home \in Servers
      /\ server \in [Servers -> Process] /\ b \in 0..MaxBrokers /\ b <= Len(broker)
      /\ call[c].pc \in Running /\ "ensured" \in Running
      /\ UNCHANGED <<token, broker, home, crashes>>
  BY DEF IInv, TypeOK, BrokersExist, Call, WriteWrappers, At, Running, Pcs
<1>2. OthersSound
  <2>1. dir' \in Dir
    BY <1>1 DEF IInv, TypeOK, WriteWrappers, Dir
  <2> QED BY <1>1, <2>1, DirSound
<1>3. /\ server' = [server EXCEPT ![home].reg = b]
      /\ server' \in [Servers -> Process]
      /\ \A s \in Servers : server'[s].queue = server[s].queue
      /\ \A s \in Servers : server'[s].reg = IF s = home THEN b ELSE server[s].reg
  BY <1>1 DEF WriteWrappers, Process
<1>4. \A s \in Servers : server'[s].reg <= Len(broker')
  BY <1>1, <1>3 DEF IInv, BrokersExist
<1>5. CASE call[c].kind = "create"
  <2> DEFINE r == [NoCall EXCEPT !.kind = "create", !.pc = "done"]
  <2>1. r \in Call /\ r.kind = "create" /\ r.broker = 0
    <3>1. 0 \in 0..MaxBrokers
      BY LifecycleConstants
    <3> QED BY <3>1, EmptySeq DEF Call, NoCall, Pcs, CallKinds
  <2>2. call' = [call EXCEPT ![c] = r]
    BY <1>5 DEF WriteWrappers
  <2>3. 0 <= Len(broker')
    BY <1>1, LenProperties DEF IInv, TypeOK
  <2>4. call[c].kind \notin Locked
    BY <1>5 DEF Locked
  <2> HIDE DEF r
  <2> QED BY <1>2, <1>3, <1>4, <1>5, <2>1, <2>2, <2>3, <2>4, UnlockedKeeps
<1>6. CASE call[c].kind # "create"
  <2>1. PICK r \in Call : r = [call[c] EXCEPT !.pc = "ensured"]
    BY <1>1 DEF Call, Running
  <2>2. r.kind = call[c].kind /\ r.pc = "ensured" /\ r.broker = b
    BY <1>1, <2>1 DEF Call
  <2>3. call' = [call EXCEPT ![c] = r]
    BY <1>1, <1>6, <2>1 DEF WriteWrappers, Goto
  <2>4. r.broker <= Len(broker')
    BY <1>1, <2>2
  <2> QED BY <1>1, <1>2, <1>3, <1>4, <2>2, <2>3, <2>4, GoesOnKeeps
<1> QED BY <1>5, <1>6

(* The broker is closed: a live capture fails, the registry forgets it.    *)
LEMMA CloseKeeps == ASSUME IInv, NEW c \in Calls, CloseBroker(c) PROVE IInv'
<1>1. /\ call \in [Calls -> Call] /\ call[c] \in Call /\ home \in Servers
      /\ server \in [Servers -> Process] /\ Reg \in 0..MaxBrokers /\ Reg <= Len(broker)
      /\ call[c].pc \in Running /\ "discard" \in Running /\ "render" \in Running
      /\ UNCHANGED <<token, home, crashes>>
  BY DEF IInv, TypeOK, BrokersExist, Process, Reg, Me, CloseBroker, At, Running, Pcs
<1>2. OthersSound
  <2>1. CASE Reg = 0
    BY <1>1, <2>1, DirSound DEF CloseBroker, IInv, TypeOK
  <2>2. CASE Reg # 0
    <3>1. broker \in Seq(Broker) /\ DOMAIN broker = 1..Len(broker) /\ Len(broker) \in Nat
      BY LenProperties DEF IInv, TypeOK
    <3>2. Reg \in DOMAIN broker /\ broker[Reg] \in Broker
      BY <1>1, <2>2, <3>1, LifecycleConstants
    <3>3. CASE broker[Reg].phase \in {"claimed", "running"}
      <4>1. PICK r \in Broker : r = [broker[Reg] EXCEPT !.up = FALSE, !.phase = "failed",
                                                       !.owes = FALSE]
        BY <3>2 DEF Broker, BrokerPhases
      <4>2. ~r.owes
        BY <3>2, <4>1 DEF Broker
      <4>3. broker' = [broker EXCEPT ![Reg] = r]
        BY <2>2, <3>1, <3>2, <3>3, <4>1 DEF CloseBroker
      <4>4. [status |-> "failed", by |-> Reg, frames |-> broker[Reg].frames] \in Summary
        BY <1>1, <3>2 DEF Summary, Broker
      <4>5. dir' \in Dir
        BY <2>2, <3>3, <4>4 DEF CloseBroker, IInv, TypeOK, Dir, BrokerPhases
      <4> HIDE DEF Reg
      <4> QED BY <1>1, <3>2, <4>2, <4>3, <4>5, BrokersSound DEF OthersSound
    <3>4. CASE broker[Reg].phase \notin {"claimed", "running"}
      <4>1. PICK r \in Broker : r = [broker[Reg] EXCEPT !.up = FALSE]
        BY <3>2 DEF Broker
      <4>2. r.owes = broker[Reg].owes /\ r.phase = broker[Reg].phase
        BY <3>2, <4>1 DEF Broker
      <4>3. broker' = [broker EXCEPT ![Reg] = r] /\ dir' = dir
        BY <2>2, <3>1, <3>2, <3>4, <4>1 DEF CloseBroker
      <4>4. r.owes => r.phase \in {"stopped", "failed"}
        BY <3>2, <4>2 DEF IInv, BrokersExist, Owing
      <4> HIDE DEF Reg
      <4> QED BY <1>1, <3>2, <4>3, <4>4, BrokersSound DEF OthersSound, IInv, TypeOK
    <3> QED BY <3>3, <3>4
  <2> QED BY <2>1, <2>2
<1>3. /\ server' = [server EXCEPT ![home].reg = 0]
      /\ server' \in [Servers -> Process]
      /\ \A s \in Servers : server'[s].queue = server[s].queue
      /\ \A s \in Servers : server'[s].reg = IF s = home THEN 0 ELSE server[s].reg
  <2>1. 0 \in 0..MaxBrokers
    BY LifecycleConstants
  <2> QED BY <1>1, <2>1 DEF CloseBroker, Process
<1>4. /\ Len(broker) \in Nat /\ Len(broker') \in Nat /\ Len(broker) <= Len(broker')
      /\ \A s \in Servers : server[s].reg \in Int
      /\ call[c].broker \in Int
  BY <1>1, <1>2, LifecycleConstants, LenProperties DEF IInv, TypeOK, OthersSound, Process, Call
<1>5. \A s \in Servers : server'[s].reg <= Len(broker')
  BY <1>3, <1>4 DEF IInv, BrokersExist
<1>6. PICK pc \in Running : call' = [call EXCEPT ![c].pc = pc]
  BY <1>1 DEF CloseBroker, Goto
<1>7. PICK r \in Call : r = [call[c] EXCEPT !.pc = pc]
  BY <1>1 DEF Call, Running
<1>8. r.kind = call[c].kind /\ r.pc = pc /\ r.broker = call[c].broker
  BY <1>1, <1>7 DEF Call
<1>9. call' = [call EXCEPT ![c] = r]
  BY <1>1, <1>6, <1>7
<1>10. r.broker <= Len(broker')
  BY <1>4, <1>8 DEF IInv, BrokersExist
<1> QED BY <1>1, <1>2, <1>3, <1>5, <1>8, <1>9, <1>10, GoesOnKeeps

(* Every step of a call.                                                   *)
LEMMA CallKeeps == ASSUME IInv, NEW c \in Calls, CallStep(c) PROVE IInv'
BY EnterKeeps, Reads, EventSteps, Writes, StartKeeps, FaultKeeps, WrapKeeps, CloseKeeps
DEF CallStep

-----------------------------------------------------------------------------
(* The browser's steps, a server's boot and its crash.                       *)

(* A step that touches neither the calls nor the servers.                  *)
LEMMA ElsewhereKeeps ==
  ASSUME IInv, NEW b \in DOMAIN broker, NEW r \in Broker,
         r.owes => r.phase \in {"stopped", "failed"},
         broker' = [broker EXCEPT ![b] = r], dir' \in Dir,
         UNCHANGED <<token, server, call, home, crashes>>
  PROVE  IInv'
<1>1. /\ broker' \in Seq(Broker) /\ Len(broker') = Len(broker) /\ Len(broker') <= MaxBrokers
      /\ Owing(broker')
  BY BrokersSound
<1>2. TypeOK' /\ BrokersExist'
  BY <1>1 DEF IInv, TypeOK, BrokersExist
<1>3. LockedCalls' = LockedCalls /\ Me.queue' = Me.queue
  BY DEF LockedCalls, Active, Me
<1>4. QueueInv'
  BY <1>3 DEF IInv, QueueInv, QueueIsLocked, LockedQueue, OncePerCall, HeadRuns, OthersRest
<1> QED BY <1>2, <1>4 DEF IInv

(* A step of a capture: claimed, a frame, its end and its summary.         *)
LEMMA CaptureKeeps == ASSUME IInv, NEW b \in BrokerIds, Capture(b) PROVE IInv'
<1>1. b \in DOMAIN broker /\ broker[b] \in Broker /\ dir \in Dir
  <2>1. b \in DOMAIN broker
    BY DEF Capture, Claim, Frame, StopCapture, FailCapture, WriteSummary, Enters
  <2>2. broker \in Seq(Broker) /\ dir \in Dir
    BY DEF IInv, TypeOK
  <2>3. DOMAIN broker = 1..Len(broker)
    BY <2>2, LenProperties
  <2> QED BY <2>1, <2>2, <2>3
<1>2. broker[b].owes => broker[b].phase \in {"stopped", "failed"}
  BY <1>1 DEF IInv, BrokersExist, Owing
<1>3. UNCHANGED <<token, server, call, home, crashes>>
  BY DEF Capture, Claim, Frame, StopCapture, FailCapture, WriteSummary, Enters
<1>4. CASE Claim(b)
  <2>1. PICK r \in Broker : r = [broker[b] EXCEPT !.phase = "claimed"]
    BY <1>1 DEF Broker, BrokerPhases
  <2>2. ~r.owes
    BY <1>1, <1>2, <1>4, <2>1 DEF Claim, Enters, Broker
  <2>3. broker' = [broker EXCEPT ![b] = r]
    BY <1>1, <1>4, <2>1 DEF Claim
  <2>4. dir' \in Dir
    BY <1>1, <1>4 DEF Claim, Enters, SavePhase, Dir, BrokerPhases
  <2> QED BY <1>1, <1>3, <2>2, <2>3, <2>4, ElsewhereKeeps
<1>5. CASE Frame(b)
  <2>1. broker[b].frames + 1 \in 0..MaxFrames
    BY <1>1, <1>5, LifecycleConstants DEF Frame, Broker
  <2>2. PICK r \in Broker :
          r = [broker[b] EXCEPT !.phase = "running", !.frames = broker[b].frames + 1]
    BY <1>1, <2>1 DEF Broker, BrokerPhases
  <2>3. ~r.owes
    BY <1>1, <1>2, <1>5, <2>2 DEF Frame, Broker
  <2>4. broker' = [broker EXCEPT ![b] = r]
    BY <1>1, <1>5, <2>2 DEF Frame
  <2>5. Append(dir.evidence, b) \in Seq(BrokerIds)
    BY <1>1, AppendProperties DEF Dir
  <2>6. dir' \in Dir
    BY <1>1, <1>5, <2>5 DEF Frame, Dir, BrokerPhases
  <2> QED BY <1>1, <1>3, <2>3, <2>4, <2>6, ElsewhereKeeps
<1>6. CASE StopCapture(b)
  <2>1. PICK r \in Broker : r = [broker[b] EXCEPT !.phase = "stopped", !.owes = TRUE]
    BY <1>1 DEF Broker, BrokerPhases
  <2>2. r.phase = "stopped"
    BY <1>1, <2>1 DEF Broker
  <2>3. broker' = [broker EXCEPT ![b] = r]
    BY <1>1, <1>6, <2>1 DEF StopCapture
  <2>4. dir' \in Dir
    BY <1>1, <1>6 DEF StopCapture, Enters, SavePhase, Dir, BrokerPhases
  <2> QED BY <1>1, <1>3, <2>2, <2>3, <2>4, ElsewhereKeeps
<1>7. CASE FailCapture(b)
  <2>1. PICK owes \in BOOLEAN : broker' = [broker EXCEPT ![b].phase = "failed", ![b].owes = owes]
    BY <1>7 DEF FailCapture
  <2>2. PICK r \in Broker : r = [broker[b] EXCEPT !.phase = "failed", !.owes = owes]
    BY <1>1 DEF Broker, BrokerPhases
  <2>3. r.phase = "failed"
    BY <1>1, <2>2 DEF Broker
  <2>4. broker' = [broker EXCEPT ![b] = r]
    BY <1>1, <2>1, <2>2
  <2>5. dir' \in Dir
    BY <1>1, <1>7 DEF FailCapture, Enters, SavePhase, Dir, BrokerPhases
  <2> QED BY <1>1, <1>3, <2>3, <2>4, <2>5, ElsewhereKeeps
<1>8. CASE WriteSummary(b)
  <2>1. PICK r \in Broker : r = [broker[b] EXCEPT !.owes = FALSE]
    BY <1>1 DEF Broker
  <2>2. ~r.owes
    BY <1>1, <2>1 DEF Broker
  <2>3. broker' = [broker EXCEPT ![b] = r]
    BY <1>1, <1>8, <2>1 DEF WriteSummary
  <2>4. b \in 0..MaxBrokers
    BY LifecycleConstants DEF BrokerIds
  <2>5. [status |-> broker[b].phase, by |-> b, frames |-> broker[b].frames] \in Summary
    BY <1>1, <1>2, <1>8, <2>4 DEF WriteSummary, Summary, Broker
  <2>6. dir' \in Dir
    BY <1>1, <1>8, <2>5 DEF WriteSummary, Dir
  <2> QED BY <1>1, <1>3, <2>2, <2>3, <2>6, ElsewhereKeeps
<1> QED BY <1>4, <1>5, <1>6, <1>7, <1>8 DEF Capture

(* A server boots: it learns its token, nobody waits for it yet.           *)
LEMMA BootKeeps == ASSUME IInv, NEW s \in Servers, Boot(s) PROVE IInv'
<1>1. /\ server \in [Servers -> Process] /\ home \in Servers /\ token \in Servers \cup {None}
      /\ UNCHANGED <<dir, broker, call, home, crashes>>
  BY DEF IInv, TypeOK, Boot, BootRead, BootLink
<1>2. PICK pc \in {"boot", "link", "up"}, t \in Servers \cup {None} :
        server' = [server EXCEPT ![s].pc = pc, ![s].token = t]
  <2>1. CASE BootRead(s)
    <3>1. CASE token = None
      <4>1. server[s] = [server[s] EXCEPT !.token = server[s].token]
        BY <1>1 DEF Process
      <4>2. server[s].token \in Servers \cup {None}
        BY <1>1 DEF Process
      <4>3. server' = [server EXCEPT ![s].pc = "link", ![s].token = server[s].token]
        BY <1>1, <2>1, <3>1 DEF BootRead, Process
      <4> QED BY <4>2, <4>3
    <3>2. CASE token # None
      BY <1>1, <2>1, <3>2 DEF BootRead
    <3> QED BY <3>1, <3>2
  <2>2. CASE BootLink(s)
    <3>1. CASE token = None
      BY <1>1, <2>2, <3>1 DEF BootLink
    <3>2. CASE token # None
      <4>1. server[s].token \in Servers \cup {None}
        BY <1>1 DEF Process
      <4>2. server' = [server EXCEPT ![s].pc = "boot", ![s].token = server[s].token]
        BY <1>1, <2>2, <3>2 DEF BootLink, Process
      <4> QED BY <4>1, <4>2
    <3> QED BY <3>1, <3>2
  <2> QED BY <2>1, <2>2 DEF Boot
<1>3. /\ server' \in [Servers -> Process]
      /\ \A z \in Servers : server'[z].queue = server[z].queue /\ server'[z].reg = server[z].reg
  BY <1>1, <1>2 DEF Process
<1>4. token' \in Servers \cup {None}
  BY <1>1 DEF Boot, BootRead, BootLink
<1>5. TypeOK' /\ BrokersExist'
  BY <1>1, <1>3, <1>4 DEF IInv, TypeOK, BrokersExist
<1>6. LockedCalls' = LockedCalls /\ Me.queue' = Me.queue
  BY <1>1, <1>3 DEF LockedCalls, Active, Me
<1>7. QueueInv'
  BY <1>1, <1>3, <1>6
  DEF IInv, QueueInv, QueueIsLocked, LockedQueue, OncePerCall, HeadRuns, OthersRest
<1> QED BY <1>5, <1>7 DEF IInv

(* A server dies; with the home its calls and its locks are gone.          *)
LEMMA CrashKeeps == ASSUME IInv, NEW s \in Servers, Crash(s) PROVE IInv'
<1>1. /\ server \in [Servers -> Process] /\ call \in [Calls -> Call] /\ home \in Servers
      /\ broker \in Seq(Broker) /\ DOMAIN broker = 1..Len(broker) /\ Len(broker) \in Nat
      /\ crashes' \in 0..MaxCrashes /\ UNCHANGED <<token, dir>>
  <2>1. crashes' \in 0..MaxCrashes
    <3>1. crashes \in 0..MaxCrashes /\ crashes < MaxCrashes /\ crashes' = crashes + 1
      BY DEF IInv, TypeOK, Crash
    <3> QED BY <3>1, LifecycleConstants
  <2> QED BY <2>1, LenProperties DEF IInv, TypeOK, Crash
<1>2. Booting \in Process /\ Booting.queue = <<>> /\ Booting.reg = 0
  <2>1. 0 \in 0..MaxBrokers
    BY LifecycleConstants
  <2> QED BY <2>1, EmptySeq DEF Booting, Process
<1>3. /\ server' = [server EXCEPT ![s] = Booting] /\ server' \in [Servers -> Process]
      /\ server'[s] = Booting /\ \A z \in Servers : z # s => server'[z] = server[z]
  BY <1>1, <1>2 DEF Crash
<1>4. CASE s # home
  <2>1. UNCHANGED <<broker, call, home>>
    BY <1>4 DEF Crash
  <2>2. LockedCalls' = LockedCalls /\ Me.queue' = Me.queue
    BY <1>1, <1>3, <1>4, <2>1 DEF LockedCalls, Active, Me
  <2>3. OthersRest'
    BY <1>2, <1>3, <2>1 DEF IInv, QueueInv, OthersRest
  <2>4. QueueInv'
    BY <2>1, <2>2, <2>3 DEF IInv, QueueInv, QueueIsLocked, LockedQueue, OncePerCall, HeadRuns
  <2>5. TypeOK'
    BY <1>1, <1>3, <2>1 DEF IInv, TypeOK
  <2>6. BrokersExist'
    BY <1>1, <1>2, <1>3, <2>1 DEF IInv, BrokersExist
  <2> QED BY <2>4, <2>5, <2>6 DEF IInv
<1>5. CASE s = home
  <2>1. /\ broker' = [b \in DOMAIN broker |-> [broker[b] EXCEPT !.up = FALSE]]
        /\ call' = [c \in Calls |-> IF call[c].pc \in {"idle", "done"} THEN call[c]
                                    ELSE [NoCall EXCEPT !.kind = call[c].kind, !.pc = "failed"]]
        /\ home' \in Servers
    BY <1>5 DEF Crash
  <2>2. \A c \in Calls :
          LET r == [NoCall EXCEPT !.kind = call[c].kind, !.pc = "failed"]
          IN r \in Call /\ r.pc = "failed" /\ r.broker = 0
    <3>1. 0 \in 0..MaxBrokers
      BY LifecycleConstants
    <3> QED BY <1>1, <3>1, EmptySeq DEF Call, NoCall, Pcs
  <2>3. /\ call' \in [Calls -> Call]
        /\ \A c \in Calls : /\ call'[c].pc \in {"idle", "done", "failed"}
                            /\ call'[c].broker = 0 \/ call'[c].broker = call[c].broker
    BY <1>1, <2>1, <2>2
  <2>4. LockedCalls' = {}
    BY <2>3 DEF LockedCalls, Active
  <2>5. \A z \in Servers : server'[z].queue = <<>>
    BY <1>2, <1>3, <1>5 DEF IInv, QueueInv, OthersRest
  <2>6. QueueInv'
    <3>1. Me.queue' = <<>>
      BY <2>1, <2>5 DEF Me
    <3>2. DOMAIN Me.queue' = {}
      BY <3>1
    <3> QED BY <2>4, <2>5, <3>1, <3>2
        DEF QueueInv, QueueIsLocked, LockedQueue, OncePerCall, HeadRuns, OthersRest
  <2>7. /\ broker' \in Seq(Broker) /\ Len(broker') = Len(broker)
        /\ Owing(broker')
    <3>0. \A b \in 1..Len(broker) : broker[b] \in Broker
      BY <1>1
    <3>1. \A b \in 1..Len(broker) : [broker[b] EXCEPT !.up = FALSE] \in Broker
      BY <3>0 DEF Broker
    <3>2. broker' \in Seq(Broker) /\ Len(broker') = Len(broker)
      <4>1. broker' \in [1..Len(broker) -> Broker]
        BY <1>1, <2>1, <3>1
      <4> QED BY <1>1, <4>1
    <3>3. \A b \in DOMAIN broker : /\ broker'[b].owes = broker[b].owes
                                   /\ broker'[b].phase = broker[b].phase
      BY <1>1, <2>1, <3>0 DEF Broker
    <3> QED BY <2>1, <3>2, <3>3 DEF IInv, BrokersExist, Owing
  <2>8. TypeOK'
    BY <1>1, <1>3, <2>1, <2>3, <2>7 DEF IInv, TypeOK
  <2>9. BrokersExist'
    BY <1>1, <1>2, <1>3, <2>3, <2>7 DEF IInv, BrokersExist
  <2> QED BY <2>6, <2>8, <2>9 DEF IInv
<1> QED BY <1>4, <1>5

-----------------------------------------------------------------------------
(* The theorems.                                                             *)

(* At first nobody calls and nothing is queued.                            *)
LEMMA InitKeeps == Init => IInv
<1> SUFFICES ASSUME Init PROVE IInv
  OBVIOUS
<1>1. 0 \in 0..MaxBrokers /\ 0 \in 0..MaxFrames /\ 0 \in 0..MaxCrashes
  BY LifecycleConstants
<1>2. NoSummary \in Summary
  BY <1>1 DEF NoSummary, Summary
<1>3. NoDir \in Dir
  BY <1>1, <1>2, EmptySeq DEF NoDir, Dir
<1>4. Booting \in Process /\ Booting.queue = <<>> /\ Booting.reg = 0
  BY <1>1, EmptySeq DEF Booting, Process
<1>5. NoCall \in Call /\ NoCall.pc = "idle" /\ NoCall.broker = 0
  BY <1>1, EmptySeq DEF NoCall, Call, Pcs
<1>6. /\ server = [s \in Servers |-> Booting] /\ call = [c \in Calls |-> NoCall]
      /\ broker = <<>> /\ home \in Servers
  BY DEF Init
<1>7. broker \in Seq(Broker) /\ Len(broker) = 0 /\ DOMAIN broker = {}
  BY <1>6, EmptySeq
<1>8. TypeOK
  BY <1>1, <1>3, <1>4, <1>5, <1>7 DEF Init, TypeOK
<1>9. BrokersExist
  BY <1>4, <1>5, <1>6, <1>7 DEF BrokersExist, Owing
<1>10. LockedCalls = {}
  BY <1>5, <1>6 DEF LockedCalls, Active
<1>11. Me.queue = <<>>
  BY <1>4, <1>6 DEF Me
<1>12. DOMAIN Me.queue = {}
  BY <1>11
<1>13. QueueInv
  BY <1>4, <1>6, <1>10, <1>12
  DEF QueueInv, QueueIsLocked, LockedQueue, OncePerCall, HeadRuns, OthersRest
<1> QED BY <1>8, <1>9, <1>13 DEF IInv

(* Every step keeps the invariant.                                         *)
LEMMA NextKeeps == IInv /\ [Next]_vars => IInv'
<1> SUFFICES ASSUME IInv, [Next]_vars PROVE IInv'
  OBVIOUS
<1>1. CASE Next
  BY <1>1, BootKeeps, CrashKeeps, CallKeeps, Begins, CaptureKeeps DEF Next
<1>2. CASE UNCHANGED vars
  <2>1. UNCHANGED <<token, dir, server, broker, call, home, crashes>>
    BY <1>2 DEF vars
  <2>2. LockedCalls' = LockedCalls /\ Me.queue' = Me.queue
    BY <2>1 DEF LockedCalls, Active, Me
  <2>3. QueueInv'
    BY <2>1, <2>2 DEF IInv, QueueInv, QueueIsLocked, LockedQueue, OncePerCall, HeadRuns, OthersRest
  <2>4. TypeOK' /\ BrokersExist'
    BY <2>1 DEF IInv, TypeOK, BrokersExist
  <2> QED BY <2>3, <2>4 DEF IInv
<1> QED BY <1>1, <1>2

(* Types, registered brokers and the session's queue, in every state.      *)
THEOREM LifecycleInvariant == Spec => []IInv
BY InitKeeps, NextKeeps, PTL DEF Spec

(* The queue lists the locked calls once each, so it is as long as they    *)
(* are many.                                                               *)
LEMMA QueueCounts == IInv => QueueIsLive
<1> SUFFICES ASSUME IInv PROVE QueueIsLive
  OBVIOUS
<1> DEFINE q == Me.queue
<1>1. q \in Seq(Calls)
  BY DEF IInv, TypeOK, Process, Me
<1>2. DOMAIN q = 1..Len(q) /\ Len(q) \in Nat
  BY <1>1, LenProperties
<1>3. {q[i] : i \in DOMAIN q} = LockedCalls
  BY DEF IInv, QueueInv, QueueIsLocked, LockedQueue
<1>4. q \in [1..Len(q) -> LockedCalls]
  BY <1>1, <1>2, LenProperties DEF IInv, QueueInv, QueueIsLocked
<1>5. q \in Bijection(1..Len(q), LockedCalls)
  <2>1. \A i, k \in 1..Len(q) : q[i] = q[k] => i = k
    BY <1>2 DEF IInv, QueueInv, OncePerCall
  <2>2. \A c \in LockedCalls : \E i \in 1..Len(q) : q[i] = c
    BY <1>2 DEF IInv, QueueInv, LockedQueue
  <2> HIDE DEF q
  <2> QED BY <1>4, <2>1, <2>2 DEF Bijection, Injection, Surjection, IsInjective
<1>6. Cardinality(LockedCalls) = Len(q)
  <2>1. ExistsBijection(1..Len(q), LockedCalls)
    BY <1>5 DEF ExistsBijection
  <2>2. IsFiniteSet(1..Len(q)) /\ Cardinality(1..Len(q)) = Len(q)
    BY <1>2, FS_Interval
  <2> QED BY <2>1, <2>2, FS_Bijection
<1> QED BY <1>3, <1>6 DEF QueueIsLive, LockedCalls

(* For any calls, servers, brokers and crashes: the session lock is held   *)
(* and awaited by the running locked calls and by nobody else (serial and  *)
(* its finally in session-store-service.ts).                               *)
THEOREM LockNeverOrphaned == Spec => []QueueIsLive
BY LifecycleInvariant, QueueCounts, PTL

(* A server that is up has the token, and the token in the file is never   *)
(* replaced.                                                               *)
LEMMA OwnerStays ==
  ASSUME IInv, OneOwner, [Next]_vars PROVE OneOwner'
<1>1. server \in [Servers -> Process] /\ None \notin Servers /\ token \in Servers \cup {None}
  BY LifecycleConstants DEF IInv, TypeOK
<1>2. ASSUME NEW s \in Servers, BootRead(s) PROVE OneOwner'
  BY <1>1, <1>2 DEF BootRead, OneOwner, Process
<1>3. ASSUME NEW s \in Servers, BootLink(s) PROVE OneOwner'
  <2>1. CASE token = None
    <3>1. \A z \in Servers : server[z].pc # "up"
      BY <2>1 DEF OneOwner
    <3>2. /\ token' = s /\ server'[s].token = s
          /\ \A z \in Servers : z # s => server'[z] = server[z]
      BY <1>1, <1>3, <2>1 DEF BootLink, Process
    <3> QED BY <1>1, <3>1, <3>2 DEF OneOwner
  <2>2. CASE token # None
    BY <1>1, <1>3, <2>2 DEF BootLink, OneOwner, Process
  <2> QED BY <2>1, <2>2
<1>4. ASSUME NEW s \in Servers, Crash(s) PROVE OneOwner'
  BY <1>1, <1>4 DEF Crash, OneOwner, Booting
<1>5. CASE /\ token' = token
           /\ \A s \in Servers : /\ server'[s].pc = server[s].pc
                                 /\ server'[s].token = server[s].token
  BY <1>5 DEF OneOwner
<1>6. ASSUME NEW c \in Calls, CallStep(c) \/ \E kind \in CallKinds : Begin(c, kind)
      PROVE  OneOwner'
  <2>1. token' = token /\ home \in Servers
    BY <1>6 DEF IInv, TypeOK, CallStep, Begin, Enter, Create, WriteReady, Load, StartBroker,
      BrokerFault, WriteWrappers, UndoCreate, MarkInterrupted, LookForSummary,
      WriteInterruptedSummary, Inspect, StampEvent, CheckEvent, SaveEvents, CheckEvidence,
      WriteSealed, CloseBroker, RemoveHelpers, RemoveSession, RenderEvidence, RenderFault,
      Publish, Rename
  <2>2. \/ server' = server
        \/ \E b \in Int : server' = [server EXCEPT ![home].reg = b]
        \/ \E z \in {Tail(Me.queue), Append(Me.queue, c)} :
             server' = [server EXCEPT ![home].queue = z]
    <3>1. call[c].broker \in Int /\ 0 \in Int
      BY LifecycleConstants DEF IInv, TypeOK, Call
    <3> QED BY <1>6, <3>1 DEF CallStep, Begin, Enter, Create, WriteReady, Load, StartBroker,
      BrokerFault, WriteWrappers, UndoCreate, MarkInterrupted, LookForSummary,
      WriteInterruptedSummary, Inspect, StampEvent, CheckEvent, SaveEvents, CheckEvidence,
      WriteSealed, CloseBroker, RemoveHelpers, RemoveSession, RenderEvidence, RenderFault,
      Publish, Rename, End, Leave, Me
  <2> QED BY <1>1, <1>5, <2>1, <2>2 DEF Process
<1>7. ASSUME NEW b \in BrokerIds, Capture(b) PROVE OneOwner'
  BY <1>5, <1>7 DEF Capture, Claim, Frame, StopCapture, FailCapture, WriteSummary, Enters
<1>8. CASE UNCHANGED vars
  BY <1>5, <1>8 DEF vars
<1> QED BY <1>2, <1>3, <1>4, <1>6, <1>7, <1>8 DEF Next, Boot

(* For any number of servers that boot together on an empty root: every one *)
(* that is up has the owner token in the file (ownerToken in               *)
(* session-store-service.ts).                                              *)
THEOREM OwnersAgree == Spec => []OneOwner
<1>1. Init => OneOwner
  BY DEF Init, OneOwner, Booting
<1>2. IInv /\ OneOwner /\ [Next]_vars => OneOwner'
  BY OwnerStays
<1> QED BY <1>1, <1>2, LifecycleInvariant, PTL DEF Spec

-----------------------------------------------------------------------------
(***************************************************************************)
(* What a session promises its client, for a client that is not orderly    *)
(* too: its events are recorded once each, and it keeps SessionContract.   *)
(* Neither is inductive.  WhoActs says which calls take which steps, from  *)
(* which at most one call that is no inspection is past the lock           *)
(* (OneWrites); StillThere says that what such a call has read still holds *)
(* when it writes.                                                         *)
(***************************************************************************)

\* The calls past the lock, if any.
Runs(c) == call[c].pc \in Running

ActiveHasKind == \A c \in Calls : Active(c) => call[c].kind \in CallKinds
OneCreate == \A c, d \in Calls : call[c].kind = "create" /\ call[d].kind = "create" => c = d
KnownFirst == ~Known => \A c \in Calls : call[c].kind \in {"none", "create"}

\* Which kind of call takes which steps.
Fits(kind, pc) ==
  /\ pc \in {"append", "save"} => kind = "record"
  /\ pc \in {"seal", "render", "publish", "video", "manifest", "report"} => kind = "seal"
  /\ pc \in {"discard", "remove"} => kind = "discard"
  /\ pc = "close" => kind \in {"seal", "discard"}
  /\ pc \in {"create", "state", "undo"} => kind = "create"
  /\ kind = "create" =>
       pc \in {"create", "state", "start", "wrap", "undo", "done", "failed"}

WhoActs ==
  ActiveHasKind /\ OneCreate /\ KnownFirst /\ \A c \in Calls : Fits(call[c].kind, call[c].pc)

\* Before the session is created nothing is there, and without its metadata nothing is told.
Untouched == ~Attempted => dir = NoDir /\ broker = <<>>
NoMeta == dir.meta = "none" => dir.telemetry = <<>> /\ dir.artifacts = "none"
OpenUndelivered == dir.meta = "active" => dir.artifacts = "none"

\* What a call that is about to write has read still holds.
Knowing == {"save", "seal", "remove", "publish", "video", "manifest", "report"}
Knows(c) ==
  /\ call[c].pc = "save" => dir.meta = "active" /\ call[c].lines = Append(dir.telemetry, c)
  /\ call[c].pc = "seal" => dir.meta = "active"
  /\ call[c].pc = "remove" => ~dir.helpers
  /\ call[c].pc \in {"publish", "video", "manifest", "report"} => dir.meta = "sealed"
  /\ call[c].pc = "video" => dir.artifacts = "made"
  /\ call[c].pc = "manifest" => dir.artifacts = "video"
  /\ call[c].pc = "report" => dir.artifacts = "manifest"
StillThere == \A c \in Calls : Knows(c)

\* The telemetry holds the events answered as recorded, each once.
ToldOnce ==
  /\ \A i, j \in DOMAIN dir.telemetry : dir.telemetry[i] = dir.telemetry[j] => i = j
  /\ \A i \in DOMAIN dir.telemetry : call[dir.telemetry[i]].pc = "done"
  /\ \A c \in Calls : call[c].kind = "record" /\ call[c].pc = "done" /\ dir.meta # "none" =>
       \E i \in DOMAIN dir.telemetry : dir.telemetry[i] = c

Sound == NoMeta /\ OpenUndelivered /\ StillThere /\ ToldOnce

ContractInv == IInv /\ WhoActs /\ Untouched /\ Sound

-----------------------------------------------------------------------------
(* How calls move.                                                           *)

(* Where a call goes and what it leaves.                                   *)
LEMMA GotoMoves ==
  ASSUME IInv, NEW c \in Calls, NEW pc, Goto(c, pc)
  PROVE  /\ call'[c].pc = pc /\ call'[c].kind = call[c].kind
         /\ call'[c].broker = call[c].broker
         /\ \A d \in Calls : d # c => call'[d] = call[d]
BY DEF IInv, TypeOK, Call, Goto

(* A call that ends forgets its broker; the registry stays.                *)
LEMMA EndMoves ==
  ASSUME IInv, NEW c \in Calls, NEW how, End(c, how), home' = home
  PROVE  /\ call'[c].pc = how /\ call'[c].kind = call[c].kind
         /\ \A d \in Calls : d # c => call'[d] = call[d]
         /\ Reg' = Reg
<1>1. /\ call'[c].pc = how /\ call'[c].kind = call[c].kind
      /\ \A d \in Calls : d # c => call'[d] = call[d]
  BY DEF IInv, TypeOK, End, NoCall
<1>2. Reg' = Reg
  BY DEF IInv, TypeOK, Process, End, Leave, Reg, Me
<1> QED BY <1>1, <1>2

(* A call that has written its broker's wrappers goes on, or has created   *)
(* the session.                                                            *)
LEMMA WrapMoves ==
  ASSUME IInv, NEW c \in Calls, WriteWrappers(c)
  PROVE  \/ call[c].kind = "create" /\ call'[c].pc = "done"
         \/ call[c].kind # "create" /\ call'[c].pc = "ensured"
<1>1. CASE call[c].kind = "create"
  <2> DEFINE done == [NoCall EXCEPT !.kind = "create", !.pc = "done"]
  <2>1. call' = [call EXCEPT ![c] = done]
    BY <1>1 DEF WriteWrappers
  <2>2. done.pc = "done"
    BY DEF NoCall
  <2> HIDE DEF done
  <2> QED BY <1>1, <2>1, <2>2 DEF IInv, TypeOK
<1>2. CASE call[c].kind # "create"
  BY <1>2, GotoMoves DEF WriteWrappers
<1> QED BY <1>1, <1>2

(* A call's step is taken by a call under way, and changes no other call.  *)
LEMMA CallMoves ==
  ASSUME IInv, NEW c \in Calls, CallStep(c)
  PROVE  /\ Active(c) /\ call[c].pc # "idle"
         /\ call'[c].kind = call[c].kind
         /\ \A d \in Calls : d # c => call'[d] = call[d]
<1>1. call[c].pc \notin {"idle", "done", "failed"}
  BY DEF CallStep, Enter, Create, WriteReady, Load, StartBroker,
      BrokerFault, WriteWrappers, UndoCreate, MarkInterrupted, LookForSummary,
      WriteInterruptedSummary, Inspect, StampEvent, CheckEvent, SaveEvents, CheckEvidence,
      WriteSealed, CloseBroker, RemoveHelpers, RemoveSession, RenderEvidence, RenderFault,
      Publish, Rename, At
<1>2. call'[c].kind = call[c].kind /\ \A d \in Calls : d # c => call'[d] = call[d]
  <2>1. CASE \E pc : Goto(c, pc)
    BY <2>1, GotoMoves
  <2>2. CASE \E how : End(c, how)
    BY <2>2 DEF IInv, TypeOK, End, NoCall
  <2>3. CASE StartBroker(c) \/ StampEvent(c) \/ CheckEvent(c) \/ WriteWrappers(c)
    <3>1. call \in [Calls -> Call]
      BY DEF IInv, TypeOK
    <3> QED BY <2>2, <2>3, <3>1
        DEF StartBroker, StampEvent, CheckEvent, WriteWrappers, Call, Goto, NoCall
  <2> QED BY <2>1, <2>2, <2>3
      DEF CallStep, Enter, Create, WriteReady, Load, BrokerFault, UndoCreate, MarkInterrupted,
      LookForSummary, WriteInterruptedSummary, Inspect, SaveEvents, CheckEvidence,
      WriteSealed, CloseBroker, RemoveHelpers, RemoveSession, RenderEvidence, RenderFault,
      Publish, Rename
<1> QED BY <1>1, <1>2 DEF Active

(* At most one call that is no inspection is past the lock.                *)
LEMMA OneWrites ==
  ASSUME IInv, WhoActs, NEW c \in Calls, NEW d \in Calls, Runs(c), Runs(d),
         call[c].kind # "inspect", call[d].kind # "inspect"
  PROVE  c = d
<1>1. /\ Active(c) /\ Active(d) /\ call[c].pc # "lock" /\ call[d].pc # "lock"
      /\ call[c].pc # "done" /\ call[d].pc # "done"
  BY DEF Runs, Running, Active
<1>2. call[c].kind \in CallKinds /\ call[d].kind \in CallKinds
  BY <1>1 DEF WhoActs, ActiveHasKind
<1>3. CASE call[c].kind = "create" \/ call[d].kind = "create"
  <2>1. ~Known
    BY <1>1, <1>3 DEF WhoActs, OneCreate, Known
  <2>2. call[c].kind = "create" /\ call[d].kind = "create"
    BY <1>2, <2>1 DEF WhoActs, KnownFirst, CallKinds
  <2> QED BY <2>2 DEF WhoActs, OneCreate
<1>4. CASE call[c].kind \in Locked /\ call[d].kind \in Locked
  <2>1. c \in LockedCalls /\ d \in LockedCalls
    BY <1>1, <1>4 DEF LockedCalls
  <2> QED BY <1>1, <2>1 DEF IInv, QueueInv, HeadRuns
<1> QED BY <1>2, <1>3, <1>4 DEF CallKinds, Locked

(* So while it runs no other call is about to write.                       *)
LEMMA OthersDoNotWrite ==
  ASSUME IInv, WhoActs, NEW c \in Calls, Runs(c), call[c].kind # "inspect",
         NEW d \in Calls, d # c
  PROVE  call[d].pc \notin Knowing
<1>1. call[d].pc \in Knowing => Runs(d) /\ call[d].kind # "inspect"
  BY DEF Knowing, Runs, Running, Pcs, WhoActs, Fits
<1> QED BY <1>1, OneWrites

-----------------------------------------------------------------------------
(* Who acts.                                                                 *)

(* Each step of a call leads to one its kind takes.                        *)
LEMMA CallFits ==
  ASSUME IInv, WhoActs, NEW c \in Calls, CallStep(c)
  PROVE  Fits(call[c].kind, call'[c].pc)
<1>1. Fits(call[c].kind, call[c].pc)
  BY DEF WhoActs
<1>2. Active(c) => call[c].kind \in CallKinds
  BY DEF WhoActs, ActiveHasKind
<1>3. /\ \A pc : Goto(c, pc) => call'[c].pc = pc
      /\ home' = home => \A how : End(c, how) => call'[c].pc = how
  BY GotoMoves, EndMoves
<1>4. Fits(call[c].kind, "failed") /\ Fits(call[c].kind, "done")
  BY DEF Fits
<1>5. CASE Enter(c) \/ Load(c)
  <2>1. call[c].kind # "create" /\ home' = home
    BY <1>1, <1>5 DEF Enter, Load, At, Fits
  <2>2. \A pc \in {"load", "ensured", "start", "mark"} : Fits(call[c].kind, pc)
    BY <2>1 DEF Fits
  <2>3. call[c].kind = "discard" => Fits(call[c].kind, "close")
    BY DEF Fits
  <2>4. CASE Enter(c)
    BY <1>3, <2>2, <2>4 DEF Enter
  <2>5. CASE Load(c)
    <3>1. \/ call'[c].pc \in {"failed", "done", "ensured", "start", "mark"}
          \/ call'[c].pc = "close" /\ call[c].kind = "discard"
      BY <1>3, <2>1, <2>5 DEF Load
    <3> QED BY <1>4, <2>2, <2>3, <3>1
  <2> QED BY <1>5, <2>4, <2>5
<1>6. CASE Create(c) \/ WriteReady(c) \/ UndoCreate(c)
  <2>1. call'[c].pc \in {"state", "start", "failed"} /\ call[c].kind = "create"
    BY <1>1, <1>3, <1>6 DEF Create, WriteReady, UndoCreate, At, Fits
  <2> QED BY <2>1 DEF Fits
<1>7. CASE StartBroker(c)
  <2>1. call'[c].pc = "wrap"
    BY <1>7 DEF StartBroker, IInv, TypeOK, Call
  <2> QED BY <2>1 DEF Fits
<1>8. CASE BrokerFault(c)
  <2>1. \/ call'[c].pc = "failed"
        \/ call'[c].pc = "undo" /\ call[c].kind = "create"
    BY <1>3, <1>8 DEF BrokerFault
  <2> QED BY <2>1 DEF Fits
<1>9. CASE WriteWrappers(c)
  <2>1. \/ call'[c].pc = "done"
        \/ call'[c].pc = "ensured" /\ call[c].kind # "create"
    BY <1>9, WrapMoves
  <2> QED BY <2>1 DEF Fits
<1>10. CASE MarkInterrupted(c) \/ LookForSummary(c) \/ WriteInterruptedSummary(c)
  <2>1. call[c].kind # "create" /\ home' = home
    BY <1>1, <1>10 DEF MarkInterrupted, LookForSummary, WriteInterruptedSummary, At, Fits
  <2>2. call'[c].pc \in {"look", "explain", "failed"}
    BY <1>3, <1>10, <2>1 DEF MarkInterrupted, LookForSummary, WriteInterruptedSummary
  <2> QED BY <2>1, <2>2 DEF Fits
<1>11. CASE Inspect(c) \/ RenderFault(c)
  <2>1. call'[c].pc \in {"done", "failed"}
    BY <1>3, <1>11 DEF Inspect, RenderFault
  <2> QED BY <1>4, <2>1
<1>12. CASE StampEvent(c) \/ CheckEvent(c) \/ SaveEvents(c)
  <2>1. call'[c].pc \in {"done", "failed", "append", "save"}
    BY <1>3, <1>12 DEF StampEvent, CheckEvent, SaveEvents, IInv, TypeOK, Call
  <2>2. call[c].kind = "record"
    BY <1>1, <1>12 DEF StampEvent, CheckEvent, SaveEvents, At, Fits
  <2> QED BY <2>1, <2>2 DEF Fits
<1>13. CASE CheckEvidence(c) \/ WriteSealed(c) \/ RenderEvidence(c) \/ Publish(c)
  <2>1. call[c].kind = "seal"
    BY <1>1, <1>13 DEF CheckEvidence, WriteSealed, RenderEvidence, Publish, At, Fits
  <2>2. call'[c].pc \in {"failed", "seal", "close", "publish", "video"}
    BY <1>3, <1>13 DEF CheckEvidence, WriteSealed, RenderEvidence, Publish
  <2> QED BY <2>1, <2>2 DEF Fits
<1>14. CASE CloseBroker(c)
  <2>1. \/ call'[c].pc = "discard" /\ call[c].kind = "discard"
        \/ call'[c].pc = "render" /\ call[c].kind = "seal"
    BY <1>1, <1>3, <1>14 DEF CloseBroker, At, Fits
  <2> QED BY <2>1 DEF Fits
<1>15. CASE RemoveHelpers(c) \/ RemoveSession(c)
  <2>1. call[c].kind = "discard"
    BY <1>1, <1>15 DEF RemoveHelpers, RemoveSession, At, Fits
  <2>2. call'[c].pc \in {"failed", "remove", "done"}
    BY <1>3, <1>15 DEF RemoveHelpers, RemoveSession
  <2> QED BY <2>1, <2>2 DEF Fits
<1>16. CASE \E file \in {"video", "manifest", "report"} : Rename(c, file)
  <2>1. call[c].kind = "seal"
    BY <1>1, <1>16 DEF Rename, At, Fits
  <2>2. call'[c].pc \in {"failed", "done", "manifest", "report"}
    BY <1>3, <1>16 DEF Rename
  <2> QED BY <2>1, <2>2 DEF Fits
<1> QED BY <1>5, <1>6, <1>7, <1>8, <1>9, <1>10, <1>11, <1>12, <1>13, <1>14, <1>15, <1>16
    DEF CallStep

(* A step that begins no call and takes back no answer keeps who acts.     *)
LEMMA NobodyNew ==
  ASSUME WhoActs, Known => Known',
         \A c \in Calls : /\ call'[c].kind = call[c].kind
                          /\ Active(c)' => Active(c)
                          /\ Fits(call[c].kind, call'[c].pc)
  PROVE  WhoActs'
BY DEF WhoActs, ActiveHasKind, OneCreate, KnownFirst

(* A call begins in its turn.                                              *)
LEMMA BeginWho ==
  ASSUME IInv, WhoActs, NEW c \in Calls, NEW kind \in CallKinds, Begin(c, kind)
  PROVE  WhoActs'
<1>1. /\ call \in [Calls -> Call] /\ call[c].pc = "idle"
      /\ IF kind = "create" THEN \A d \in Calls : call[d].kind # "create" ELSE Known
  BY DEF IInv, TypeOK, Begin, At
<1>2. /\ call'[c].kind = kind
      /\ call'[c].pc = IF kind = "create" THEN "create"
                       ELSE IF kind \in Locked THEN "lock" ELSE "load"
      /\ \A d \in Calls : d # c => call'[d] = call[d]
  BY <1>1 DEF Begin, Call
<1>3. ActiveHasKind' /\ OneCreate'
  BY <1>1, <1>2 DEF WhoActs, ActiveHasKind, OneCreate, Known, Active
<1>4. KnownFirst'
  <2>1. Known => Known'
    BY <1>1, <1>2 DEF Known
  <2> QED BY <1>1, <1>2, <2>1 DEF WhoActs, KnownFirst
<1>5. Fits(kind, call'[c].pc)
  BY <1>2 DEF Fits
<1> QED BY <1>2, <1>3, <1>4, <1>5 DEF WhoActs

(* Every step keeps who acts.                                              *)
LEMMA NextWho == ASSUME IInv, WhoActs, [Next]_vars PROVE WhoActs'
<1>1. ASSUME NEW s \in Servers, Boot(s) PROVE WhoActs'
  <2>1. call' = call
    BY <1>1 DEF Boot, BootRead, BootLink
  <2> QED BY <2>1, NobodyNew DEF WhoActs, Active, Known
<1>2. ASSUME NEW s \in Servers, Crash(s) PROVE WhoActs'
  <2>1. CASE call' = call
    BY <2>1, NobodyNew DEF WhoActs, Active, Known
  <2>2. CASE call' # call
    <3>1. /\ call \in [Calls -> Call]
          /\ call' = [c \in Calls |-> IF call[c].pc \in {"idle", "done"} THEN call[c]
                                      ELSE [NoCall EXCEPT !.kind = call[c].kind, !.pc = "failed"]]
      BY <1>2, <2>2 DEF Crash, IInv, TypeOK
    <3>2. \A c \in Calls : /\ call'[c].kind = call[c].kind
                           /\ \/ call'[c].pc = call[c].pc /\ call[c].pc \in {"idle", "done"}
                              \/ call'[c].pc = "failed" /\ call[c].pc # "done"
      BY <3>1 DEF NoCall
    <3>3. \A c \in Calls : Fits(call[c].kind, call'[c].pc)
      BY <3>2 DEF WhoActs, Fits
    <3>4. Known => Known'
      BY <3>2 DEF Known
    <3> QED BY <3>2, <3>3, <3>4, NobodyNew DEF Active
  <2> QED BY <2>1, <2>2
<1>3. ASSUME NEW c \in Calls, CallStep(c) PROVE WhoActs'
  <2>1. /\ Active(c) /\ call'[c].kind = call[c].kind
        /\ \A d \in Calls : d # c => call'[d] = call[d]
    BY <1>3, CallMoves
  <2>2. Known => Known'
    BY <2>1 DEF Known, Active
  <2>3. \A d \in Calls : Fits(call[d].kind, call'[d].pc)
    BY <1>3, <2>1, CallFits DEF WhoActs
  <2> QED BY <2>1, <2>2, <2>3, NobodyNew DEF Active
<1>4. ASSUME NEW c \in Calls, NEW kind \in CallKinds, Begin(c, kind) PROVE WhoActs'
  BY <1>4, BeginWho
<1>5. ASSUME NEW b \in BrokerIds, Capture(b) PROVE WhoActs'
  <2>1. call' = call
    BY <1>5 DEF Capture, Claim, Frame, StopCapture, FailCapture, WriteSummary, Enters
  <2> QED BY <2>1, NobodyNew DEF WhoActs, Active, Known
<1>6. CASE UNCHANGED vars
  <2>1. call' = call
    BY <1>6 DEF vars
  <2> QED BY <2>1, NobodyNew DEF WhoActs, Active, Known
<1> QED BY <1>1, <1>2, <1>3, <1>4, <1>5, <1>6 DEF Next

-----------------------------------------------------------------------------
(* Nothing is there before the session is created.                           *)

(* No step of a call leads back to its beginning.                          *)
LEMMA NeverBack ==
  ASSUME IInv, NEW c \in Calls, CallStep(c) PROVE call'[c].pc # "create"
<1>1. CASE \E pc \in Pcs \ {"create"} : Goto(c, pc)
  BY <1>1, GotoMoves
<1>2. CASE \E how \in {"done", "failed"} : End(c, how)
  BY <1>2 DEF IInv, TypeOK, End, NoCall
<1>3. CASE StartBroker(c) \/ StampEvent(c) \/ CheckEvent(c)
  <2>1. call \in [Calls -> Call]
    BY DEF IInv, TypeOK
  <2>2. \/ call'[c].pc \in {"wrap", "append", "save"}
        \/ End(c, "failed")
    BY <1>3, <2>1 DEF StartBroker, StampEvent, CheckEvent, Call
  <2> QED BY <1>2, <2>2
<1>4. CASE WriteWrappers(c)
  BY <1>4, WrapMoves
<1> QED BY <1>1, <1>2, <1>3, <1>4
    DEF CallStep, Enter, Create, WriteReady, Load, BrokerFault, UndoCreate, MarkInterrupted,
    LookForSummary, WriteInterruptedSummary, Inspect, SaveEvents, CheckEvidence,
    WriteSealed, CloseBroker, RemoveHelpers, RemoveSession, RenderEvidence, RenderFault,
    Publish, Rename, Pcs

(* A call that takes a step comes after an attempt to create the session,  *)
(* or is one.                                                              *)
LEMMA CallAttempted ==
  ASSUME IInv, WhoActs, NEW c \in Calls, CallStep(c)
  PROVE  Attempted' /\ (~Attempted => Create(c))
<1>1. /\ Active(c) /\ call[c].kind \in CallKinds
      /\ call'[c].kind = call[c].kind /\ call'[c].pc # "create"
      /\ \A d \in Calls : d # c => call'[d] = call[d]
  BY CallMoves, NeverBack DEF WhoActs, ActiveHasKind
<1>2. CASE call[c].kind = "create"
  <2>1. Attempted'
    BY <1>1, <1>2 DEF Attempted
  <2>2. ~Attempted => call[c].pc = "create"
    BY <1>2 DEF Attempted
  <2>3. call[c].pc = "create" => Create(c)
    BY DEF CallStep, Enter, WriteReady, Load, StartBroker, BrokerFault, WriteWrappers,
      UndoCreate, MarkInterrupted, LookForSummary, WriteInterruptedSummary, Inspect,
      StampEvent, CheckEvent, SaveEvents, CheckEvidence, WriteSealed, CloseBroker,
      RemoveHelpers, RemoveSession, RenderEvidence, RenderFault, Publish, Rename, At
  <2> QED BY <2>1, <2>2, <2>3
<1>3. CASE call[c].kind # "create"
  <2>1. Known
    BY <1>1, <1>3 DEF WhoActs, KnownFirst, CallKinds
  <2>2. PICK d \in Calls : call[d].kind = "create" /\ call[d].pc = "done"
    BY <2>1 DEF Known
  <2> QED BY <1>1, <1>3, <2>2 DEF Attempted
<1> QED BY <1>2, <1>3

(* Once the session was attempted it stays so.                             *)
LEMMA AttemptsStay == ASSUME IInv, WhoActs, [Next]_vars PROVE Attempted => Attempted'
<1>1. ASSUME NEW s \in Servers, Boot(s) PROVE Attempted => Attempted'
  BY <1>1 DEF Boot, BootRead, BootLink, Attempted
<1>2. ASSUME NEW s \in Servers, Crash(s) PROVE Attempted => Attempted'
  BY <1>2 DEF Crash, Attempted, NoCall
<1>3. ASSUME NEW c \in Calls, CallStep(c) PROVE Attempted => Attempted'
  BY <1>3, CallAttempted
<1>4. ASSUME NEW c \in Calls, NEW kind \in CallKinds, Begin(c, kind)
      PROVE  Attempted => Attempted'
  <2>1. call[c].pc = "idle" /\ call[c].kind # "create"
    BY <1>4 DEF Begin, At, WhoActs, Fits
  <2>2. \A d \in Calls : d # c => call'[d] = call[d]
    BY <1>4 DEF Begin, IInv, TypeOK
  <2> QED BY <2>1, <2>2 DEF Attempted
<1>5. ASSUME NEW b \in BrokerIds, Capture(b) PROVE Attempted => Attempted'
  BY <1>5 DEF Capture, Claim, Frame, StopCapture, FailCapture, WriteSummary, Enters, Attempted
<1>6. CASE UNCHANGED vars
  BY <1>6 DEF vars, Attempted
<1> QED BY <1>1, <1>2, <1>3, <1>4, <1>5, <1>6 DEF Next

(* A crash starts no broker.                                               *)
LEMMA CrashStartsNone ==
  ASSUME IInv, NEW s \in Servers, Crash(s), broker = <<>> PROVE broker' = <<>>
<1>1. broker' \in Seq(Broker)
  BY CrashKeeps DEF IInv, TypeOK
<1>2. DOMAIN broker' = 1..Len(broker')
  BY <1>1, LenProperties
<1>3. broker' # <<>> => Len(broker') \in Nat \ {0}
  BY <1>1, EmptySeq
<1>4. DOMAIN broker' = DOMAIN broker
  BY DEF Crash
<1>5. DOMAIN broker = {}
  OBVIOUS
<1> QED BY <1>2, <1>3, <1>4, <1>5

(* Before the session is created the directory is not touched.             *)
LEMMA NextUntouched == ASSUME ContractInv, [Next]_vars PROVE Untouched'
<1>1. IInv /\ WhoActs /\ Untouched
  BY DEF ContractInv
<1>2. Attempted => Attempted'
  BY <1>1, AttemptsStay
<1>3. ASSUME NEW s \in Servers, Boot(s) \/ Crash(s), ~Attempted PROVE dir' = dir /\ broker' = <<>>
  BY <1>1, <1>3, CrashStartsNone DEF Boot, BootRead, BootLink, Crash, Untouched
<1>4. ASSUME NEW c \in Calls, CallStep(c) PROVE Attempted'
  BY <1>1, <1>4, CallAttempted
<1>5. ASSUME NEW c \in Calls, NEW kind \in CallKinds, Begin(c, kind)
      PROVE  UNCHANGED <<dir, broker>>
  BY <1>5 DEF Begin
<1>6. ASSUME NEW b \in BrokerIds, Capture(b) PROVE Attempted
  <2>1. b \in DOMAIN broker
    BY <1>6 DEF Capture, Claim, Frame, StopCapture, FailCapture, WriteSummary, Enters
  <2> QED BY <1>1, <2>1 DEF Untouched
<1>7. CASE UNCHANGED vars
  BY <1>1, <1>2, <1>7 DEF vars, Untouched
<1> QED BY <1>1, <1>2, <1>3, <1>4, <1>5, <1>6, <1>7 DEF Next, Untouched

-----------------------------------------------------------------------------
(* Steps that write nothing the session's client is promised.                *)

Content == <<dir.meta, dir.telemetry, dir.artifacts, dir.helpers>>

(* What the client is promised stays, if no call is about to write that    *)
(* was not, and no event is answered.                                      *)
LEMMA NothingWritten ==
  ASSUME Sound, dir \in Dir, Content' = Content,
         \A c \in Calls :
           \/ call'[c] = call[c]
           \/ /\ call'[c].pc \notin Knowing
              /\ call[c].pc # "done"
              /\ call'[c].pc = "done" => call'[c].kind # "record"
  PROVE  Sound'
<1>1. /\ dir'.meta = dir.meta /\ dir'.telemetry = dir.telemetry
      /\ dir'.artifacts = dir.artifacts /\ dir'.helpers = dir.helpers
  BY DEF Content
<1>2. NoMeta' /\ OpenUndelivered'
  BY <1>1 DEF Sound, NoMeta, OpenUndelivered
<1>3. StillThere'
  <2> SUFFICES ASSUME NEW c \in Calls PROVE Knows(c)'
    BY DEF StillThere
  <2>1. CASE call'[c] = call[c]
    BY <1>1, <2>1 DEF Sound, StillThere, Knows
  <2>2. CASE call'[c].pc \notin Knowing
    BY <2>2 DEF Knows, Knowing
  <2> QED BY <2>1, <2>2
<1>4. ToldOnce'
  <2>1. \A i \in DOMAIN dir.telemetry : dir.telemetry[i] \in Calls
    <3>1. dir.telemetry \in Seq(Calls)
      BY DEF Dir
    <3> QED BY <3>1
  <2>2. \A i \in DOMAIN dir.telemetry : call'[dir.telemetry[i]].pc = "done"
    BY <2>1 DEF Sound, ToldOnce
  <2>3. \A c \in Calls : call'[c].kind = "record" /\ call'[c].pc = "done" =>
          call[c].kind = "record" /\ call[c].pc = "done"
    OBVIOUS
  <2> QED BY <1>1, <2>2, <2>3 DEF Sound, ToldOnce
<1> QED BY <1>2, <1>3, <1>4 DEF Sound

(* The steps of a call that write nothing of it.                           *)
LEMMA QuietCalls ==
  ASSUME IInv, WhoActs, NEW c \in Calls,
         \/ Enter(c) \/ WriteReady(c) \/ Load(c) \/ StartBroker(c) \/ BrokerFault(c)
         \/ WriteWrappers(c) \/ MarkInterrupted(c) \/ LookForSummary(c)
         \/ WriteInterruptedSummary(c) \/ Inspect(c) \/ StampEvent(c) \/ CloseBroker(c)
         \/ RenderFault(c)
  PROVE  /\ Content' = Content /\ call'[c].pc \notin Knowing
         /\ call'[c].pc = "done" => call'[c].kind # "record"
<1>1. /\ \A pc : Goto(c, pc) => call'[c].pc = pc
      /\ home' = home => \A how : End(c, how) => call'[c].pc = how
  BY GotoMoves, EndMoves
<1>2. dir \in Dir /\ Fits(call[c].kind, call[c].pc) /\ call \in [Calls -> Call]
  BY DEF IInv, TypeOK, WhoActs
<1>3. call'[c].kind = call[c].kind
  BY CallMoves DEF CallStep
<1>4. {"load", "start", "wrap", "undo", "mark", "look", "explain", "ensured", "append", "close",
       "discard", "render", "done", "failed"} \cap Knowing = {}
  BY DEF Knowing
<1>5. CASE Enter(c) \/ WriteReady(c)
  <2>1. Content' = Content /\ call'[c].pc \in {"load", "start"}
    BY <1>1, <1>2, <1>5 DEF Enter, WriteReady, Content, Dir
  <2> QED BY <1>4, <2>1
<1>6. CASE Load(c)
  <2>1. Content' = Content
    BY <1>6 DEF Load, Content
  <2>2. \/ call'[c].pc \in {"failed", "close", "ensured", "start", "mark"}
        \/ call'[c].pc = "done" /\ call[c].kind = "inspect"
    BY <1>1, <1>6 DEF Load
  <2> QED BY <1>3, <1>4, <2>1, <2>2
<1>7. CASE StartBroker(c)
  <2>1. Content' = Content
    BY <1>2, <1>7 DEF StartBroker, Content, Dir
  <2>2. call'[c].pc = "wrap"
    BY <1>2, <1>7 DEF StartBroker, Call
  <2> QED BY <1>4, <2>1, <2>2
<1>8. CASE BrokerFault(c)
  <2>1. Content' = Content /\ call'[c].pc \in {"undo", "failed"}
    BY <1>1, <1>8 DEF BrokerFault, Content
  <2> QED BY <1>4, <2>1
<1>9. CASE WriteWrappers(c)
  <2>1. Content' = Content
    BY <1>2, <1>9 DEF WriteWrappers, Content, Dir
  <2>2. \/ call'[c].pc = "ensured"
        \/ call'[c].pc = "done" /\ call[c].kind = "create"
    BY <1>9, WrapMoves
  <2> QED BY <1>3, <1>4, <2>1, <2>2
<1>10. CASE MarkInterrupted(c) \/ LookForSummary(c) \/ WriteInterruptedSummary(c)
  <2>1. Content' = Content
    BY <1>2, <1>10 DEF MarkInterrupted, LookForSummary, WriteInterruptedSummary, Content, Dir
  <2>2. call'[c].pc \in {"failed", "look", "explain"}
    BY <1>1, <1>10 DEF MarkInterrupted, LookForSummary, WriteInterruptedSummary
  <2> QED BY <1>4, <2>1, <2>2
<1>11. CASE Inspect(c) \/ RenderFault(c)
  <2>1. Content' = Content
    BY <1>11 DEF Inspect, RenderFault, Content
  <2>2. \/ call'[c].pc = "failed"
        \/ call'[c].pc = "done" /\ call[c].kind = "inspect"
    BY <1>1, <1>11 DEF Inspect, RenderFault
  <2> QED BY <1>3, <1>4, <2>1, <2>2
<1>12. CASE StampEvent(c)
  <2>1. Content' = Content /\ call'[c].pc \in {"failed", "append"}
    BY <1>1, <1>2, <1>12 DEF StampEvent, Content, Call
  <2> QED BY <1>4, <2>1
<1>13. CASE CloseBroker(c)
  <2>1. Content' = Content
    BY <1>2, <1>13 DEF CloseBroker, Content, Dir
  <2>2. call'[c].pc \in {"discard", "render"}
    BY <1>1, <1>13 DEF CloseBroker
  <2> QED BY <1>4, <2>1, <2>2
<1> QED BY <1>5, <1>6, <1>7, <1>8, <1>9, <1>10, <1>11, <1>12, <1>13

-----------------------------------------------------------------------------
(* Steps that write what the client is promised.                             *)

(* A writing call is alone to know anything, and answers no event unless   *)
(* it saves one.                                                           *)
LEMMA WriterSound ==
  ASSUME IInv, WhoActs, NEW c \in Calls, CallStep(c), Runs(c), call[c].kind # "inspect",
         NoMeta', OpenUndelivered', Knows(c)', ToldOnce'
  PROVE  Sound'
<1>1. ASSUME NEW d \in Calls, d # c PROVE Knows(d)'
  <2>1. call'[d] = call[d] /\ call[d].pc \notin Knowing
    BY <1>1, CallMoves, OthersDoNotWrite
  <2> QED BY <2>1 DEF Knows, Knowing
<1> QED BY <1>1 DEF Sound, StillThere

(* The telemetry stays told once while no event is answered.               *)
LEMMA ToldStays ==
  ASSUME IInv, ToldOnce, NEW c \in Calls, CallStep(c),
         dir'.telemetry = dir.telemetry, dir.meta = "none" => dir'.meta = "none",
         call'[c].pc = "done" => call[c].kind # "record"
  PROVE  ToldOnce'
<1>1. /\ call[c].pc # "done" /\ call'[c].kind = call[c].kind
      /\ \A d \in Calls : d # c => call'[d] = call[d]
  BY CallMoves DEF Active
<1>2. \A i \in DOMAIN dir.telemetry : dir.telemetry[i] \in Calls
  <2>1. dir.telemetry \in Seq(Calls)
    BY DEF IInv, TypeOK, Dir
  <2> QED BY <2>1
<1>3. \A i \in DOMAIN dir.telemetry : call'[dir.telemetry[i]].pc = "done"
  BY <1>1, <1>2 DEF ToldOnce
<1> QED BY <1>1, <1>3 DEF ToldOnce

(* A call that fails without writing.                                      *)
LEMMA FailsSound ==
  ASSUME ContractInv, NEW c \in Calls, CallStep(c), End(c, "failed"), home' = home, dir' = dir
  PROVE  Sound'
<1>1. /\ call'[c].pc = "failed" /\ call[c].pc # "done"
      /\ \A d \in Calls : d # c => call'[d] = call[d]
  BY EndMoves, CallMoves DEF ContractInv, Active
<1>2. Content' = Content /\ dir \in Dir /\ "failed" \notin Knowing
  BY DEF Content, ContractInv, IInv, TypeOK, Knowing
<1> QED BY <1>1, <1>2, NothingWritten DEF ContractInv

(* The telemetry is empty before any event is answered, and after the      *)
(* session is gone.                                                        *)
LEMMA ClearedSound ==
  ASSUME IInv, WhoActs, NEW c \in Calls, Create(c) \/ UndoCreate(c) \/ RemoveSession(c)
  PROVE  Sound'
<1>1. /\ CallStep(c) /\ Runs(c) /\ call[c].kind # "inspect"
  BY DEF CallStep, Create, UndoCreate, RemoveSession, At, Runs, Running, Pcs, WhoActs, Fits
<1>2. /\ dir'.telemetry = <<>> /\ dir'.artifacts = "none"
      /\ dir'.meta = IF Create(c) THEN "active" ELSE "none"
  <2>1. CASE Create(c)
    BY <2>1 DEF Create, NoDir
  <2>2. CASE (UndoCreate(c) \/ RemoveSession(c)) /\ ~Create(c)
    BY <2>2 DEF UndoCreate, RemoveSession, NoDir
  <2> QED BY <2>1, <2>2
<1>3. call'[c].pc \notin Knowing
  <2>1. call'[c].pc \in {"state", "failed", "done"}
    BY GotoMoves, EndMoves DEF Create, UndoCreate, RemoveSession
  <2> QED BY <2>1 DEF Knowing
<1>4. NoMeta' /\ OpenUndelivered' /\ Knows(c)'
  BY <1>2, <1>3 DEF NoMeta, OpenUndelivered, Knows, Knowing
<1>5. ToldOnce'
  <2>1. ASSUME NEW d \in Calls, call'[d].kind = "record" PROVE ~Create(c)
    <3>1. SUFFICES ASSUME Create(c) PROVE FALSE
      OBVIOUS
    <3>2. call[c].kind = "create" /\ call[c].pc = "create"
      BY <3>1 DEF WhoActs, Fits, Create, At
    <3>3. ~Known
      BY <3>2 DEF WhoActs, OneCreate, Known
    <3>4. call[d].kind = "record"
      BY <1>1, <2>1, CallMoves
    <3> QED BY <3>3, <3>4 DEF WhoActs, KnownFirst
  <2> QED BY <1>2, <2>1 DEF ToldOnce
<1> QED BY <1>1, <1>4, <1>5, WriterSound

(* A call reads what it is about to write on.                              *)
LEMMA ReadSound ==
  ASSUME ContractInv, NEW c \in Calls,
         CheckEvent(c) \/ CheckEvidence(c) \/ RenderEvidence(c)
  PROVE  Sound'
<1>1. IInv /\ WhoActs /\ Sound
  BY DEF ContractInv
<1>2. /\ CallStep(c) /\ home' = home /\ dir' = dir /\ Runs(c) /\ call[c].kind # "inspect"
  BY <1>1 DEF CallStep, CheckEvent, CheckEvidence, RenderEvidence, At, Runs, Running, Pcs,
     WhoActs, Fits
<1>3. CASE End(c, "failed")
  BY <1>2, <1>3, FailsSound
<1>4. CASE ~End(c, "failed")
  <2>1. NoMeta' /\ OpenUndelivered'
    BY <1>1, <1>2 DEF Sound, NoMeta, OpenUndelivered
  <2>2. /\ call'[c].pc \in {"save", "seal", "publish"}
        /\ Knows(c)'
    <3>1. CASE CheckEvent(c)
      <4>1. /\ dir.meta = "active" /\ call[c].pc = "append"
            /\ call' = [call EXCEPT ![c].pc = "save", ![c].lines = Append(dir.telemetry, c)]
        BY <1>4, <3>1 DEF CheckEvent, At
      <4>2. call'[c].pc = "save" /\ call'[c].lines = Append(dir.telemetry, c)
        BY <1>1, <4>1 DEF IInv, TypeOK, Call
      <4> QED BY <1>2, <4>1, <4>2 DEF Knows
    <3>2. CASE CheckEvidence(c)
      <4>1. dir.meta = "active" /\ Goto(c, "seal")
        BY <1>4, <3>2 DEF CheckEvidence
      <4> QED BY <1>1, <1>2, <4>1, GotoMoves DEF Knows
    <3>3. CASE RenderEvidence(c)
      <4>1. dir.meta = "sealed" /\ Goto(c, "publish")
        BY <1>4, <3>3 DEF RenderEvidence
      <4> QED BY <1>1, <1>2, <4>1, GotoMoves DEF Knows
    <3> QED BY <3>1, <3>2, <3>3
  <2>3. ToldOnce'
    BY <1>1, <1>2, <2>2, ToldStays DEF Sound
  <2> QED BY <1>1, <1>2, <2>1, <2>2, <2>3, WriterSound
<1> QED BY <1>3, <1>4

(* A call writes the metadata, the artifacts, or removes the helpers.      *)
LEMMA WriteSound ==
  ASSUME ContractInv, NEW c \in Calls,
         \/ WriteSealed(c) \/ RemoveHelpers(c) \/ Publish(c)
         \/ \E file \in {"video", "manifest", "report"} : Rename(c, file)
  PROVE  Sound'
<1>1. IInv /\ WhoActs /\ Sound /\ dir \in Dir
  BY DEF ContractInv, IInv, TypeOK
<1>2. /\ CallStep(c) /\ home' = home /\ Runs(c)
      /\ call[c].kind # "inspect" /\ call[c].kind # "record" /\ Knows(c)
  BY <1>1 DEF CallStep, WriteSealed, RemoveHelpers, Publish, Rename, At, Runs, Running, Pcs,
     WhoActs, Fits, Sound, StillThere
<1>3. CASE End(c, "failed") /\ dir' = dir
  BY <1>2, <1>3, FailsSound
<1>4. CASE ~(End(c, "failed") /\ dir' = dir)
  <2>1. /\ dir'.telemetry = dir.telemetry /\ (dir.meta = "none" => dir'.meta = "none")
        /\ NoMeta' /\ OpenUndelivered' /\ Knows(c)'
    <3>1. CASE WriteSealed(c)
      <4>1. dir.meta = "active" /\ dir' = [dir EXCEPT !.meta = "sealed"] /\ Goto(c, "close")
        BY <1>2, <1>4, <3>1 DEF WriteSealed, At, Knows
      <4> QED BY <1>1, <4>1, GotoMoves DEF Dir, NoMeta, OpenUndelivered, Knows
    <3>2. CASE RemoveHelpers(c)
      <4>1. dir' = [dir EXCEPT !.helpers = FALSE] /\ Goto(c, "remove") /\ dir.meta # "none"
        BY <1>4, <3>2 DEF RemoveHelpers, Owned
      <4> QED BY <1>1, <4>1, GotoMoves DEF Dir, Sound, NoMeta, OpenUndelivered, Knows
    <3>3. CASE Publish(c)
      <4>1. /\ dir.meta = "sealed" /\ dir' = [dir EXCEPT !.artifacts = "made"]
            /\ Goto(c, "video")
        BY <1>2, <1>4, <3>3 DEF Publish, At, Knows
      <4> QED BY <1>1, <4>1, GotoMoves DEF Dir, NoMeta, OpenUndelivered, Knows
    <3>4. ASSUME NEW file \in {"video", "manifest", "report"}, Rename(c, file)
          PROVE  /\ dir'.telemetry = dir.telemetry /\ (dir.meta = "none" => dir'.meta = "none")
                 /\ NoMeta' /\ OpenUndelivered' /\ Knows(c)'
      <4>1. dir.meta = "sealed" /\ dir' = [dir EXCEPT !.artifacts = file]
        BY <1>2, <3>4 DEF Rename, At, Knows
      <4>2. /\ dir'.meta = "sealed" /\ dir'.artifacts = file /\ dir'.telemetry = dir.telemetry
        BY <1>1, <4>1 DEF Dir
      <4>3. \/ file = "video" /\ call'[c].pc = "manifest"
            \/ file = "manifest" /\ call'[c].pc = "report"
            \/ call'[c].pc \in {"done", "failed"}
        BY <1>1, <1>2, <3>4, GotoMoves, EndMoves DEF Rename
      <4> QED BY <4>1, <4>2, <4>3 DEF NoMeta, OpenUndelivered, Knows
    <3> QED BY <3>1, <3>2, <3>3, <3>4
  <2>2. ToldOnce'
    BY <1>1, <1>2, <2>1, ToldStays DEF Sound
  <2> QED BY <1>1, <1>2, <2>1, <2>2, WriterSound
<1> QED BY <1>3, <1>4

(* An event is saved after the lines that were there when it was checked.  *)
LEMMA SaveSound == ASSUME ContractInv, NEW c \in Calls, SaveEvents(c) PROVE Sound'
<1>1. IInv /\ WhoActs /\ Sound /\ dir \in Dir
  BY DEF ContractInv, IInv, TypeOK
<1>2. /\ CallStep(c) /\ home' = home /\ Runs(c) /\ call[c].pc = "save"
      /\ call[c].kind = "record" /\ Knows(c)
  BY <1>1 DEF CallStep, SaveEvents, At, Runs, Running, Pcs, WhoActs, Fits, Sound, StillThere
<1>3. CASE ~dir.root
  BY <1>2, <1>3, FailsSound DEF SaveEvents
<1>4. CASE dir.root
  <2> DEFINE told == dir.telemetry
  <2>1. /\ dir.meta = "active" /\ End(c, "done")
        /\ dir' = [dir EXCEPT !.telemetry = Append(told, c)]
    BY <1>2, <1>4 DEF SaveEvents, Knows
  <2>2. told \in Seq(Calls) /\ dir.artifacts = "none"
    BY <1>1, <2>1 DEF Dir, Sound, OpenUndelivered
  <2>3. /\ dir'.telemetry = Append(told, c) /\ dir'.meta = "active"
        /\ dir'.artifacts = "none"
    BY <1>1, <2>1, <2>2 DEF Dir
  <2>4. /\ DOMAIN told = 1..Len(told) /\ Len(told) \in Nat
        /\ DOMAIN Append(told, c) = 1..(Len(told) + 1)
        /\ \A i \in 1..Len(told) : Append(told, c)[i] = told[i]
        /\ Append(told, c)[Len(told) + 1] = c
    BY <2>2, AppendProperties, LenProperties
  <2>5. /\ call'[c].pc = "done" /\ call'[c].kind = "record"
        /\ \A d \in Calls : d # c => call'[d] = call[d]
    BY <1>1, <1>2, <2>1, EndMoves
  <2>6. \A i \in DOMAIN told : told[i] \in Calls /\ told[i] # c /\ call[told[i]].pc = "done"
    <3>1. \A i \in DOMAIN told : told[i] \in Calls
      BY <2>2
    <3> QED BY <1>1, <1>2, <3>1 DEF Sound, ToldOnce
  <2>7. \A i \in 1..(Len(told) + 1) : i \in 1..Len(told) \/ i = Len(told) + 1
    BY <2>4
  <2>8. ToldOnce'
    <3>1. ASSUME NEW i \in DOMAIN dir'.telemetry, NEW j \in DOMAIN dir'.telemetry,
                 dir'.telemetry[i] = dir'.telemetry[j]
          PROVE  i = j
      BY <1>1, <2>3, <2>4, <2>6, <2>7, <3>1 DEF Sound, ToldOnce
    <3>2. ASSUME NEW i \in DOMAIN dir'.telemetry PROVE call'[dir'.telemetry[i]].pc = "done"
      BY <2>3, <2>4, <2>5, <2>6, <2>7
    <3>3. ASSUME NEW d \in Calls, call'[d].kind = "record", call'[d].pc = "done"
          PROVE  \E i \in DOMAIN dir'.telemetry : dir'.telemetry[i] = d
      <4>1. CASE d = c
        <5>1. Len(told) + 1 \in 1..(Len(told) + 1)
          BY <2>4
        <5> QED BY <2>3, <2>4, <4>1, <5>1
      <4>2. CASE d # c
        <5>1. PICK i \in DOMAIN told : told[i] = d
          BY <1>1, <2>1, <2>5, <3>3, <4>2 DEF Sound, ToldOnce
        <5>2. i \in 1..(Len(told) + 1)
          BY <2>4, <5>1
        <5> QED BY <2>3, <2>4, <5>1, <5>2
      <4> QED BY <4>1, <4>2
    <3> QED BY <3>1, <3>2, <3>3 DEF ToldOnce
  <2>9. NoMeta' /\ OpenUndelivered' /\ Knows(c)'
    BY <2>3, <2>5 DEF NoMeta, OpenUndelivered, Knows
  <2> QED BY <1>1, <1>2, <2>8, <2>9, WriterSound
<1> QED BY <1>3, <1>4

-----------------------------------------------------------------------------
(* The invariant.                                                            *)

(* Every step keeps what the client is promised.                           *)
LEMMA NextSound == ASSUME ContractInv, [Next]_vars PROVE Sound'
<1>1. IInv /\ WhoActs /\ Sound /\ dir \in Dir
  BY DEF ContractInv, IInv, TypeOK
<1>2. ASSUME NEW s \in Servers, Boot(s) PROVE Sound'
  <2>1. dir' = dir /\ call' = call
    BY <1>2 DEF Boot, BootRead, BootLink
  <2> QED BY <1>1, <2>1, NothingWritten DEF Content
<1>3. ASSUME NEW s \in Servers, Crash(s) PROVE Sound'
  <2>1. dir' = dir /\ "failed" \notin Knowing
    BY <1>3 DEF Crash, Knowing
  <2>2. \A c \in Calls : \/ call'[c] = call[c]
                         \/ call'[c].pc = "failed" /\ call[c].pc # "done"
    BY <1>3 DEF Crash, NoCall
  <2> QED BY <1>1, <2>1, <2>2, NothingWritten DEF Content
<1>4. ASSUME NEW c \in Calls, CallStep(c) PROVE Sound'
  <2>1. CASE \/ Create(c) \/ UndoCreate(c) \/ RemoveSession(c) \/ CheckEvent(c)
             \/ CheckEvidence(c) \/ RenderEvidence(c) \/ WriteSealed(c) \/ RemoveHelpers(c)
             \/ Publish(c) \/ SaveEvents(c)
             \/ \E file \in {"video", "manifest", "report"} : Rename(c, file)
    BY <1>1, <2>1, ClearedSound, ReadSound, WriteSound, SaveSound
  <2>2. CASE \/ Enter(c) \/ WriteReady(c) \/ Load(c) \/ StartBroker(c) \/ BrokerFault(c)
             \/ WriteWrappers(c) \/ MarkInterrupted(c) \/ LookForSummary(c)
             \/ WriteInterruptedSummary(c) \/ Inspect(c) \/ StampEvent(c) \/ CloseBroker(c)
             \/ RenderFault(c)
    <3>1. /\ Content' = Content /\ call'[c].pc \notin Knowing
          /\ call'[c].pc = "done" => call'[c].kind # "record"
      BY <1>1, <2>2, QuietCalls
    <3>2. call[c].pc # "done" /\ \A d \in Calls : d # c => call'[d] = call[d]
      BY <1>1, <1>4, CallMoves DEF Active
    <3> QED BY <1>1, <3>1, <3>2, NothingWritten
  <2> QED BY <1>4, <2>1, <2>2 DEF CallStep
<1>5. ASSUME NEW c \in Calls, NEW kind \in CallKinds, Begin(c, kind) PROVE Sound'
  <2>1. /\ dir' = dir /\ call[c].pc = "idle"
        /\ call'[c].pc \in {"create", "lock", "load"}
        /\ \A d \in Calls : d # c => call'[d] = call[d]
    BY <1>1, <1>5 DEF Begin, At, IInv, TypeOK, Call
  <2>2. call'[c].pc \notin Knowing /\ call'[c].pc # "done"
    BY <2>1 DEF Knowing
  <2> QED BY <1>1, <2>1, <2>2, NothingWritten DEF Content
<1>6. ASSUME NEW b \in BrokerIds, Capture(b) PROVE Sound'
  <2>1. Content' = Content /\ call' = call
    BY <1>1, <1>6 DEF Capture, Claim, Frame, StopCapture, FailCapture, WriteSummary, Enters,
      SavePhase, Content, Dir
  <2> QED BY <1>1, <2>1, NothingWritten
<1>7. CASE UNCHANGED vars
  <2>1. dir' = dir /\ call' = call
    BY <1>7 DEF vars
  <2> QED BY <1>1, <2>1, NothingWritten DEF Content
<1> QED BY <1>2, <1>3, <1>4, <1>5, <1>6, <1>7 DEF Next

(* At first there is no session and no call.                               *)
LEMMA ContractInvInit == Init => ContractInv
<1> SUFFICES ASSUME Init PROVE ContractInv
  OBVIOUS
<1>1. /\ \A c \in Calls : call[c].pc = "idle" /\ call[c].kind = "none"
      /\ broker = <<>> /\ dir = NoDir
  BY DEF Init, NoCall
<1>2. dir.telemetry = <<>> /\ dir.artifacts = "none" /\ dir.meta = "none"
  BY <1>1 DEF NoDir
<1>3. WhoActs
  BY <1>1 DEF WhoActs, ActiveHasKind, OneCreate, KnownFirst, Fits, Active
<1>4. Sound
  BY <1>1, <1>2 DEF Sound, NoMeta, OpenUndelivered, StillThere, Knows, ToldOnce
<1> QED BY <1>1, <1>3, <1>4, InitKeeps DEF ContractInv, Untouched

(* Who acts, and what an acting call knows of the session, in every state. *)
THEOREM ContractInvariant == Spec => []ContractInv
<1>1. ContractInv /\ [Next]_vars => ContractInv'
  BY NextKeeps, NextWho, NextUntouched, NextSound DEF ContractInv
<1> QED BY <1>1, ContractInvInit, PTL DEF Spec

(* Every event answered as recorded is in the telemetry, once, as long as  *)
(* there is a session: whoever else records, whatever crashes, and even if *)
(* the client inspects at the same time (appendEvent and stampedEvent in   *)
(* src/session/index.ts).                                                  *)
THEOREM EventsRecordedOnce == Spec => []RecordedOnce
<1>1. ContractInv => RecordedOnce
  <2> SUFFICES ASSUME ContractInv, NEW c \in Calls, call[c].kind = "record",
                      call[c].pc = "done", dir.meta # "none"
               PROVE  Cardinality({i \in DOMAIN dir.telemetry : dir.telemetry[i] = c}) = 1
    BY DEF RecordedOnce
  <2>1. ToldOnce
    BY DEF ContractInv, Sound
  <2>2. PICK i \in DOMAIN dir.telemetry : dir.telemetry[i] = c
    BY <2>1 DEF ToldOnce
  <2>3. {k \in DOMAIN dir.telemetry : dir.telemetry[k] = c} = {i}
    BY <2>1, <2>2 DEF ToldOnce
  <2> QED BY <2>3, FS_Singleton
<1> QED BY <1>1, ContractInvariant, PTL

-----------------------------------------------------------------------------
(* The session implements its contract.                                      *)

(* What the client sees of the metadata.                                   *)
LEMMA StageIs ==
  ASSUME dir \in Dir
  PROVE  /\ dir.meta = "active" => Stage = "open"
         /\ dir.meta = "sealed" => Stage = "sealed"
         /\ dir.meta = "none" => Stage = IF Attempted THEN "gone" ELSE "absent"
         /\ dir.meta \in {"none", "active", "sealed"}
BY DEF Stage, Dir

LEMMA NextStageIs ==
  ASSUME dir' \in Dir
  PROVE  /\ dir'.meta = "active" => Stage' = "open"
         /\ dir'.meta = "sealed" => Stage' = "sealed"
         /\ dir'.meta = "none" => Stage' = IF Attempted' THEN "gone" ELSE "absent"
BY DEF Stage, Dir

(* A step that writes nothing is none of the contract, or it is a crash of *)
(* the call that would have created the session: then there is none.       *)
LEMMA QuietImplements ==
  ASSUME ContractInv, ContractInv', dir'.meta = dir.meta, dir'.telemetry = dir.telemetry,
         (dir'.artifacts = "report") = (dir.artifacts = "report"), Attempted => Attempted'
  PROVE  [Contract!Next]_(Contract!vars)
<1>1. dir \in Dir /\ dir' \in Dir
  BY DEF ContractInv, IInv, TypeOK
<1>2. CASE dir.meta = "none" /\ Attempted' # Attempted
  <2>1. Stage' = "gone"
    BY <1>1, <1>2, NextStageIs DEF Attempted
  <2>2. dir'.telemetry = <<>> /\ dir'.artifacts # "report"
    BY <1>2 DEF ContractInv, Sound, NoMeta
  <2> QED BY <2>1, <2>2 DEF Contract!Next, Contract!Discard
<1>3. CASE ~(dir.meta = "none" /\ Attempted' # Attempted)
  <2>1. Stage' = Stage
    BY <1>1, <1>3, StageIs, NextStageIs
  <2> QED BY <2>1 DEF Contract!vars
<1> QED BY <1>2, <1>3

(* The steps of a call that writes.                                        *)
LEMMA WritesImplement ==
  ASSUME ContractInv, ContractInv', NEW c \in Calls,
         \/ Create(c) \/ UndoCreate(c) \/ RemoveSession(c) \/ SaveEvents(c) \/ WriteSealed(c)
         \/ RemoveHelpers(c) \/ Publish(c)
         \/ \E file \in {"video", "manifest", "report"} : Rename(c, file)
  PROVE  [Contract!Next]_(Contract!vars)
<1>1. /\ IInv /\ WhoActs /\ Untouched /\ Sound /\ dir \in Dir /\ dir' \in Dir /\ CallStep(c)
      /\ Knows(c)
  BY DEF ContractInv, IInv, TypeOK, CallStep, Sound, StillThere
<1>2. Attempted'
  BY <1>1, CallAttempted
<1>3. CASE dir' = dir
  BY <1>2, <1>3, QuietImplements
<1>4. CASE Create(c)
  <2>1. call[c].pc = "create" /\ call[c].kind = "create"
    BY <1>1, <1>4 DEF Create, At, WhoActs, Fits
  <2>2. ~Attempted
    BY <1>1, <2>1 DEF WhoActs, OneCreate, Attempted
  <2>3. dir = NoDir /\ Stage = "absent"
    BY <1>1, <2>2, StageIs DEF Untouched, NoDir
  <2>4. /\ dir'.meta = "active" /\ dir'.telemetry = dir.telemetry
        /\ dir'.artifacts = "none" /\ dir.artifacts = "none"
    BY <1>4, <2>3 DEF Create, NoDir
  <2>5. Stage' = "open"
    BY <1>1, <2>4, NextStageIs
  <2> QED BY <2>3, <2>4, <2>5 DEF Contract!Next, Contract!Open
<1>5. CASE UndoCreate(c) \/ RemoveSession(c)
  <2>1. dir'.meta = "none" /\ dir'.telemetry = <<>> /\ dir'.artifacts = "none"
    BY <1>5 DEF UndoCreate, RemoveSession, NoDir
  <2>2. Stage' = "gone"
    BY <1>1, <1>2, <2>1, NextStageIs
  <2> QED BY <2>1, <2>2 DEF Contract!Next, Contract!Discard
<1>6. CASE SaveEvents(c) /\ dir' # dir
  <2> DEFINE told == dir.telemetry
  <2>1. /\ dir.meta = "active" /\ call[c].lines = Append(told, c)
        /\ dir' = [dir EXCEPT !.telemetry = call[c].lines]
    BY <1>1, <1>6 DEF SaveEvents, At, Knows
  <2>2. told \in Seq(Calls)
    BY <1>1 DEF Dir
  <2>3. /\ dir'.telemetry = Append(told, c) /\ dir'.meta = "active"
        /\ dir'.artifacts = dir.artifacts
    BY <1>1, <2>1 DEF Dir
  <2>4. /\ Len(Append(told, c)) = Len(told) + 1
        /\ told = SubSeq(Append(told, c), 1, Len(told))
    <3>1. /\ Append(told, c) \in Seq(Calls) /\ Len(Append(told, c)) = Len(told) + 1
          /\ Len(told) \in Nat /\ DOMAIN told = 1..Len(told)
          /\ \A i \in 1..Len(told) : Append(told, c)[i] = told[i]
      BY <2>2, AppendProperties, LenProperties
    <3> DEFINE front == SubSeq(Append(told, c), 1, Len(told))
    <3>2. \A i \in 1..Len(told) : Append(told, c)[i] \in Calls
      BY <2>2, <3>1
    <3>3. /\ front \in Seq(Calls) /\ Len(front) = Len(told)
          /\ \A i \in 1..Len(told) : front[i] = told[i]
      BY <3>1, <3>2, SubSeqProperties
    <3>4. told = front
      BY <2>2, <3>1, <3>3, SeqEqual
    <3> QED BY <3>1, <3>4
  <2>5. Stage = "open" /\ Stage' = "open"
    BY <1>1, <2>1, <2>3, StageIs, NextStageIs
  <2> QED BY <2>3, <2>4, <2>5 DEF Contract!Next, Contract!Record
<1>7. CASE WriteSealed(c) /\ dir' # dir
  <2>1. dir.meta = "active" /\ dir' = [dir EXCEPT !.meta = "sealed"]
    BY <1>1, <1>7 DEF WriteSealed, At, Knows
  <2>2. /\ dir'.meta = "sealed" /\ dir'.telemetry = dir.telemetry
        /\ dir'.artifacts = dir.artifacts
    BY <1>1, <2>1 DEF Dir
  <2>3. Stage = "open" /\ Stage' = "sealed"
    BY <1>1, <2>1, <2>2, StageIs, NextStageIs
  <2> QED BY <2>2, <2>3 DEF Contract!Next, Contract!Seal
<1>8. CASE RemoveHelpers(c) /\ dir' # dir
  <2>1. /\ dir'.meta = dir.meta /\ dir'.telemetry = dir.telemetry
        /\ dir'.artifacts = dir.artifacts
    BY <1>1, <1>8 DEF RemoveHelpers, Dir
  <2> QED BY <1>2, <2>1, QuietImplements
<1>9. CASE Publish(c) /\ dir' # dir
  <2>1. dir.artifacts = "none" /\ dir' = [dir EXCEPT !.artifacts = "made"]
    BY <1>9 DEF Publish
  <2>2. /\ dir'.meta = dir.meta /\ dir'.telemetry = dir.telemetry
        /\ dir'.artifacts = "made"
    BY <1>1, <2>1 DEF Dir
  <2> QED BY <1>2, <2>1, <2>2, QuietImplements
<1>10. ASSUME NEW file \in {"video", "manifest", "report"}, Rename(c, file)
       PROVE  [Contract!Next]_(Contract!vars)
  <2>1. /\ dir' = [dir EXCEPT !.artifacts = file] /\ dir.meta = "sealed"
        /\ dir.artifacts # "report"
    BY <1>1, <1>10 DEF Rename, At, Knows
  <2>2. /\ dir'.meta = dir.meta /\ dir'.telemetry = dir.telemetry
        /\ dir'.artifacts = file
    BY <1>1, <2>1 DEF Dir
  <2>3. CASE file # "report"
    BY <1>2, <2>1, <2>2, <2>3, QuietImplements
  <2>4. CASE file = "report"
    <3>1. Stage = "sealed" /\ Stage' = "sealed"
      BY <1>1, <2>1, <2>2, StageIs, NextStageIs
    <3> QED BY <2>1, <2>2, <2>4, <3>1 DEF Contract!Next, Contract!Deliver
  <2> QED BY <2>3, <2>4
<1> QED BY <1>3, <1>4, <1>5, <1>6, <1>7, <1>8, <1>9, <1>10

(* Every step of the session is one of the contract, or none.              *)
LEMMA NextImplements ==
  ASSUME ContractInv, ContractInv', [Next]_vars PROVE [Contract!Next]_(Contract!vars)
<1>1. IInv /\ WhoActs /\ dir \in Dir
  BY DEF ContractInv, IInv, TypeOK
<1>2. Attempted => Attempted'
  BY <1>1, AttemptsStay
<1>3. CASE Content' = Content
  <2>1. dir'.meta = dir.meta /\ dir'.telemetry = dir.telemetry /\ dir'.artifacts = dir.artifacts
    BY <1>3 DEF Content
  <2> QED BY <1>2, <2>1, QuietImplements
<1>4. ASSUME NEW s \in Servers, Boot(s) \/ Crash(s) PROVE Content' = Content
  BY <1>4 DEF Boot, BootRead, BootLink, Crash, Content
<1>5. ASSUME NEW c \in Calls, NEW kind \in CallKinds, Begin(c, kind) PROVE Content' = Content
  BY <1>5 DEF Begin, Content
<1>6. ASSUME NEW b \in BrokerIds, Capture(b) PROVE Content' = Content
  BY <1>1, <1>6 DEF Capture, Claim, Frame, StopCapture, FailCapture, WriteSummary, Enters,
    SavePhase, Content, Dir
<1>7. ASSUME NEW c \in Calls, CallStep(c) PROVE [Contract!Next]_(Contract!vars)
  <2>1. CASE \/ Create(c) \/ UndoCreate(c) \/ RemoveSession(c) \/ SaveEvents(c)
             \/ WriteSealed(c) \/ RemoveHelpers(c) \/ Publish(c)
             \/ \E file \in {"video", "manifest", "report"} : Rename(c, file)
    BY <2>1, WritesImplement
  <2>2. CASE \/ Enter(c) \/ WriteReady(c) \/ Load(c) \/ StartBroker(c) \/ BrokerFault(c)
             \/ WriteWrappers(c) \/ MarkInterrupted(c) \/ LookForSummary(c)
             \/ WriteInterruptedSummary(c) \/ Inspect(c) \/ StampEvent(c) \/ CloseBroker(c)
             \/ RenderFault(c)
    BY <1>1, <1>3, <2>2, QuietCalls
  <2>3. CASE CheckEvent(c) \/ CheckEvidence(c) \/ RenderEvidence(c)
    BY <1>3, <2>3 DEF CheckEvent, CheckEvidence, RenderEvidence, Content
  <2> QED BY <1>7, <2>1, <2>2, <2>3 DEF CallStep
<1>8. CASE UNCHANGED vars
  BY <1>3, <1>8 DEF vars, Content
<1> QED BY <1>3, <1>4, <1>5, <1>6, <1>7, <1>8 DEF Next

(* The session store keeps its contract, whatever crashes and whoever      *)
(* calls: a session opens once, its telemetry only grows, one event at a   *)
(* time and only while it is open, it is delivered once and only sealed,   *)
(* and what is discarded stays gone (src/session/index.ts).                *)
THEOREM SessionImplementsContract == Spec => KeepsContract
<1>1. Init => Contract!Init
  <2> SUFFICES ASSUME Init PROVE Contract!Init
    OBVIOUS
  <2>1. /\ dir = NoDir /\ \A c \in Calls : call[c].kind = "none"
    BY DEF Init, NoCall
  <2>2. ~Attempted
    BY <2>1 DEF Attempted
  <2>3. Stage = "absent"
    BY <2>1, <2>2 DEF Stage, NoDir
  <2> QED BY <2>1, <2>3 DEF Contract!Init, NoDir
<1>2. ContractInv /\ ContractInv' /\ [Next]_vars => [Contract!Next]_(Contract!vars)
  BY NextImplements
<1> QED BY <1>1, <1>2, ContractInvariant, PTL DEF Spec, KeepsContract, Contract!Spec

==============================================================================
