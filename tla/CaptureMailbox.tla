---------------------------- MODULE CaptureMailbox ----------------------------
(***************************************************************************)
(* The file mailbox between a sandboxed browser runner and the loopback    *)
(* broker: src/mcp/capture-mailbox.ts, and postJson of                     *)
(* src/mcp/browser-iab-helper.ts, its client.  The client renames a        *)
(* request file into the root and polls for the response file; the mailbox *)
(* polls for requests, posts each to the broker and renames the response   *)
(* into the root.  Either side may give up while the other is at work.     *)
(*                                                                         *)
(* Ids are random and never repeat; files are named by their request.      *)
(* Removing a file does not fail.                                          *)
(***************************************************************************)
EXTENDS Integers, Sequences, SequencesExt

CONSTANTS
  Requests,    \* calls of postJson
  MaxPolls     \* bound: ticks of the mailbox timer that find the mailbox open

VARIABLES
  client,     \* each call: where it stands and what it got
  box,        \* the files of the mailbox root, and whether it is there
  polls,      \* the consume() calls queued by the timer, in order
  handled     \* what the broker did with each request

mailVars == <<client, box, polls, handled>>

Replies == {"ok", "refused", "gone"}
NewPoll == [pc |-> "queued", names |-> <<>>, reply |-> "none"]

MailTypeOK ==
  /\ client \in [Requests -> {"idle", "waiting", "ok", "refused", "timeout", "failed"}]
  /\ box.requests \subseteq Requests /\ box.temporary \subseteq Requests
  /\ box.responses \in [Requests -> {"none"} \cup Replies]
  /\ polls \in Seq([pc: {"queued", "look", "read", "post", "answer", "rename", "done"},
                    names: Seq(Requests), reply: {"none"} \cup Replies])
  /\ handled \in [Requests -> Seq({"started", "ok", "refused"})]

MailInit ==
  /\ client = [r \in Requests |-> "idle"]
  /\ box = [open |-> TRUE, there |-> TRUE, requests |-> {}, temporary |-> {},
            responses |-> [r \in Requests |-> "none"]]
  /\ polls = <<>>
  /\ handled = [r \in Requests |-> <<>>]

-----------------------------------------------------------------------------
(* The client. *)

Becomes(r, pc) == client' = [client EXCEPT ![r] = pc]

Write(r) ==
  /\ client[r] = "idle"
  /\ IF box.there
     THEN /\ Becomes(r, "waiting")
          /\ box' = [box EXCEPT !.requests = @ \cup {r}]
     ELSE Becomes(r, "failed") /\ UNCHANGED box
  /\ UNCHANGED <<polls, handled>>

\* The files of a call that is over; finally removes whichever of them is left.
Cleared(r) == [box EXCEPT !.requests = @ \ {r}, !.responses[r] = "none"]

\* A response file is there: its status decides. One that says the broker did not
\* answer (400) is a refusal like the broker's own.
Read(r) ==
  /\ client[r] = "waiting" /\ box.responses[r] # "none"
  /\ Becomes(r, IF box.responses[r] = "ok" THEN "ok" ELSE "refused")
  /\ box' = Cleared(r)
  /\ UNCHANGED <<polls, handled>>

\* Ten seconds without a response.
GiveUp(r) ==
  /\ client[r] = "waiting"
  /\ Becomes(r, "timeout")
  /\ box' = Cleared(r)
  /\ UNCHANGED <<polls, handled>>

-----------------------------------------------------------------------------
(* The mailbox. Every tick appends a consume() to the chain of promises; one *)
(* runs when those before it are done.                                       *)

Tick ==
  /\ box.open /\ Len(polls) < MaxPolls
  /\ polls' = Append(polls, NewPoll)
  /\ UNCHANGED <<client, box, handled>>

\* Mutant: consume() runs at every tick.
Runs_AtOnce(p) == p \in DOMAIN polls

Runs(p) == p \in DOMAIN polls /\ \A q \in 1..(p - 1) : polls[q].pc = "done"

Poll(p, pc) == Runs(p) /\ polls[p].pc = pc
Current(p) == Head(polls[p].names)
Moves(p, pc) == polls' = [polls EXCEPT ![p].pc = pc]

\* On to the next name of the listing; an exception ends the consume().
NextName(p) ==
  polls' = [polls EXCEPT ![p] = [pc |-> IF Len(@.names) = 1 THEN "done" ELSE "look",
                                 names |-> Tail(@.names), reply |-> "none"]]
Throws(p) == polls' = [polls EXCEPT ![p] = [NewPoll EXCEPT !.pc = "done"]]

\* readdir; names are random, so any order of the requests is their sorted order.
List(p) ==
  /\ Poll(p, "queued")
  /\ \E names \in SetToAllKPermutations(box.requests) :
       /\ Len(names) = Cardinality(box.requests)
       /\ polls' = [polls EXCEPT ![p] = [NewPoll EXCEPT !.pc = IF names = <<>> THEN "done" ELSE "look",
                                                        !.names = names]]
  /\ UNCHANGED <<client, box, handled>>

\* lstat throws when the client has removed its request meanwhile.
Look(p) ==
  /\ Poll(p, "look")
  /\ IF Current(p) \in box.requests THEN Moves(p, "read") ELSE Throws(p)
  /\ UNCHANGED <<client, box, handled>>

\* A request that is gone by now is answered 400 without the broker.
ReadRequest(p) ==
  /\ Poll(p, "read")
  /\ IF Current(p) \in box.requests
     THEN /\ Moves(p, "post")
          /\ handled' = [handled EXCEPT ![Current(p)] = Append(@, "started")]
     ELSE /\ polls' = [polls EXCEPT ![p].pc = "answer", ![p].reply = "gone"]
          /\ UNCHANGED handled
  /\ UNCHANGED <<client, box>>

\* The broker answers in its own time, also when nobody waits for it any more.
BrokerHandles(r) ==
  /\ \E i \in DOMAIN handled[r] :
       /\ handled[r][i] = "started"
       /\ \E reply \in {"ok", "refused"} : handled' = [handled EXCEPT ![r][i] = reply]
  /\ UNCHANGED <<client, box, polls>>

\* post resolves with the broker's answer, or rejects after five seconds of silence or
\* on a broken connection.
Posted(p) ==
  /\ Poll(p, "post")
  /\ \E reply \in {"ok", "refused", "gone"} :
       /\ reply # "gone" => Last(handled[Current(p)]) = reply
       /\ polls' = [polls EXCEPT ![p].pc = "answer", ![p].reply = reply]
  /\ UNCHANGED <<client, box, handled>>

\* unlink the request; then write the response to a temporary file that must be new.
Answer(p) ==
  /\ Poll(p, "answer")
  /\ IF box.there /\ Current(p) \notin box.temporary
     THEN /\ Moves(p, "rename")
          /\ box' = [box EXCEPT !.requests = @ \ {Current(p)}, !.temporary = @ \cup {Current(p)}]
     ELSE /\ Throws(p)
          /\ box' = [box EXCEPT !.requests = @ \ {Current(p)}]
  /\ UNCHANGED <<client, handled>>

\* The write fails: the broker's answer is lost.
AnswerFails(p) ==
  /\ Poll(p, "answer")
  /\ Throws(p)
  /\ box' = [box EXCEPT !.requests = @ \ {Current(p)}]
  /\ UNCHANGED <<client, handled>>

\* Nobody removes a response whose client has given up before the mailbox closes.
RenameResponse(p) ==
  /\ Poll(p, "rename")
  /\ NextName(p)
  /\ box' = [box EXCEPT !.temporary = @ \ {Current(p)},
                        !.responses[Current(p)] = polls[p].reply]
  /\ UNCHANGED <<client, handled>>

StopTimer ==
  /\ box.open
  /\ box' = [box EXCEPT !.open = FALSE]
  /\ UNCHANGED <<client, polls, handled>>

\* close waits for the chain of consumes, then removes the root.
RemoveRoot ==
  /\ ~box.open /\ box.there /\ \A p \in DOMAIN polls : polls[p].pc = "done"
  /\ box' = [open |-> FALSE, there |-> FALSE, requests |-> {}, temporary |-> {},
             responses |-> [r \in Requests |-> "none"]]
  /\ UNCHANGED <<client, polls, handled>>

MailNext ==
  \/ \E r \in Requests : Write(r) \/ Read(r) \/ GiveUp(r) \/ BrokerHandles(r)
  \/ Tick \/ StopTimer \/ RemoveRoot
  \/ \E p \in 1..MaxPolls :
       List(p) \/ Look(p) \/ ReadRequest(p) \/ Posted(p) \/ Answer(p) \/ AnswerFails(p) \/ RenameResponse(p)

MailSpec == MailInit /\ [][MailNext]_mailVars

-----------------------------------------------------------------------------
(* Properties. *)

\* Through both timeouts and over any number of polls the broker sees a request once at
\* most; a call that ends well is one the broker did; and a call the broker refused or
\* never saw never ends well.
AnswerIsTrue ==
  \A r \in Requests :
    /\ Len(handled[r]) <= 1
    /\ client[r] = "ok" => handled[r] = <<"ok">>
==============================================================================
