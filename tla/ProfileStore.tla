----------------------------- MODULE ProfileStore -----------------------------
(***************************************************************************)
(* Owner-local recording profiles: class RecordingProfileStore of          *)
(* src/mcp/recording-profile-store.ts, used by any number of servers.      *)
(* A profile is one file, replaced by a rename under the lock of its       *)
(* profile if it still has the version the caller saw; creations also take *)
(* one lock of the whole store, for there may be MaxProfiles at most.      *)
(*                                                                         *)
(* A lock is a file written only if it is new, tried for a while and       *)
(* removed by its holder.  Nobody breaks the lock of a call that died.     *)
(* A snapshot is the call that wrote it.                                   *)
(***************************************************************************)
EXTENDS Integers, FiniteSets

CONSTANTS
  Creates,      \* calls of create
  Updates,      \* calls of update
  Ids,          \* profile ids
  MaxProfiles,  \* MAX_PROFILES
  NoOne         \* nobody: a lock file that is not there, a snapshot of no call

VARIABLES
  shelf,    \* the profile of an id: revision (0: there is none) and snapshot
  latch,    \* the lock files, of the ids and of creation: the call that wrote it
  errand    \* the calls

profileVars == <<shelf, latch, errand>>

Creation == "create"
Errands == Creates \cup Updates

ASSUME ProfileConstants == MaxProfiles \in Nat /\ NoOne \notin Errands

NewErrand == [pc |-> "idle", id |-> NoOne, seen |-> [revision |-> 0, snapshot |-> NoOne],
              wrote |-> FALSE]

ProfileInit ==
  /\ shelf = [i \in Ids |-> [revision |-> 0, snapshot |-> NoOne]]
  /\ latch = [l \in Ids \cup {Creation} |-> NoOne]
  /\ errand = [c \in Errands |-> NewErrand]

Versions == [revision: 0..(Cardinality(Updates) + 1), snapshot: Errands \cup {NoOne}]

ProfileTypeOK ==
  /\ shelf \in [Ids -> Versions]
  /\ latch \in [Ids \cup {Creation} -> Errands \cup {NoOne}]
  /\ errand \in [Errands -> [pc: {"idle", "lockStore", "lock", "work", "write", "unlock",
                                "unlockStore", "over", "crashed"},
                           id: Ids \cup {NoOne}, seen: Versions, wrote: BOOLEAN]]

OnShelf == {i \in Ids : shelf[i].revision > 0}

-----------------------------------------------------------------------------

ErrandAt(c, pc) == errand[c].pc = pc
ErrandGoes(c, pc) == errand' = [errand EXCEPT ![c].pc = pc]

\* A caller updates the version it has loaded.
CallStore(c) ==
  /\ ErrandAt(c, "idle")
  /\ \E i \in Ids :
       /\ c \in Updates => i \in OnShelf
       /\ errand' = [errand EXCEPT ![c] = [pc |-> IF c \in Creates THEN "lockStore" ELSE "lock",
                                           id |-> i, seen |-> shelf[i], wrote |-> FALSE]]
  /\ UNCHANGED <<shelf, latch>>

\* Mutant: the lock file is written over.
IsFree_Always(l) == l \in DOMAIN latch

\* The exclusive write of a lock file.
IsFree(l) == latch[l] = NoOne

Take(c, l, pc) ==
  /\ IsFree(l)
  /\ latch' = [latch EXCEPT ![l] = c]
  /\ ErrandGoes(c, pc)
  /\ UNCHANGED shelf

LockStore(c) == ErrandAt(c, "lockStore") /\ Take(c, Creation, "lock")
Lock(c) == ErrandAt(c, "lock") /\ Take(c, errand[c].id, "work")

\* A call leaves its locks from the inside to the outside, whatever came of it.
Outside(c) == IF c \in Creates THEN "unlockStore" ELSE "over"

\* MAX_LOCK_ATTEMPTS.
LockTimesOut(c) ==
  /\ errand[c].pc \in {"lockStore", "lock"}
  /\ ErrandGoes(c, IF ErrandAt(c, "lock") THEN Outside(c) ELSE "over")
  /\ UNCHANGED <<shelf, latch>>

\* create counts the profiles, update compares the version it reads with the expected one.
Work(c) ==
  /\ ErrandAt(c, "work")
  /\ LET may == IF c \in Creates THEN Cardinality(OnShelf) < MaxProfiles
                ELSE shelf[errand[c].id] = errand[c].seen
     IN ErrandGoes(c, IF may THEN "write" ELSE "unlock")
  /\ UNCHANGED <<shelf, latch>>

\* writeNew links and refuses a name that is taken; write renames.
WriteProfile(c) ==
  /\ ErrandAt(c, "write")
  /\ IF c \in Creates /\ errand[c].id \in OnShelf
     THEN ErrandGoes(c, "unlock") /\ UNCHANGED shelf
     ELSE /\ shelf' = [shelf EXCEPT ![errand[c].id] =
               [revision |-> IF c \in Creates THEN 1 ELSE errand[c].seen.revision + 1, snapshot |-> c]]
          /\ errand' = [errand EXCEPT ![c].pc = "unlock", ![c].wrote = TRUE]
  /\ UNCHANGED latch

\* releaseLock removes the file if it holds the caller's token; when it cannot, the file
\* stays and the call ends as it would have.
GiveBack(c, l, pc) ==
  /\ ErrandGoes(c, pc)
  /\ latch' = [latch EXCEPT ![l] = IF @ = c THEN NoOne ELSE @] \/ UNCHANGED latch
  /\ UNCHANGED shelf

Unlock(c) == ErrandAt(c, "unlock") /\ GiveBack(c, errand[c].id, Outside(c))
UnlockStore(c) == ErrandAt(c, "unlockStore") /\ GiveBack(c, Creation, "over")

\* A read or a write fails.
ErrandFails(c) ==
  /\ errand[c].pc \in {"work", "write"}
  /\ ErrandGoes(c, "unlock")
  /\ UNCHANGED <<shelf, latch>>

ErrandDies(c) ==
  /\ errand[c].pc \notin {"idle", "over", "crashed"}
  /\ ErrandGoes(c, "crashed")
  /\ UNCHANGED <<shelf, latch>>

ProfileNext ==
  \E c \in Errands :
    \/ CallStore(c) \/ LockStore(c) \/ Lock(c) \/ LockTimesOut(c) \/ Work(c) \/ WriteProfile(c)
    \/ Unlock(c) \/ UnlockStore(c) \/ ErrandFails(c) \/ ErrandDies(c)

ProfileSpec == ProfileInit /\ [][ProfileNext]_profileVars

-----------------------------------------------------------------------------
(* Properties. *)

\* No profile is lost: there are MaxProfiles at most, a profile was created once, and its
\* revision counts every update that was written since, the last of which is what is
\* stored. Concurrent calls, failures and crashes change nothing in that.
ProfilesKept ==
  /\ Cardinality(OnShelf) <= MaxProfiles
  /\ \A i \in Ids :
       LET written == {c \in Errands : errand[c].id = i /\ errand[c].wrote}
       IN /\ shelf[i].revision = Cardinality(written)
          /\ Cardinality(written \cap Creates) = (IF i \in OnShelf THEN 1 ELSE 0)
          /\ written # {} => shelf[i].snapshot \in written
==============================================================================
