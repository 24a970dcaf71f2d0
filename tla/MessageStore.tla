----------------------------- MODULE MessageStore -----------------------------
(***************************************************************************)
(* The message store that the sessions of a workspace share                *)
(* (src/src/peers/message-store.mjs) and its use by each of them           *)
(* (#persistMessageState and #hydratePersistedState of comms.mjs).  Every  *)
(* change of a message saves all that the session knows, one save after    *)
(* the other; a save merges with what is stored, under a lock.  A session  *)
(* that starts takes what it reads for its own, also the messages another  *)
(* session is still waiting for.                                           *)
(*                                                                         *)
(* Of a message the status and the time of its last change are kept.       *)
(* Conversations, which are merged in the same way, events and bodies are  *)
(* left out.  The file is replaced by a rename, so that it is never read   *)
(* half written.  A lock found stale belongs to a session that was killed, *)
(* and is removed in one step; what becomes of the same protocol when two  *)
(* sessions remove it one after the other is in BoardStore.                *)
(***************************************************************************)
EXTENDS Naturals, Sequences, FiniteSets

CONSTANTS
  Users,        \* sessions of the workspace
  Mail,         \* messages
  NoUser,
  LastMailTime, \* bound: the clock
  MaxQueued,    \* bound: saves of a session that wait
  MaxFailedSaves  \* bound: saves that fail

VARIABLES
  known,        \* of each session: its messages in memory
  user,         \* of each session: "off", "starting", "on"
  unsaved,      \* of each session: the states it has yet to save, in order
  saving,       \* of each session: [at, store], its save under way
  healthy,      \* sessions whose latest save did not fail (history)
  storeLock, stored, mailTime, failedSaves

storeVars == <<known, user, unsaved, saving, healthy, storeLock, stored, mailTime, failedSaves>>

ASSUME StoreConstants ==
  /\ NoUser \notin Users
  /\ {LastMailTime, MaxQueued, MaxFailedSaves} \subseteq Nat

NoMail == [status |-> "none", at |-> 0]
Empty == [m \in Mail |-> NoMail]

ActiveMail == {"running", "cancelling"}
Terminal == {"responded", "cancelled", "error", "dead-letter"}
Finished(snapshot) == snapshot.status \in Terminal

NewerByTimeOnly(left, right) ==      \* as if a finished message had no precedence
  IF right.at >= left.at THEN right ELSE left

NewerOf(left, right) ==
  IF Finished(left) # Finished(right)
  THEN IF Finished(left) THEN left ELSE right
  ELSE IF right.at >= left.at THEN right ELSE left

(* mergePeerMessageStores *)
Merge(existing, incoming) ==
  [m \in Mail |-> CASE existing[m] = NoMail -> incoming[m]
                    [] incoming[m] = NoMail -> existing[m]
                    [] OTHER -> NewerOf(existing[m], incoming[m])]

NotSaving == [at |-> "idle", store |-> Empty]

-----------------------------------------------------------------------------
(* createPeerRuntime: the store is loaded, other files are awaited, and     *)
(* comms takes the active messages of what was read for disconnected.       *)

LoadStore(s) ==
  /\ user[s] = "off"
  /\ user' = [user EXCEPT ![s] = "starting"]
  /\ known' = [known EXCEPT ![s] = stored]
  /\ UNCHANGED <<unsaved, saving, healthy, storeLock, stored, mailTime, failedSaves>>

Recovered(snapshot) ==
  IF snapshot.status \in ActiveMail THEN [status |-> "disconnected", at |-> mailTime] ELSE snapshot

HydratePersistedState(s) ==
  /\ user[s] = "starting"
  /\ user' = [user EXCEPT ![s] = "on"]
  /\ known' = [known EXCEPT ![s] = [m \in Mail |-> Recovered(@[m])]]
  /\ UNCHANGED <<unsaved, saving, healthy, storeLock, stored, mailTime, failedSaves>>

(* What a session may make of a message: send or resume it, cancel it, see  *)
(* it end, and have a late frame make it active again.                      *)
NextStatuses(status) ==
  CASE status = "none" -> {"running"}
    [] status = "running" -> {"cancelling", "responded", "error"}
    [] status = "cancelling" -> {"cancelled", "responded"}
    [] status = "disconnected" -> {"running", "cancelled"}
    [] status = "responded" -> {"cancelling"}
    [] OTHER -> {}

MailChanges(s) ==
  \E m \in Mail : \E status \in NextStatuses(known[s][m].status) :
    /\ user[s] = "on" /\ Len(unsaved[s]) < MaxQueued      \* bound
    /\ status = "running" /\ known[s][m] = NoMail =>      \* ids are fresh
         stored[m] = NoMail /\ \A t \in Users : known[t][m] = NoMail
    /\ known' = [known EXCEPT ![s][m] = [status |-> status, at |-> mailTime]]
    /\ unsaved' = [unsaved EXCEPT ![s] = Append(@, known'[s])]
    /\ UNCHANGED <<user, saving, healthy, storeLock, stored, mailTime, failedSaves>>

-----------------------------------------------------------------------------
(* save: one after the other in each session. *)

SaveTo(s, at, store) == saving' = [saving EXCEPT ![s] = [at |-> at, store |-> store]]

(* As if the first of the waiting saves stood for all of them. *)
StartOnlySave(s) ==
  /\ saving[s].at = "idle" /\ unsaved[s] # <<>>
  /\ SaveTo(s, "waiting", Head(unsaved[s]))
  /\ unsaved' = [unsaved EXCEPT ![s] = <<>>]
  /\ UNCHANGED <<known, user, healthy, storeLock, stored, mailTime, failedSaves>>

StartSave(s) ==
  /\ saving[s].at = "idle" /\ unsaved[s] # <<>>
  /\ SaveTo(s, "waiting", Head(unsaved[s]))
  /\ unsaved' = [unsaved EXCEPT ![s] = Tail(@)]
  /\ UNCHANGED <<known, user, healthy, storeLock, stored, mailTime, failedSaves>>

TakeStoreLock(s) ==
  /\ saving[s].at = "waiting" /\ storeLock = NoUser
  /\ storeLock' = s
  /\ SaveTo(s, "reading", saving[s].store)
  /\ UNCHANGED <<known, user, unsaved, healthy, stored, mailTime, failedSaves>>

RemoveStaleMessageStoreLock(s) ==
  /\ saving[s].at = "waiting" /\ storeLock # NoUser
  /\ saving[storeLock].at \notin {"reading", "writing"}
  /\ storeLock' = NoUser
  /\ UNCHANGED <<known, user, unsaved, saving, healthy, stored, mailTime, failedSaves>>

ReadExisting(s) ==
  /\ saving[s].at = "reading"
  /\ SaveTo(s, "writing", Merge(stored, saving[s].store))
  /\ UNCHANGED <<known, user, unsaved, healthy, storeLock, stored, mailTime, failedSaves>>

(* The rename, and the release of the lock. *)
WriteStore(s) ==
  /\ saving[s].at = "writing"
  /\ stored' = saving[s].store
  /\ storeLock' = NoUser
  /\ saving' = [saving EXCEPT ![s] = NotSaving]
  /\ healthy' = healthy \cup {s}
  /\ UNCHANGED <<known, user, unsaved, mailTime, failedSaves>>

(* The lock cannot be had for 5 s, or a file operation fails: nobody is     *)
(* told, and the next save goes on.                                         *)
SaveFails(s) ==
  /\ saving[s].at # "idle" /\ failedSaves < MaxFailedSaves      \* bound
  /\ failedSaves' = failedSaves + 1
  /\ storeLock' = IF saving[s].at = "waiting" THEN storeLock ELSE NoUser
  /\ saving' = [saving EXCEPT ![s] = NotSaving]
  /\ healthy' = healthy \ {s}
  /\ UNCHANGED <<known, user, unsaved, stored, mailTime>>

-----------------------------------------------------------------------------
Ended(s) ==
  /\ user' = [user EXCEPT ![s] = "off"]
  /\ known' = [known EXCEPT ![s] = Empty]
  /\ unsaved' = [unsaved EXCEPT ![s] = <<>>]
  /\ saving' = [saving EXCEPT ![s] = NotSaving]
  /\ healthy' = healthy \cup {s}
  /\ UNCHANGED <<storeLock, stored, mailTime, failedSaves>>

(* dispose waits until pendingSave is settled. *)
Flushed(s) == unsaved[s] = <<>> /\ saving[s].at = "idle"
DisposeComms(s) == user[s] = "on" /\ Flushed(s) /\ Ended(s)

KillUser(s) == user[s] # "off" /\ Ended(s)

MailTick ==
  /\ mailTime < LastMailTime      \* bound
  /\ mailTime' = mailTime + 1
  /\ UNCHANGED <<known, user, unsaved, saving, healthy, storeLock, stored, failedSaves>>

StoreInit ==
  /\ known = [s \in Users |-> Empty] /\ stored = Empty
  /\ user = [s \in Users |-> "off"] /\ unsaved = [s \in Users |-> <<>>]
  /\ saving = [s \in Users |-> NotSaving] /\ healthy = Users
  /\ storeLock = NoUser /\ mailTime = 1 /\ failedSaves = 0

StoreNext ==
  \/ \E s \in Users :
       \/ LoadStore(s) \/ HydratePersistedState(s) \/ MailChanges(s)
       \/ StartSave(s) \/ TakeStoreLock(s) \/ RemoveStaleMessageStoreLock(s)
       \/ ReadExisting(s) \/ WriteStore(s) \/ SaveFails(s)
       \/ DisposeComms(s) \/ KillUser(s)
  \/ MailTick

StoreSpec == StoreInit /\ [][StoreNext]_storeVars

-----------------------------------------------------------------------------
(* Properties. *)

(* A message that is stored as finished stays so, whatever older or later   *)
(* news of it other sessions save.                                          *)
FinishedMailStays ==
  [][\A m \in Mail : Finished(stored[m]) => Finished(stored'[m])]_storeVars

(* A failed save is made good by the next: once a session has nothing left  *)
(* to save and its latest save did not fail, the end of every message it    *)
(* saw end is stored.                                                       *)
LaterSavesCatchUp ==
  \A s \in Users, m \in Mail :
    user[s] = "on" /\ Flushed(s) /\ s \in healthy /\ Finished(known[s][m]) => Finished(stored[m])
=============================================================================
