-------------------------- MODULE FileSystemWatcher --------------------------
(***************************************************************************)
(* core::MessageQueueBasedFileSystemWatcher: a thread of its own reads the *)
(* changes of a directory from the system, one overlapped read after the   *)
(* other, and queues them for lstg.FileSystemWatcher; releasing the        *)
(* watcher sets an event and joins the thread.                             *)
(*                                                                         *)
(* A change is the number of its occurrence.  Between two reads the system *)
(* keeps the changes with the handle of the directory, up to a size; what  *)
(* does not fit makes it forget all of them, and the next read completes   *)
(* with nothing.                                                           *)
(***************************************************************************)
EXTENDS Integers, Sequences

CONSTANTS
  ChangeBound,   \* bound of the model on the changes while a watcher is open
  KeptBound,     \* changes the system keeps between two reads
  SystemFails    \* whether the calls of the thread can fail

ASSUME WatcherAssumption ==
  ChangeBound \in Nat /\ KeptBound \in Nat \ {0} /\ SystemFails \in BOOLEAN

VARIABLES
  watcher,            \* "none", "open", "joining"
  thread,             \* what worker does next, "over" after it returned
  m_exit_event, m_complete_event,
  m_notify,           \* the queue of the watcher
  buffer,             \* of the thread: what the last read brought
  reading,            \* the read has not completed
  kept, forgot,       \* changes kept with the handle, or that there were more
  happened,           \* the number of the last change
  taken,              \* history: the last change a script read
  missed              \* history: a change need not arrive

watcherVars == <<watcher, thread, m_exit_event, m_complete_event, m_notify, buffer,
                 reading, kept, forgot, happened, taken, missed>>

WatcherInit ==
  /\ watcher = "none" /\ thread = "over"
  /\ m_exit_event = FALSE /\ m_complete_event = FALSE
  /\ m_notify = <<>> /\ buffer = <<>> /\ reading = FALSE
  /\ kept = <<>> /\ forgot = FALSE
  /\ happened = 0 /\ taken = 0 /\ missed = FALSE

------------------------------------------------------------------------------
(* The engine thread: scripts.                                               *)

\* create and open; a failure leaves no watcher.
openWatcher ==
  /\ watcher = "none"
  /\ watcher' = "open" /\ thread' = "first reset"
  /\ UNCHANGED <<m_exit_event, m_complete_event, m_notify, buffer, reading,
                 kept, forgot, happened, taken, missed>>

\* read of scripts
next ==
  /\ watcher = "open" /\ m_notify # <<>>
  /\ taken' = Head(m_notify) /\ m_notify' = Tail(m_notify)
  /\ UNCHANGED <<watcher, thread, m_exit_event, m_complete_event, buffer, reading,
                 kept, forgot, happened, missed>>

\* close or __gc release the watcher, whose destructor waits for the thread.
SetExitEvent ==
  /\ watcher = "open"
  /\ watcher' = "joining" /\ m_exit_event' = TRUE
  /\ UNCHANGED <<thread, m_complete_event, m_notify, buffer, reading,
                 kept, forgot, happened, taken, missed>>

joinWorker ==
  /\ watcher = "joining" /\ thread = "over"
  /\ watcher' = "none" /\ thread' = "over"
  /\ m_exit_event' = FALSE /\ m_complete_event' = FALSE
  /\ m_notify' = <<>> /\ buffer' = <<>> /\ reading' = FALSE
  /\ kept' = <<>> /\ forgot' = FALSE
  /\ happened' = 0 /\ taken' = 0 /\ missed' = FALSE

------------------------------------------------------------------------------
(* The system.                                                               *)

Completes(changes) ==
  /\ buffer' = changes /\ reading' = FALSE /\ m_complete_event' = TRUE

\* Nobody is told of what changed before the first read.
unwatched == thread \in {"first reset", "first read"}

change ==
  /\ watcher # "none" /\ ~ unwatched /\ happened < ChangeBound
  /\ happened' = happened + 1
  /\ \/ /\ reading
        /\ Completes(<<happened'>>)
        /\ UNCHANGED <<kept, forgot, missed>>
     \/ /\ ~ reading /\ ~ forgot /\ Len(kept) < KeptBound
        /\ kept' = Append(kept, happened')
        /\ UNCHANGED <<buffer, reading, m_complete_event, forgot, missed>>
     \/ /\ ~ reading /\ (forgot \/ Len(kept) = KeptBound)
        /\ kept' = <<>> /\ forgot' = TRUE /\ missed' = TRUE
        /\ UNCHANGED <<buffer, reading, m_complete_event>>
  /\ UNCHANGED <<watcher, thread, m_exit_event, m_notify, taken>>

ReadThenReset ==                                                     \* mutant
  /\ thread \in {"first read", "read"}
  /\ IF forgot \/ kept # <<>> THEN buffer' = kept /\ UNCHANGED reading
     ELSE buffer' = <<>> /\ reading' = TRUE
  /\ kept' = <<>> /\ forgot' = FALSE
  /\ m_complete_event' = FALSE
  /\ thread' = "wait"
  /\ UNCHANGED <<watcher, m_exit_event, m_notify, happened, taken, missed>>

\* ReadDirectoryChangesW completes at once when something was kept.
readDirectory ==
  /\ thread \in {"first read", "read"}
  /\ IF forgot \/ kept # <<>> THEN Completes(kept)
     ELSE buffer' = <<>> /\ reading' = TRUE /\ UNCHANGED m_complete_event
  /\ kept' = <<>> /\ forgot' = FALSE
  /\ thread' = "wait"
  /\ UNCHANGED <<watcher, m_exit_event, m_notify, happened, taken, missed>>

------------------------------------------------------------------------------
(* worker                                                                    *)

resetEvent ==
  /\ thread \in {"first reset", "reset"}
  /\ thread' = IF thread = "reset" THEN "read" ELSE "first read"
  /\ m_complete_event' = FALSE
  /\ UNCHANGED <<watcher, m_exit_event, m_notify, buffer, reading,
                 kept, forgot, happened, taken, missed>>

\* The thread ends, and with it the read it has issued.
WorkerReturns ==
  /\ thread' = "over" /\ reading' = FALSE
  /\ UNCHANGED <<watcher, m_exit_event, m_complete_event, m_notify, buffer,
                 kept, forgot, happened, taken>>

\* A call fails: nothing will arrive any more, and nobody is told.
workerFails ==
  /\ SystemFails /\ thread \notin {"append", "over"}
  /\ missed' = TRUE /\ WorkerReturns

\* WaitForMultipleObjects prefers the first event.
waitExit ==
  /\ thread = "wait" /\ m_exit_event
  /\ missed' = TRUE /\ WorkerReturns

waitComplete ==
  /\ thread = "wait" /\ ~ m_exit_event /\ m_complete_event
  /\ thread' = IF buffer = <<>> THEN "reset" ELSE "append"
  /\ UNCHANGED <<watcher, m_exit_event, m_complete_event, m_notify, buffer, reading,
                 kept, forgot, happened, taken, missed>>

\* One entry of the buffer after the other.
appendEntry ==
  /\ thread = "append"
  /\ m_notify' = Append(m_notify, Head(buffer)) /\ buffer' = Tail(buffer)
  /\ thread' = IF buffer' = <<>> THEN "reset" ELSE "append"
  /\ UNCHANGED <<watcher, m_exit_event, m_complete_event, reading,
                 kept, forgot, happened, taken, missed>>

worker ==
  resetEvent \/ readDirectory \/ waitExit \/ waitComplete \/ appendEntry

WatcherNext ==
  openWatcher \/ next \/ SetExitEvent \/ joinWorker \/ change \/ worker \/ workerFails

\* The thread runs, and the destructor waits for as long as it takes; no call
\* has to fail.
WatcherFairness == WF_watcherVars(worker) /\ WF_watcherVars(joinWorker)

WatcherSpec == WatcherInit /\ [][WatcherNext]_watcherVars /\ WatcherFairness

------------------------------------------------------------------------------
Arriving == m_notify \o buffer \o kept

\* What a script has read and what is on its way is every change since the
\* first read, in order and once, unless there were too many for the system to
\* keep or a call failed.
InOrder ==
  LET all == <<taken>> \o Arriving \o <<happened + 1>> IN
    /\ \A i \in 1 .. Len(all) - 1 : all[i] < all[i + 1]
    /\ ~ missed => Len(Arriving) = happened - taken

\* And it arrives: no completed read is slept through, however changes and the
\* steps of the thread interleave; and releasing the watcher ends (worker, next,
\* the destructor).
ChangesArrive ==
  /\ [] InOrder
  /\ buffer \o kept # <<>> ~> (buffer \o kept = <<>> \/ thread = "over")
  /\ watcher = "joining" ~> watcher = "none"
=============================================================================
