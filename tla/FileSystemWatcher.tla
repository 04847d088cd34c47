------------------------- MODULE FileSystemWatcher -------------------------
(* filesystem/WatcherUniversal.go on Linux: the kernel's events become events  *)
(* for the user. A rename is two events of the kernel; the first is kept until *)
(* the second comes, or a timer takes it for a deletion. The timer and the     *)
(* loop that reads events run side by side without a lock.                     *)
EXTENDS Integers, Sequences, FiniteSets

CONSTANTS
    Files,          \* paths of files
    Folders,        \* paths of folders
    MaxChanges      \* bound on the changes made in the watched folder

AllPaths == Files \union Folders
PathKinds == {"file", "dir"}
PathKind(p) == IF p \in Folders THEN "dir" ELSE "file"

VARIABLES
    queue,          \* events of the kernel that are not read yet
    moveEvent,      \* the kinds of path of which one was moved away and waits for its new name
    movePath,       \* kind -> that path, or the last one
    moveOld,        \* the kinds of which it has waited for MOVE_REQUEST_TIMEOUT
    timer,          \* where moveTimer is: NoTimer, or what it does for which kind
    isRunning,
    ignoredEvents,  \* path -> operation that is ignored the next time, or ""
    changes,        \* number of changes made so far
    left,           \* path -> how often it was moved away or deleted
    gone,           \* path -> how often it was reported deleted or moved, or that ignored
    raced           \* a move was begun or ended while the timer was at work on one

moveVars == <<moveEvent, movePath, moveOld>>
watcherHistory == <<changes, left, gone, raced>>
watcherVars == <<queue, moveVars, timer, isRunning, ignoredEvents, watcherHistory>>

NoTimer == <<"idle", "none">>

WatcherInit ==
    /\ queue = <<>>
    /\ moveEvent = {} /\ moveOld = {}
    /\ movePath = [d \in PathKinds |-> ""]
    /\ timer = NoTimer /\ isRunning = TRUE
    /\ ignoredEvents = [p \in AllPaths |-> ""]
    /\ changes = 0 /\ raced = FALSE
    /\ left = [p \in AllPaths |-> 0] /\ gone = [p \in AllPaths |-> 0]

-----------------------------------------------------------------------------

(* What happens in the folder, as inotify tells it.                            *)
Change(events) ==
    /\ isRunning /\ changes < MaxChanges
    /\ changes' = changes + 1
    /\ queue' = queue \o events
    /\ left' = [p \in AllPaths |-> left[p] + Cardinality({i \in DOMAIN events :
                                                  events[i] \in {<<"from", p>>, <<"deleted", p>>}})]
    /\ UNCHANGED <<moveVars, timer, isRunning, ignoredEvents, gone, raced>>

IgnoreNextEvent(path, operation) ==
    /\ isRunning /\ changes < MaxChanges
    /\ changes' = changes + 1
    /\ ignoredEvents' = [ignoredEvents EXCEPT ![path] = operation]
    /\ UNCHANGED <<queue, moveVars, timer, isRunning, left, gone, raced>>

(* The user is told, unless told to ignore just this. A path that is the first *)
(* of all is one no event has named: nothing is known of it.                   *)
reportFunc(path, operation) ==
    /\ ignoredEvents' = IF path \in AllPaths /\ ignoredEvents[path] = operation
                        THEN [ignoredEvents EXCEPT ![path] = ""] ELSE ignoredEvents
    /\ gone' = IF path \in AllPaths /\ operation \in {"deleted", "moved"}
               THEN [gone EXCEPT ![path] = @ + 1] ELSE gone

Begin(d, path) ==
    /\ moveEvent' = moveEvent \union {d}
    /\ movePath' = [movePath EXCEPT ![d] = path]
    /\ moveOld' = moveOld \ {d}

\* mutant: the path that waited is forgotten
reportFromForgetting(path) ==
    LET d == PathKind(path)
    IN /\ d \in moveEvent => d \in moveOld
       /\ UNCHANGED <<ignoredEvents, gone>>
       /\ Begin(d, path)

(* Event 100, a move begins: it waits for the one before to be old, and takes  *)
(* that one for a deletion.                                                    *)
reportFrom(path) ==
    LET d == PathKind(path)
    IN /\ d \in moveEvent => d \in moveOld
       /\ IF d \in moveEvent THEN reportFunc(movePath[d], "deleted")
                          ELSE UNCHANGED <<ignoredEvents, gone>>
       /\ Begin(d, path)

(* Event 101, a move ends: whatever waits was its beginning. If nothing does,  *)
(* the last path that did is reported as modified, and not the new one.        *)
reportTo(path) ==
    LET d == PathKind(path)
    IN /\ reportFunc(movePath[d], IF d \in moveEvent THEN "moved" ELSE "modified")
       /\ moveEvent' = moveEvent \ {d}
       /\ UNCHANGED <<movePath, moveOld>>

(* reportEvent for the next event of watchingLoop.                             *)
reportEvent ==
    /\ isRunning /\ queue # <<>>
    /\ LET event == Head(queue)[1]
           path == Head(queue)[2]
       IN /\ CASE event = "from" -> reportFrom(path)
               [] event = "to"   -> reportTo(path)
               [] OTHER          -> reportFunc(path, event) /\ UNCHANGED moveVars
          /\ raced' = (raced \/ (event \in {"from", "to"} /\ timer # NoTimer /\ timer[2] = PathKind(path)))
    /\ queue' = Tail(queue)
    /\ UNCHANGED <<timer, isRunning, changes, left>>

-----------------------------------------------------------------------------
(* moveTimer, once a second *)

MoveAges(d) ==
    /\ d \in moveEvent \ moveOld
    /\ moveOld' = moveOld \union {d}
    /\ UNCHANGED <<queue, moveEvent, movePath, timer, isRunning, ignoredEvents, watcherHistory>>

TimerCheck(d) ==
    /\ timer = NoTimer /\ d \in moveEvent \intersect moveOld
    /\ timer' = <<"report", d>>
    /\ UNCHANGED <<queue, moveVars, isRunning, ignoredEvents, watcherHistory>>

TimerReport(d) ==
    /\ timer = <<"report", d>>
    /\ reportFunc(movePath[d], "deleted")
    /\ timer' = <<"reset", d>>
    /\ UNCHANGED <<queue, moveVars, isRunning, changes, left, raced>>

TimerReset(d) ==
    /\ timer = <<"reset", d>>
    /\ moveEvent' = moveEvent \ {d}
    /\ timer' = NoTimer
    /\ UNCHANGED <<queue, movePath, moveOld, isRunning, ignoredEvents, watcherHistory>>

(* The timer ends when it finds the flag; the events not read are dropped.     *)
StopWatching ==
    /\ isRunning
    /\ isRunning' = FALSE
    /\ queue' = <<>>
    /\ UNCHANGED <<moveVars, timer, ignoredEvents, watcherHistory>>

-----------------------------------------------------------------------------

WatcherNext ==
    \/ \E p \in AllPaths, op \in {"modified", "created", "deleted"} : Change(<<<<op, p>>>>)
    \/ \E p \in AllPaths : Change(<<<<"from", p>>>>) \/ Change(<<<<"to", p>>>>)
    \/ \E p, q \in AllPaths : p # q /\ PathKind(p) = PathKind(q) /\ Change(<<<<"from", p>>, <<"to", q>>>>)
    \/ \E p \in AllPaths : IgnoreNextEvent(p, "deleted")
    \/ reportEvent \/ StopWatching
    \/ \E d \in PathKinds : MoveAges(d) \/ TimerCheck(d) \/ TimerReport(d) \/ TimerReset(d)

(* A path that is moved away is reported as deleted, or as moved, exactly      *)
(* once, by the next move, by the event that ends its own or by the timer; if  *)
(* no move began or ended between the timer's look at one and its reset. What  *)
(* the user asked to be ignored counts.                                        *)
MovedAwayOnce ==
    (~raced /\ isRunning /\ queue = <<>> /\ timer = NoTimer /\ moveEvent = {}) =>
        \A p \in AllPaths : gone[p] = left[p]
=============================================================================
