--------------------------- MODULE RegistrationShim ---------------------------
(***************************************************************************)
(* The registration shim (llm_d_rl_common/registration_shim.py): engines   *)
(* register and deregister over HTTP, the shim keeps them in a dictionary  *)
(* and rewrites the endpoints file that EPP's file discovery watches.      *)
(*                                                                         *)
(* POST /workers is a coroutine and runs on the event loop, one at a time; *)
(* DELETE /workers/{ref} is a plain function, which FastAPI runs in a      *)
(* worker thread.  Neither takes a lock: both read the dictionary, build   *)
(* the list and replace the file (endpoints.py) while others do the same   *)
(* through the one temporary file they share.                              *)
(***************************************************************************)
EXTENDS Naturals, FiniteSets

CONSTANTS
  Urls,         \* what engines register
  Portless,     \* the urls without a port, which split_address rejects
  Ids,          \* the values uuid4().hex[:8] may return
  Loop,         \* the event loop
  Deleters,     \* threads of the pool that runs plain handlers
  Blank,        \* a file truncated by open(tmp, "w"), nothing flushed yet
  Torn,         \* a file in which one list was written over a longer one
  MaxRequests   \* bound: requests and restarts

ASSUME ShimAssumption ==
  /\ Portless \subseteq Urls /\ Urls \cap Ids = {}
  /\ Loop \notin Deleters /\ Blank # Torn
  /\ \A us \in SUBSET Urls : us \notin {Blank, Torn}
  /\ IsFiniteSet(Urls) /\ IsFiniteSet(Ids) /\ IsFiniteSet(Deleters)
  /\ MaxRequests \in Nat

Threads == {Loop} \cup Deleters
Keys == Urls \cup Ids
Inodes == 1..(Cardinality(Threads) + 2)
None == 0

(* A file holds a list of urls or is unreadable.                           *)
Unreadable == {Blank, Torn}
Contents == Unreadable \cup SUBSET Urls

VARIABLES
  byUrl,       \* --id-field: the url, or an id of its own, is the key
  workers,     \* _workers: pairs <<key, url>>
  issued,      \* ids handed out so far
  inode,       \* contents of the files on disk
  tmp,         \* the file at <path>.tmp, or None
  file,        \* the file at the path that EPP watches
  thread,      \* what each thread is doing
  requests,    \* requests and restarts so far
  overlapped   \* history: since the last undisturbed success, two requests
               \* were in progress at once, or one failed

disk == <<inode, tmp, file>>
vars == <<byUrl, workers, issued, disk, thread, requests, overlapped>>

Phases == {"idle", "scan", "pop", "list", "open", "write", "replace"}
ThreadState == [at : Phases, ref : Keys \cup {None}, size : Nat, urls : SUBSET Urls,
                fd : Inodes \cup {None}, alone : BOOLEAN]
Resting == [at |-> "idle", ref |-> None, size |-> 0, urls |-> {},
            fd |-> None, alone |-> FALSE]

Registered == {w[2] : w \in workers}
Size == Cardinality(workers)
Busy == {t \in Threads : thread[t].at # "idle"}

(* run: an empty list is written before the server starts.                 *)
Init ==
  /\ byUrl \in BOOLEAN
  /\ workers = {} /\ issued = {}
  /\ file = 1 /\ tmp = None
  /\ inode = [i \in Inodes |-> {}]
  /\ thread = [t \in Threads |-> Resting]
  /\ requests = 0 /\ overlapped = FALSE

-----------------------------------------------------------------------------
(* Requests.                                                               *)

(* A request starts; every request in progress learns that it is not alone. *)
Start(t, at, ref) ==
  LET alone == Busy = {}
  IN /\ requests < MaxRequests /\ requests' = requests + 1
     /\ thread' = [x \in Threads |->
          IF x = t THEN [Resting EXCEPT !.at = at, !.ref = ref, !.size = Size, !.alone = alone]
          ELSE [thread[x] EXCEPT !.alone = @ /\ x \notin Busy]]
     /\ overlapped' = (overlapped \/ ~alone)
     /\ UNCHANGED <<byUrl, workers, issued, disk>>

(* While the event loop is inside _register it dispatches nothing else.    *)
Post(u) == thread[Loop].at = "idle" /\ Start(Loop, "scan", u)
Delete(t, k) == thread[Loop].at = "idle" /\ thread[t].at = "idle" /\ Start(t, "pop", k)

(* An exception in a handler: answered 500, what it did remains.           *)
Fails(t) == thread' = [thread EXCEPT ![t] = Resting] /\ overlapped' = TRUE

(* Iterating over a dictionary whose size has changed since the iteration  *)
(* began raises RuntimeError; whether it began before the change is open.  *)
Raises(t) ==
  /\ thread[t].at \in {"scan", "list"} /\ Size # thread[t].size
  /\ Fails(t)
  /\ UNCHANGED <<byUrl, workers, issued, disk, requests>>

(* The registry has changed and is about to be listed for the file.        *)
Lists(t) ==
  thread' = [thread EXCEPT ![t] = [@ EXCEPT !.at = "list", !.size = Cardinality(workers')]]

(* Faulty variant: a key of its own for every registration.                *)
RegisterAgain ==
  LET u == thread[Loop].ref
  IN /\ thread[Loop].at = "scan"
     /\ \E k \in IF byUrl THEN {u} ELSE Ids \ issued :
          /\ workers' = workers \cup {<<k, u>>}
          /\ issued' = issued \cup ({k} \cap Ids)
     /\ Lists(Loop)
     /\ UNCHANGED <<byUrl, disk, requests, overlapped>>

(* Faulty variant: the list is taken before the new entry is stored.       *)
RegisterAfterListing ==
  LET u == thread[Loop].ref
  IN /\ thread[Loop].at = "scan"
     /\ IF u \in Registered
        THEN /\ thread' = [thread EXCEPT ![Loop] = Resting]
             /\ UNCHANGED <<workers, issued>>
        ELSE /\ \E k \in IF byUrl THEN {u} ELSE Ids \ issued :
                  /\ workers' = workers \cup {<<k, u>>}
                  /\ issued' = issued \cup ({k} \cap Ids)
             /\ thread' = [thread EXCEPT ![Loop] =
                             [@ EXCEPT !.at = "open", !.urls = Registered]]
     /\ UNCHANGED <<byUrl, disk, requests, overlapped>>

(* _register: a url that is there already is answered at once.             *)
Register ==
  LET u == thread[Loop].ref
  IN /\ thread[Loop].at = "scan"
     /\ IF u \in Registered
        THEN /\ thread' = [thread EXCEPT ![Loop] = Resting]
             /\ UNCHANGED <<workers, issued>>
        ELSE /\ \E k \in IF byUrl THEN {u} ELSE Ids \ issued :
                  /\ workers' = workers \cup {<<k, u>>}
                  /\ issued' = issued \cup ({k} \cap Ids)
             /\ Lists(Loop)
     /\ UNCHANGED <<byUrl, disk, requests, overlapped>>

(* Faulty variant: the removal of the last worker is not written.          *)
DeregisterUnlessLast(t) ==
  LET found == {w \in workers : w[1] = thread[t].ref}
  IN /\ thread[t].at = "pop"
     /\ workers' = workers \ found
     /\ IF found = {} \/ workers' = {}
        THEN thread' = [thread EXCEPT ![t] = Resting]
        ELSE Lists(t)
     /\ UNCHANGED <<byUrl, issued, disk, requests, overlapped>>

(* _deregister: an unknown reference is answered 404 and writes nothing.   *)
Deregister(t) ==
  LET found == {w \in workers : w[1] = thread[t].ref}
  IN /\ thread[t].at = "pop"
     /\ workers' = workers \ found
     /\ IF found = {}
        THEN thread' = [thread EXCEPT ![t] = Resting]
        ELSE Lists(t)
     /\ UNCHANGED <<byUrl, issued, disk, requests, overlapped>>

-----------------------------------------------------------------------------
(* _write_endpoints, write_rollout_endpoints and _atomic_write.            *)

(* Every registered url has a host and a port.                             *)
AllSplit == Registered \cap Portless = {}

(* Faulty variant: the entries are passed on instead of their urls.        *)
SnapshotOfEntries(t) ==
  /\ thread[t].at = "list"
  /\ IF AllSplit
     THEN /\ thread' = [thread EXCEPT ![t] = [@ EXCEPT !.at = "open", !.urls = workers]]
          /\ UNCHANGED overlapped
     ELSE Fails(t)
  /\ UNCHANGED <<byUrl, workers, issued, disk, requests>>

(* The list is built; one url without a port fails the whole of it.        *)
Snapshot(t) ==
  /\ thread[t].at = "list"
  /\ IF AllSplit
     THEN /\ thread' = [thread EXCEPT ![t] = [@ EXCEPT !.at = "open", !.urls = Registered]]
          /\ UNCHANGED overlapped
     ELSE Fails(t)
  /\ UNCHANGED <<byUrl, workers, issued, disk, requests>>

Free == Inodes \ ({tmp, file} \cup {thread[t].fd : t \in Threads})

(* Faulty variant: the list is written in place.                           *)
OpenInPlace(t) ==
  /\ thread[t].at = "open"
  /\ inode' = [inode EXCEPT ![file] = Blank]
  /\ tmp' = file
  /\ thread' = [thread EXCEPT ![t] = [@ EXCEPT !.at = "write", !.fd = file]]
  /\ UNCHANGED <<byUrl, workers, issued, file, requests, overlapped>>

(* open(tmp, "w") creates the file or truncates the one another thread is  *)
(* still writing.                                                          *)
Open(t) ==
  /\ thread[t].at = "open"
  /\ \E i \in IF tmp = None THEN {i \in Free : \A j \in Free : i <= j} ELSE {tmp} :
       /\ inode' = [inode EXCEPT ![i] = Blank]
       /\ tmp' = i
       /\ thread' = [thread EXCEPT ![t] = [@ EXCEPT !.at = "write", !.fd = i]]
  /\ UNCHANGED <<byUrl, workers, issued, file, requests, overlapped>>

(* What is in a file after a list was written from its beginning; lists of *)
(* as many urls may still differ in length.                                *)
Overlay(old, urls) ==
  LET longer == old \notin Unreadable => Cardinality(urls) >= Cardinality(old)
      shorter == old \notin Unreadable => Cardinality(urls) <= Cardinality(old)
  IN IF old \in {Blank, urls} THEN {urls}
     ELSE {c \in {urls, Torn} : IF c = Torn THEN shorter ELSE longer}

Write(t) ==
  /\ thread[t].at = "write"
  /\ \E c \in Overlay(inode[thread[t].fd], thread[t].urls) :
       inode' = [inode EXCEPT ![thread[t].fd] = c]
  /\ thread' = [thread EXCEPT ![t].at = "replace"]
  /\ UNCHANGED <<byUrl, workers, issued, tmp, file, requests, overlapped>>

(* os.replace publishes whatever file is at the temporary path, or raises  *)
(* FileNotFoundError when another thread has published it already.  A      *)
(* request that was alone all the time ends a disturbance.                 *)
Replace(t) ==
  /\ thread[t].at = "replace"
  /\ IF tmp = None
     THEN Fails(t) /\ UNCHANGED disk
     ELSE /\ thread' = [thread EXCEPT ![t] = Resting]
          /\ file' = tmp /\ tmp' = None /\ UNCHANGED inode
          /\ overlapped' = (overlapped /\ ~thread[t].alone)
  /\ UNCHANGED <<byUrl, workers, issued, requests>>

(* The process dies at any point and is started again.                     *)
Restart ==
  /\ requests < MaxRequests /\ requests' = requests + 1
  /\ workers' = {} /\ issued' = issued
  /\ thread' = [t \in Threads |-> Resting]
  /\ file' = 1 /\ tmp' = None
  /\ inode' = [i \in Inodes |-> {}]
  /\ overlapped' = FALSE
  /\ UNCHANGED byUrl

-----------------------------------------------------------------------------
Next ==
  \/ \E u \in Urls : Post(u)
  \/ \E t \in Deleters, k \in Keys : Delete(t, k)
  \/ Register
  \/ \E t \in Deleters : Deregister(t)
  \/ \E t \in Threads : Raises(t) \/ Snapshot(t) \/ Open(t) \/ Write(t) \/ Replace(t)
  \/ Restart

Spec == Init /\ [][Next]_vars

-----------------------------------------------------------------------------
(* Properties.                                                             *)

(* Every variable has its type.                                            *)
TypeOK ==
  /\ byUrl \in BOOLEAN
  /\ workers \subseteq Keys \X Urls /\ issued \subseteq Ids
  /\ inode \in [Inodes -> Contents]
  /\ tmp \in Inodes \cup {None} /\ file \in Inodes
  /\ thread \in [Threads -> ThreadState]
  /\ requests \in 0..MaxRequests /\ overlapped \in BOOLEAN

(* A url never has two handles, and a handle never two urls: registering   *)
(* is idempotent however it interleaves with removals, so that one removal *)
(* by its handle is enough.                                                *)
OneHandlePerUrl == \A v, w \in workers : v[1] = w[1] \/ v[2] = w[2] => v = w

(* The file lists exactly the registered urls whenever no request is in    *)
(* progress, unless requests overlapped or failed since the last one that  *)
(* wrote undisturbed: one undisturbed change repairs whatever went wrong.  *)
FileFollowsRegistry ==
  Busy = {} /\ ~overlapped => inode[file] = Registered

(* As long as requests do not overlap, EPP reads whole lists at any time,  *)
(* in the middle of a request too.                                         *)
ReadersSeeWholeLists == ~overlapped => inode[file] \notin Unreadable

(* What EPP reads is the registry's own history: one engine more or less   *)
(* at a time, each change before the next, none skipped, taken back or     *)
(* half written, except from a disturbance until a request that is alone   *)
(* has written; that is the promise of module EndpointsFeed.               *)
Feed == INSTANCE EndpointsFeed WITH
          Addresses <- Urls, registry <- Registered, feed <- inode[file],
          disturbed <- overlapped

FeedsTheRegistry == Feed!FSpec

(* "needs the last endpoint's removal to actually reach the file, or EPP   *)
(* keeps routing to an engine that is gone" (endpoints.py:70-72).          *)
RemovalReachesFile ==
  Busy = {} => inode[file] \notin Unreadable /\ inode[file] \subseteq Registered
=============================================================================
