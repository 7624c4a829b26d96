------------------------------- MODULE Sockets -------------------------------
(***************************************************************************)
(* Socket objects of ext/sockets in Threaded objects.  A stored socket is  *)
(* its descriptor; every thread that reads it gets a Socket object of its  *)
(* own with the same descriptor and caches it.  PTHREADS_G(shared_sockets) *)
(* lists every descriptor ever stored, so that the objects' destruction    *)
(* leaves it open; the end of the process closes what is listed.           *)
(* What else a Socket object records of its socket (type, error, blocking) *)
(* is the number of the socket that it was made for.                       *)
(***************************************************************************)
EXTENDS Naturals, FiniteSets

CONSTANTS
  Contexts,    \* the threads
  Descriptors,
  MaxSockets,
  NoDescriptor \* no descriptor

ASSUME MaxSocketsAssumption == MaxSockets \in Nat
ASSUME NoDescriptorAssumption == NoDescriptor \notin Descriptors

VARIABLES
  socket,   \* the socket behind each descriptor, 0 if it is not open
  made,     \* the number of sockets made
  objects,  \* the Socket objects of each thread that the program holds
  cache,    \* the Socket object in each thread's cache of the property
  synced,   \* the threads whose local_props_modcount is the property's
  shared,   \* PTHREADS_G(shared_sockets)
  stored_socket,   \* the property
  closed,   \* history: the sockets that socket_close() closed
  ended     \* the module has been shut down

socketVars == <<socket, made, objects, cache, synced, shared, stored_socket, closed, ended>>

Object == [bsd_socket : Descriptors \cup {NoDescriptor}, of : 1 .. MaxSockets]
Absent == [bsd_socket |-> NoDescriptor, of |-> 0]

SocketsTypeOK ==
  /\ socket \in [Descriptors -> 0 .. made] /\ made \in 0 .. MaxSockets
  /\ objects \in [Contexts -> SUBSET Object]
  /\ cache \in [Contexts -> Object \cup {Absent}]
  /\ synced \subseteq Contexts /\ shared \subseteq Descriptors
  /\ stored_socket \in Object \cup {Absent} /\ closed \subseteq 0 .. made /\ ended \in BOOLEAN

SocketsInit ==
  /\ socket = [f \in Descriptors |-> 0] /\ made = 0
  /\ objects = [t \in Contexts |-> {}] /\ cache = [t \in Contexts |-> Absent]
  /\ synced = {} /\ shared = {} /\ stored_socket = Absent /\ closed = {} /\ ended = FALSE

\* socket_create(): the descriptor is any that is not open.
Create(t) ==
  /\ ~ended /\ made < MaxSockets
  /\ made' = made + 1
  /\ \E f \in Descriptors :
       /\ socket[f] = 0
       /\ socket' = [socket EXCEPT ![f] = made + 1]
       /\ objects' = [objects EXCEPT ![t] = @ \cup {[bsd_socket |-> f, of |-> made + 1]}]
  /\ UNCHANGED <<cache, synced, shared, stored_socket, closed, ended>>

\* socket_close(); the cached object is the one that the program holds.
SocketClose(t) ==
  /\ ~ended
  /\ \E o \in objects[t] :
       LET dead == [o EXCEPT !.bsd_socket = NoDescriptor] IN
       /\ o.bsd_socket # NoDescriptor
       /\ socket' = [socket EXCEPT ![o.bsd_socket] = 0]
       /\ closed' = closed \cup {socket[o.bsd_socket]}
       /\ objects' = [objects EXCEPT ![t] = (@ \ {o}) \cup {dead}]
       /\ cache' = IF cache[t] = o THEN [cache EXCEPT ![t] = dead] ELSE cache
  /\ UNCHANGED <<made, synced, shared, stored_socket, ended>>

\* pthreads_socket_free_obj_hook: a shared descriptor is left open.
ClosesDescriptor(o) == o.bsd_socket # NoDescriptor /\ o.bsd_socket \notin shared

ReleasedSocket(o) ==
  socket' = IF ClosesDescriptor(o) THEN [socket EXCEPT ![o.bsd_socket] = 0] ELSE socket

\* The program drops an object; one that is cached lives on.
DropSocket(t) ==
  /\ \E o \in objects[t] :
       /\ objects' = [objects EXCEPT ![t] = @ \ {o}]
       /\ IF o = cache[t] THEN UNCHANGED socket ELSE ReleasedSocket(o)
  /\ UNCHANGED <<made, cache, synced, shared, stored_socket, closed, ended>>

\* The cache gets another object; the one it had dies if nobody else has it.
Cache(t, o) ==
  /\ cache' = [cache EXCEPT ![t] = o]
  /\ IF cache[t] \in objects[t] \cup {Absent, o}
     THEN UNCHANGED socket ELSE ReleasedSocket(cache[t])

-----------------------------------------------------------------------------
(* The property.                                                           *)

\* Mutant: a socket is stored without noting that it is shared.
TrackNot(o) == shared' = shared

\* pthreads_globals_shared_socket_track.
Track(o) == shared' = IF o.bsd_socket = NoDescriptor THEN shared ELSE shared \cup {o.bsd_socket}

\* pthreads_store_write: the object is stored, and cached by its writer; to
\* replace a socket puts the other threads' caches in doubt.
WriteSocket(t) ==
  /\ ~ended
  /\ \E o \in objects[t] : Track(o) /\ stored_socket' = o /\ Cache(t, o)
  /\ synced' = IF stored_socket = Absent THEN synced \cup {t} ELSE {t}
  /\ UNCHANGED <<made, objects, closed, ended>>

UnsetSocket(t) ==
  /\ ~ended /\ stored_socket # Absent
  /\ stored_socket' = Absent /\ Cache(t, Absent)
  /\ synced' = synced \cap {t}
  /\ UNCHANGED <<made, objects, shared, closed, ended>>

\* pthreads_store_sync_local_properties: nothing has been written, or the
\* cached object has the stored descriptor.
Current(t) ==
  \/ t \in synced
  \/ stored_socket # Absent /\ cache[t].bsd_socket = stored_socket.bsd_socket

Result(t) == IF cache[t] # Absent /\ Current(t) THEN cache[t] ELSE stored_socket

\* A read gives the cached object, or a new one made from the storage.
ReadSocket(t) ==
  /\ ~ended
  /\ Cache(t, Result(t))
  /\ objects' = IF Result(t) = Absent THEN objects
                ELSE [objects EXCEPT ![t] = @ \cup {Result(t)}]
  /\ synced' = synced \cup {t}
  /\ UNCHANGED <<made, shared, stored_socket, closed, ended>>

\* The thread's connection to the Threaded object is freed.
Disconnect(t) ==
  /\ cache[t] # Absent
  /\ Cache(t, Absent)
  /\ synced' = synced \ {t}
  /\ UNCHANGED <<made, objects, shared, stored_socket, closed, ended>>

\* pthreads_globals_shutdown, when all threads have ended.
Shutdown ==
  /\ ~ended /\ \A t \in Contexts : objects[t] = {} /\ cache[t] = Absent
  /\ ended' = TRUE
  /\ socket' = [f \in Descriptors |-> IF f \in shared THEN 0 ELSE socket[f]]
  /\ UNCHANGED <<made, objects, cache, synced, shared, stored_socket, closed>>

SocketsNext ==
  \/ \E t \in Contexts : \/ Create(t) \/ SocketClose(t) \/ WriteSocket(t) \/ UnsetSocket(t)
                        \/ ReadSocket(t) \/ DropSocket(t) \/ Disconnect(t)
  \/ Shutdown

SocketsSpec == SocketsInit /\ [][SocketsNext]_socketVars

-----------------------------------------------------------------------------
(* Properties.                                                             *)

\* tests/php8-socket-copy-overwrite-basic.phpt: sockets "get copied and
\* overwritten properly".  Every Socket object that has a descriptor has that
\* of the socket it was made for, unless the program closed that socket: no
\* other thread's drop has closed it, and the number has not gone to another.
ObjectsRefer ==
  \A t \in Contexts : \A o \in objects[t] :
    o.bsd_socket # NoDescriptor /\ o.of \notin closed => socket[o.bsd_socket] = o.of

\* Objects refer to their sockets, and no descriptor outlives the process' last
\* user of it: what the objects leave open the end of the module closes.
DescriptorsRight ==
  /\ SocketsTypeOK
  /\ ObjectsRefer
  /\ ended => \A f \in Descriptors : socket[f] = 0
=============================================================================
