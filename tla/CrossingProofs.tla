---------------------------- MODULE CrossingProofs ----------------------------
(***************************************************************************)
(* Theorems about what crosses from one thread to another: sockets,        *)
(* opcodes, functions and resources, for every number of threads, of       *)
(* descriptors, of oplines, of functions and of resources, and every       *)
(* bound.  Of resources, whose counts threads may update at once: who      *)
(* destroys them, that a shared one is not freed under others until its    *)
(* owner lets go of it, and that a read gives the one that was stored.     *)
(***************************************************************************)
EXTENDS FunctionCache, Opcodes, Sockets, Resources, Integers, FiniteSetTheorems,
        SequenceTheorems, TLAPS

-----------------------------------------------------------------------------
(* Sockets: DescriptorsRight.                                              *)

\* The Socket objects that keep a thread from having its descriptors closed.
Have(t) == objects[t] \cup {cache[t]}

\* What every object of a thread, and the property, says of its descriptor.
Refers(o) ==
  o.bsd_socket # NoDescriptor /\ o.of \notin closed => socket[o.bsd_socket] = o.of

\* A descriptor that was never stored belongs to one object of one thread ...
Sole ==
  \A t, u \in Contexts : \A o \in Have(t), p \in Have(u) :
    o.bsd_socket = p.bsd_socket /\ o.bsd_socket \notin shared \cup {NoDescriptor}
      => t = u /\ o = p /\ socket[o.bsd_socket] = o.of

\* ... and while it is open that object exists.
OpenIsHeld ==
  \A f \in Descriptors \ shared :
    socket[f] # 0 => \E t \in Contexts : \E o \in Have(t) : o.bsd_socket = f

SocketsInv ==
  /\ SocketsTypeOK
  /\ ~ended => Refers(stored_socket) /\ \A t \in Contexts : \A o \in Have(t) : Refers(o)
  /\ stored_socket.bsd_socket \in shared \cup {NoDescriptor}
  /\ Sole
  /\ OpenIsHeld
  /\ ended => /\ \A t \in Contexts : objects[t] = {} /\ cache[t] = Absent
              /\ \A f \in Descriptors : socket[f] = 0

LEMMA ObjectFacts ==
  ASSUME NEW o \in Object \cup {Absent}
  PROVE  /\ o.bsd_socket \in Descriptors \cup {NoDescriptor}
         /\ o.of \in Nat
         /\ o.bsd_socket # NoDescriptor => o \in Object /\ o.of # 0
<1>1. CASE o \in Object
  BY <1>1, MaxSocketsAssumption DEF Object
<1>2. CASE o = Absent
  BY <1>2 DEF Absent
<1> QED
  BY <1>1, <1>2

LEMMA HaveFacts ==
  ASSUME SocketsTypeOK, NEW t \in Contexts, NEW o \in Have(t)
  PROVE  /\ o \in Object \cup {Absent}
         /\ o.bsd_socket \in Descriptors \cup {NoDescriptor}
         /\ o.bsd_socket # NoDescriptor => o.of # 0
<1>1. o \in Object \cup {Absent}
  BY DEF SocketsTypeOK, Have
<1> QED
  BY <1>1, ObjectFacts

LEMMA SocketsInvInit == SocketsInit => SocketsInv
<1> SUFFICES ASSUME SocketsInit PROVE SocketsInv
  OBVIOUS
<1>1. SocketsTypeOK
  <2>1. 0 \in 0 .. MaxSockets /\ 0 \in 0 .. 0
    BY MaxSocketsAssumption
  <2> QED
    BY <2>1 DEF SocketsInit, SocketsTypeOK
<1>2. \A t \in Contexts : Have(t) = {Absent}
  BY DEF SocketsInit, Have
<1>3. Absent.bsd_socket = NoDescriptor /\ stored_socket = Absent
  BY DEF Absent, SocketsInit
<1>4. \A f \in Descriptors : socket[f] = 0
  BY DEF SocketsInit
<1> QED
  BY <1>1, <1>2, <1>3, <1>4 DEF SocketsInit, SocketsInv, Refers, Sole, OpenIsHeld

\* socket_create() takes a descriptor that nothing refers to any more: the
\* objects that still have its number are of sockets the program closed.
LEMMA CreateKeeps ==
  ASSUME SocketsInv, NEW t \in Contexts, Create(t)
  PROVE  SocketsInv'
<1>1. PICK f \in Descriptors :
        /\ socket[f] = 0
        /\ socket' = [socket EXCEPT ![f] = made + 1]
        /\ objects' = [objects EXCEPT ![t] = @ \cup {[bsd_socket |-> f, of |-> made + 1]}]
  BY DEF Create
<1> DEFINE new == [bsd_socket |-> f, of |-> made + 1]
<1>2. /\ ~ended /\ made \in Nat /\ made' = made + 1 /\ made + 1 \in 1 .. MaxSockets
      /\ UNCHANGED <<cache, synced, shared, stored_socket, closed, ended>>
  BY MaxSocketsAssumption DEF Create, SocketsInv, SocketsTypeOK
<1>3. new \in Object /\ new.bsd_socket = f /\ new.of = made + 1 /\ f # NoDescriptor
  BY <1>2, NoDescriptorAssumption DEF Object
<1>4. objects' = [objects EXCEPT ![t] = @ \cup {new}]
  BY <1>1
<1> HIDE DEF new
<1>5. /\ Have(t)' = Have(t) \cup {new}
      /\ \A u \in Contexts \ {t} : Have(u)' = Have(u)
  BY <1>2, <1>4 DEF Have, SocketsInv, SocketsTypeOK
<1>6. SocketsTypeOK'
  <2>1. socket' \in [Descriptors -> 0 .. made']
    BY <1>1, <1>2 DEF SocketsInv, SocketsTypeOK
  <2>2. objects' \in [Contexts -> SUBSET Object]
    BY <1>3, <1>4 DEF SocketsInv, SocketsTypeOK
  <2>3. closed' \subseteq 0 .. made' /\ made' \in 0 .. MaxSockets
    BY <1>2 DEF SocketsInv, SocketsTypeOK
  <2> QED
    BY <1>2, <2>1, <2>2, <2>3 DEF SocketsInv, SocketsTypeOK
<1>7. ASSUME NEW u \in Contexts, NEW o \in Have(u), o.bsd_socket = f
      PROVE  o.of \in closed /\ f \in shared
  <2>1. o.of # 0 /\ f # NoDescriptor
    BY <1>3, <1>7, HaveFacts DEF SocketsInv
  <2>2. Refers(o)
    BY <1>2 DEF SocketsInv
  <2> QED
    BY <1>1, <1>7, <2>1, <2>2 DEF Refers, SocketsInv, Sole
<1>8. Refers(stored_socket)'
  <2>1. /\ stored_socket \in Object \cup {Absent}
        /\ Refers(stored_socket)
    BY <1>2 DEF SocketsInv, SocketsTypeOK
  <2>2. /\ stored_socket.bsd_socket \in Descriptors \cup {NoDescriptor}
        /\ stored_socket.bsd_socket # NoDescriptor => stored_socket.of # 0
    BY <2>1, ObjectFacts
  <2> QED
    BY <1>1, <1>2, <2>1, <2>2 DEF Refers, SocketsInv, SocketsTypeOK
<1>9. ASSUME NEW u \in Contexts, NEW o \in Have(u)' PROVE Refers(o)'
  <2>1. CASE o = new
    BY <1>1, <1>3, <2>1 DEF Refers, SocketsInv, SocketsTypeOK
  <2>2. CASE o \in Have(u)
    <3>1. Refers(o) /\ o.bsd_socket \in Descriptors \cup {NoDescriptor}
      BY <1>2, <2>2, HaveFacts DEF SocketsInv
    <3> QED
      BY <1>1, <1>2, <1>7, <2>2, <3>1 DEF Refers, SocketsInv, SocketsTypeOK
  <2> QED
    BY <1>5, <1>9, <2>1, <2>2
<1>10. Sole'
  <2> SUFFICES ASSUME NEW u \in Contexts, NEW v \in Contexts,
                      NEW o \in Have(u)', NEW p \in Have(v)',
                      o.bsd_socket = p.bsd_socket,
                      o.bsd_socket \notin shared \cup {NoDescriptor}
               PROVE  u = v /\ o = p /\ socket'[o.bsd_socket] = o.of
    BY <1>2 DEF Sole
  <2>1. CASE o.bsd_socket = f
    <3>1. o = new /\ p = new
      BY <1>5, <1>7, <2>1
    <3>2. o \notin Have(u) /\ p \notin Have(v)
      BY <1>7, <2>1
    <3>3. u = t /\ v = t
      BY <1>5, <3>2
    <3> QED
      BY <1>1, <1>3, <3>1, <3>3 DEF SocketsInv, SocketsTypeOK
  <2>2. CASE o.bsd_socket # f
    <3>1. o \in Have(u) /\ p \in Have(v)
      BY <1>3, <1>5, <2>2
    <3>2. u = v /\ o = p /\ socket[o.bsd_socket] = o.of
      BY <3>1 DEF SocketsInv, Sole
    <3>3. o.bsd_socket \in Descriptors
      BY <3>1, HaveFacts DEF SocketsInv
    <3> QED
      BY <1>1, <2>2, <3>2, <3>3 DEF SocketsInv, SocketsTypeOK
  <2> QED
    BY <2>1, <2>2
<1>11. OpenIsHeld'
  <2> SUFFICES ASSUME NEW g \in Descriptors \ shared, socket'[g] # 0
               PROVE  \E u \in Contexts : \E o \in Have(u)' : o.bsd_socket = g
    BY <1>2 DEF OpenIsHeld
  <2>1. CASE g = f
    BY <1>3, <1>5, <2>1
  <2>2. CASE g # f
    <3>1. socket[g] # 0
      BY <1>1, <2>2 DEF SocketsInv, SocketsTypeOK
    <3>2. PICK u \in Contexts : \E o \in Have(u) : o.bsd_socket = g
      BY <3>1 DEF SocketsInv, OpenIsHeld
    <3>3. Have(u) \subseteq Have(u)'
      BY <1>5
    <3> QED
      BY <3>2, <3>3
  <2> QED
    BY <2>1, <2>2
<1> QED
  BY <1>2, <1>6, <1>8, <1>9, <1>10, <1>11 DEF SocketsInv

\* What the steps that exchange one object x of a thread have in common: what
\* the thread gets is what it had or what is stored, and x is released
\* (pthreads_socket_free_obj_hook) unless the thread still has it.
LEMMA ExchangeKeeps ==
  ASSUME SocketsInv, ~ended, UNCHANGED <<closed, ended>>, SocketsTypeOK',
         NEW t \in Contexts, NEW x \in Have(t),
         \A u \in Contexts \ {t} : Have(u)' = Have(u),
         Have(t) \ {x} \subseteq Have(t)',
         Have(t)' \subseteq Have(t) \cup {stored_socket, Absent},
         \/ x \in Have(t)' /\ UNCHANGED socket
         \/ x \notin Have(t)' /\ ReleasedSocket(x),
         shared \subseteq shared',
         stored_socket' \in Have(t)' \cup {stored_socket, Absent},
         stored_socket'.bsd_socket \in shared' \cup {NoDescriptor}
  PROVE  SocketsInv'
<1>1. /\ Absent.bsd_socket = NoDescriptor
      /\ stored_socket.bsd_socket \in shared \cup {NoDescriptor}
  BY DEF Absent, SocketsInv
<1>2. socket \in [Descriptors -> 0 .. made]
  BY DEF SocketsInv, SocketsTypeOK
\* The descriptor that is closed, if one is, belongs to nobody afterwards.
<1>3. ASSUME NEW f \in Descriptors, socket'[f] # socket[f]
      PROVE  /\ f \notin shared /\ socket'[f] = 0
             /\ \A u \in Contexts : \A o \in Have(u)' : o.bsd_socket # f
  <2>1. x \notin Have(t)' /\ ClosesDescriptor(x)
        /\ socket' = [socket EXCEPT ![x.bsd_socket] = 0]
    BY <1>3 DEF ReleasedSocket
  <2>2. x.bsd_socket = f /\ f \notin shared /\ f # NoDescriptor /\ socket'[f] = 0
    BY <1>2, <1>3, <2>1 DEF ClosesDescriptor
  <2>3. ASSUME NEW u \in Contexts, NEW o \in Have(u)', o.bsd_socket = f
        PROVE  FALSE
    <3>1. o \in Have(u)
      BY <1>1, <2>2, <2>3
    <3>2. u = t /\ o = x
      BY <2>2, <2>3, <3>1 DEF SocketsInv, Sole
    <3> QED
      BY <2>1, <2>3, <3>2
  <2> QED
    BY <2>2, <2>3
<1>4. ASSUME NEW u \in Contexts, NEW o \in Have(u)'
      PROVE  /\ o.bsd_socket \in Descriptors \cup {NoDescriptor}
             /\ Refers(o)'
             /\ o.bsd_socket \notin shared \cup {NoDescriptor} => o \in Have(u)
  <2>1. o \in Have(u) \/ o \in {stored_socket, Absent}
    OBVIOUS
  <2>2. Refers(o)
    BY <1>1, <2>1 DEF SocketsInv, Refers
  <2>3. o.bsd_socket \in Descriptors \cup {NoDescriptor}
    <3>1. o \in Object \cup {Absent}
      BY <2>1 DEF SocketsInv, SocketsTypeOK, Have
    <3> QED
      BY <3>1, ObjectFacts
  <2>4. o.bsd_socket # NoDescriptor => socket'[o.bsd_socket] = socket[o.bsd_socket]
    BY <1>3, <2>3
  <2> QED
    BY <1>1, <2>1, <2>2, <2>3, <2>4 DEF Refers
<1>5. Refers(stored_socket)'
  <2>1. CASE stored_socket' \in Have(t)'
    BY <1>4, <2>1 DEF Refers
  <2>2. CASE stored_socket' = stored_socket
    <3>1. Refers(stored_socket) /\ stored_socket.bsd_socket \in Descriptors \cup {NoDescriptor}
      BY ObjectFacts DEF SocketsInv, SocketsTypeOK
    <3> QED
      BY <1>1, <1>3, <2>2, <3>1 DEF Refers
  <2>3. CASE stored_socket' = Absent
    BY <1>1, <2>3 DEF Refers
  <2> QED
    BY <2>1, <2>2, <2>3
<1>6. Sole'
  <2> SUFFICES ASSUME NEW u \in Contexts, NEW v \in Contexts,
                      NEW o \in Have(u)', NEW p \in Have(v)',
                      o.bsd_socket = p.bsd_socket,
                      o.bsd_socket \notin shared' \cup {NoDescriptor}
               PROVE  u = v /\ o = p /\ socket'[o.bsd_socket] = o.of
    BY DEF Sole
  <2>1. o \in Have(u) /\ p \in Have(v) /\ o.bsd_socket \in Descriptors
    BY <1>4
  <2>2. u = v /\ o = p /\ socket[o.bsd_socket] = o.of
    BY <2>1 DEF SocketsInv, Sole
  <2> QED
    BY <1>3, <2>1, <2>2
<1>7. OpenIsHeld'
  <2> SUFFICES ASSUME NEW g \in Descriptors \ shared', socket'[g] # 0
               PROVE  \E u \in Contexts : \E o \in Have(u)' : o.bsd_socket = g
    BY DEF OpenIsHeld
  <2>1. socket[g] # 0 /\ g \notin shared
    BY <1>3
  <2>2. PICK u \in Contexts : \E o \in Have(u) : o.bsd_socket = g
    BY <2>1 DEF SocketsInv, OpenIsHeld
  <2>5. PICK o \in Have(u) : o.bsd_socket = g
    BY <2>2
  <2>3. CASE o \in Have(u)'
    BY <2>5, <2>3
  <2>4. CASE o \notin Have(u)'
    <3>1. u = t /\ o = x /\ ReleasedSocket(x)
      BY <2>5, <2>4
    <3>2. ClosesDescriptor(x)
      BY <2>5, <2>1, <3>1, NoDescriptorAssumption DEF ClosesDescriptor
    <3>3. socket'[g] = 0
      BY <1>2, <2>5, <3>1, <3>2 DEF ReleasedSocket
    <3> QED
      BY <3>3
  <2> QED
    BY <2>3, <2>4
<1> QED
  BY <1>4, <1>5, <1>6, <1>7 DEF SocketsInv

\* socket_close() frees the descriptor under every object that has it; for all
\* of them the socket is then one that the program has closed.
LEMMA SocketCloseKeeps ==
  ASSUME SocketsInv, NEW t \in Contexts, SocketClose(t)
  PROVE  SocketsInv'
<1>1. PICK o \in objects[t] :
        LET d == [o EXCEPT !.bsd_socket = NoDescriptor] IN
        /\ o.bsd_socket # NoDescriptor
        /\ socket' = [socket EXCEPT ![o.bsd_socket] = 0]
        /\ closed' = closed \cup {socket[o.bsd_socket]}
        /\ objects' = [objects EXCEPT ![t] = (@ \ {o}) \cup {d}]
        /\ cache' = IF cache[t] = o THEN [cache EXCEPT ![t] = d] ELSE cache
  BY DEF SocketClose
<1> DEFINE f == o.bsd_socket
           dead == [o EXCEPT !.bsd_socket = NoDescriptor]
<1>2. /\ f # NoDescriptor
      /\ socket' = [socket EXCEPT ![f] = 0]
      /\ closed' = closed \cup {socket[f]}
      /\ objects' = [objects EXCEPT ![t] = (@ \ {o}) \cup {dead}]
      /\ cache' = IF cache[t] = o THEN [cache EXCEPT ![t] = dead] ELSE cache
  BY <1>1
<1>3. ~ended /\ UNCHANGED <<made, synced, shared, stored_socket, ended>>
  BY DEF SocketClose
<1>4. o \in Have(t) /\ o \in Object /\ f \in Descriptors
  BY <1>2, HaveFacts DEF SocketsInv, SocketsTypeOK, Have
<1>5. dead \in Object /\ dead.bsd_socket = NoDescriptor
  BY <1>4 DEF Object
<1> HIDE DEF f, dead
<1>6. SocketsTypeOK'
  <2>1. made \in Nat /\ socket[f] \in 0 .. made
    BY <1>4, MaxSocketsAssumption DEF SocketsInv, SocketsTypeOK
  <2>2. socket' \in [Descriptors -> 0 .. made]
    BY <1>2, <1>4, <2>1 DEF SocketsInv, SocketsTypeOK
  <2>3. objects' \in [Contexts -> SUBSET Object] /\ cache' \in [Contexts -> Object \cup {Absent}]
    BY <1>2, <1>5 DEF SocketsInv, SocketsTypeOK
  <2> QED
    BY <1>2, <1>3, <2>1, <2>2, <2>3 DEF SocketsInv, SocketsTypeOK
<1>7. /\ Have(t)' = (Have(t) \ {o}) \cup {dead}
      /\ \A u \in Contexts \ {t} : Have(u)' = Have(u)
  BY <1>2 DEF Have, SocketsInv, SocketsTypeOK
<1>8. ASSUME NEW p, p.bsd_socket \in Descriptors \cup {NoDescriptor}, Refers(p)
      PROVE  Refers(p)'
  <2>1. CASE p.bsd_socket = f
    BY <1>2, <1>8, <2>1 DEF Refers
  <2>2. CASE p.bsd_socket # f
    BY <1>2, <1>8, <2>2 DEF Refers, SocketsInv, SocketsTypeOK
  <2> QED
    BY <2>1, <2>2
<1>9. Refers(stored_socket)'
  <2>1. Refers(stored_socket) /\ stored_socket.bsd_socket \in Descriptors \cup {NoDescriptor}
    BY <1>3, ObjectFacts DEF SocketsInv, SocketsTypeOK
  <2>2. ~(stored_socket.bsd_socket # NoDescriptor /\ stored_socket.of \notin closed')
        \/ socket'[stored_socket.bsd_socket] = stored_socket.of
    BY <1>8, <2>1 DEF Refers
  <2> QED
    BY <1>3, <2>2 DEF Refers
<1>10. ASSUME NEW u \in Contexts, NEW p \in Have(u)' PROVE Refers(p)'
  <2>1. CASE p = dead
    BY <1>5, <2>1 DEF Refers
  <2>2. CASE p \in Have(u)
    BY <1>3, <1>8, <2>2, HaveFacts DEF SocketsInv
  <2> QED
    BY <1>7, <1>10, <2>1, <2>2
<1>11. Sole'
  <2> SUFFICES ASSUME NEW u \in Contexts, NEW v \in Contexts,
                      NEW q \in Have(u)', NEW p \in Have(v)',
                      q.bsd_socket = p.bsd_socket,
                      q.bsd_socket \notin shared \cup {NoDescriptor}
               PROVE  u = v /\ q = p /\ socket'[q.bsd_socket] = q.of
    BY <1>3 DEF Sole
  <2>1. q \in Have(u) /\ p \in Have(v) /\ (u = t => q # o)
    BY <1>4, <1>5, <1>7
  <2>2. u = v /\ q = p /\ socket[q.bsd_socket] = q.of
    BY <2>1 DEF SocketsInv, Sole
  <2>3. q.bsd_socket # f
    BY <1>4, <2>1 DEF SocketsInv, Sole, f
  <2>4. q.bsd_socket \in Descriptors
    BY <2>1, HaveFacts DEF SocketsInv
  <2> QED
    BY <1>2, <2>2, <2>3, <2>4 DEF SocketsInv, SocketsTypeOK
<1>12. OpenIsHeld'
  <2> SUFFICES ASSUME NEW g \in Descriptors \ shared, socket'[g] # 0
               PROVE  \E u \in Contexts : \E p \in Have(u)' : p.bsd_socket = g
    BY <1>3 DEF OpenIsHeld
  <2>1. g # f /\ socket[g] # 0
    BY <1>2, <1>4 DEF SocketsInv, SocketsTypeOK
  <2>2. PICK u \in Contexts : \E p \in Have(u) : p.bsd_socket = g
    BY <2>1 DEF SocketsInv, OpenIsHeld
  <2>3. PICK p \in Have(u) : p.bsd_socket = g
    BY <2>2
  <2>4. p \in Have(u)'
    BY <1>7, <2>1, <2>3 DEF f
  <2> QED
    BY <2>3, <2>4
<1> QED
  BY <1>3, <1>6, <1>9, <1>10, <1>11, <1>12 DEF SocketsInv

\* What Cache(t, o) does to the objects of a thread that o is among, or may be.
LEMMA CacheFacts ==
  ASSUME SocketsInv, NEW t \in Contexts, NEW o \in Object \cup {Absent}, Cache(t, o),
         \/ UNCHANGED objects
         \/ objects' = [objects EXCEPT ![t] = @ \cup {o}]
  PROVE  /\ cache' \in [Contexts -> Object \cup {Absent}]
         /\ socket' \in [Descriptors -> 0 .. made]
         /\ cache[t] \in Have(t)
         /\ \A u \in Contexts \ {t} : Have(u)' = Have(u)
         /\ Have(t) \ {cache[t]} \subseteq Have(t)'
         /\ Have(t)' \subseteq Have(t) \cup {o}
         /\ o \in Have(t)'
         /\ \/ cache[t] \in Have(t)' /\ UNCHANGED socket
            \/ cache[t] \notin Have(t)' /\ ReleasedSocket(cache[t])
<1>1. /\ cache' = [cache EXCEPT ![t] = o]
      /\ IF cache[t] \in objects[t] \cup {Absent, o}
         THEN UNCHANGED socket ELSE ReleasedSocket(cache[t])
  BY DEF Cache
<1>2. /\ cache \in [Contexts -> Object \cup {Absent}]
      /\ socket \in [Descriptors -> 0 .. made] /\ made \in Nat
      /\ objects \in [Contexts -> SUBSET Object]
  BY MaxSocketsAssumption DEF SocketsInv, SocketsTypeOK
<1>3. cache' \in [Contexts -> Object \cup {Absent}] /\ cache'[t] = o
  BY <1>1, <1>2
<1>4. socket' \in [Descriptors -> 0 .. made]
  BY <1>1, <1>2 DEF ReleasedSocket
<1>5. \A u \in Contexts \ {t} : objects'[u] = objects[u] /\ cache'[u] = cache[u]
  BY <1>1, <1>2
<1>6. objects[t] \subseteq objects'[t] /\ objects'[t] \subseteq objects[t] \cup {o}
  BY <1>2
<1>7. Have(t)' = objects'[t] \cup {o}
  BY <1>3 DEF Have
<1>8. \/ cache[t] \in Have(t)' /\ UNCHANGED socket
      \/ cache[t] \notin Have(t)' /\ ReleasedSocket(cache[t])
  <2>1. CASE cache[t] \in objects[t] \cup {o}
    BY <1>1, <1>6, <1>7, <2>1
  <2>2. CASE cache[t] \notin objects[t] \cup {o} /\ cache[t] = Absent
    BY <1>1, <1>6, <1>7, <2>2 DEF ReleasedSocket, ClosesDescriptor, Absent
  <2>3. CASE cache[t] \notin objects[t] \cup {o} /\ cache[t] # Absent
    BY <1>1, <1>6, <1>7, <2>3
  <2> QED
    BY <2>1, <2>2, <2>3
<1> QED
  BY <1>3, <1>4, <1>5, <1>6, <1>7, <1>8 DEF Have

LEMMA DropSocketKeeps ==
  ASSUME SocketsInv, NEW t \in Contexts, DropSocket(t)
  PROVE  SocketsInv'
<1>1. PICK o \in objects[t] :
        /\ objects' = [objects EXCEPT ![t] = @ \ {o}]
        /\ IF o = cache[t] THEN UNCHANGED socket ELSE ReleasedSocket(o)
  BY DEF DropSocket
<1>2. UNCHANGED <<made, cache, synced, shared, stored_socket, closed, ended>>
  BY DEF DropSocket
<1>3. /\ objects \in [Contexts -> SUBSET Object] /\ socket \in [Descriptors -> 0 .. made]
      /\ made \in Nat
  BY MaxSocketsAssumption DEF SocketsInv, SocketsTypeOK
<1>4. ~ended
  BY <1>1 DEF SocketsInv
<1>5. objects' \in [Contexts -> SUBSET Object] /\ socket' \in [Descriptors -> 0 .. made]
  BY <1>1, <1>3 DEF ReleasedSocket
<1>6. SocketsTypeOK'
  BY <1>2, <1>5 DEF SocketsInv, SocketsTypeOK
<1>7. /\ o \in Have(t)
      /\ \A u \in Contexts \ {t} : Have(u)' = Have(u)
      /\ Have(t)' = (objects[t] \ {o}) \cup {cache[t]}
  BY <1>1, <1>2, <1>3 DEF Have
<1>8. /\ Have(t) \ {o} \subseteq Have(t)'
      /\ Have(t)' \subseteq Have(t) \cup {stored_socket, Absent}
      /\ o \in Have(t)' <=> o = cache[t]
  BY <1>7 DEF Have
<1>9. stored_socket'.bsd_socket \in shared' \cup {NoDescriptor}
  BY <1>2 DEF SocketsInv
<1> QED
  BY <1>1, <1>2, <1>4, <1>6, <1>7, <1>8, <1>9, ExchangeKeeps

\* The steps of the property: the object that the cache had is exchanged.
LEMMA WriteSocketKeeps ==
  ASSUME SocketsInv, NEW t \in Contexts, WriteSocket(t)
  PROVE  SocketsInv'
<1>1. PICK o \in objects[t] : Track(o) /\ stored_socket' = o /\ Cache(t, o)
  BY DEF WriteSocket
<1>2. /\ ~ended /\ UNCHANGED <<made, objects, closed, ended>>
      /\ synced' = IF stored_socket = Absent THEN synced \cup {t} ELSE {t}
  BY DEF WriteSocket
<1>3. o \in Object /\ o.bsd_socket \in Descriptors \cup {NoDescriptor}
  BY ObjectFacts DEF SocketsInv, SocketsTypeOK
<1>4. /\ shared \subseteq shared' /\ shared' \subseteq Descriptors
      /\ o.bsd_socket \in shared' \cup {NoDescriptor}
  BY <1>1, <1>3 DEF Track, SocketsInv, SocketsTypeOK
<1>5. /\ cache' \in [Contexts -> Object \cup {Absent}]
      /\ socket' \in [Descriptors -> 0 .. made]
      /\ cache[t] \in Have(t)
      /\ \A u \in Contexts \ {t} : Have(u)' = Have(u)
      /\ Have(t) \ {cache[t]} \subseteq Have(t)'
      /\ Have(t)' \subseteq Have(t) \cup {o}
      /\ o \in Have(t)'
      /\ \/ cache[t] \in Have(t)' /\ UNCHANGED socket
         \/ cache[t] \notin Have(t)' /\ ReleasedSocket(cache[t])
  BY <1>1, <1>2, <1>3, CacheFacts
<1>6. SocketsTypeOK'
  BY <1>1, <1>2, <1>3, <1>4, <1>5 DEF SocketsInv, SocketsTypeOK
<1>7. o \in Have(t)
  BY DEF Have
<1> QED
  BY <1>1, <1>2, <1>4, <1>5, <1>6, <1>7, ExchangeKeeps

LEMMA UnsetSocketKeeps ==
  ASSUME SocketsInv, NEW t \in Contexts, ~ended, Cache(t, Absent),
         UNCHANGED <<made, objects, shared, closed, ended>>,
         synced' \subseteq Contexts, stored_socket' \in {stored_socket, Absent}
  PROVE  SocketsInv'
<1>1. /\ cache' \in [Contexts -> Object \cup {Absent}]
      /\ socket' \in [Descriptors -> 0 .. made]
      /\ cache[t] \in Have(t)
      /\ \A u \in Contexts \ {t} : Have(u)' = Have(u)
      /\ Have(t) \ {cache[t]} \subseteq Have(t)'
      /\ Have(t)' \subseteq Have(t) \cup {Absent}
      /\ \/ cache[t] \in Have(t)' /\ UNCHANGED socket
         \/ cache[t] \notin Have(t)' /\ ReleasedSocket(cache[t])
  BY CacheFacts
<1>2. SocketsTypeOK'
  BY <1>1 DEF SocketsInv, SocketsTypeOK
<1>3. stored_socket'.bsd_socket \in shared' \cup {NoDescriptor}
  BY DEF SocketsInv, Absent
<1> QED
  BY <1>1, <1>2, <1>3, ExchangeKeeps

LEMMA ReadSocketKeeps ==
  ASSUME SocketsInv, NEW t \in Contexts, ReadSocket(t)
  PROVE  SocketsInv'
<1> DEFINE o == Result(t)
<1>1. /\ ~ended /\ Cache(t, o)
      /\ objects' = IF o = Absent THEN objects ELSE [objects EXCEPT ![t] = @ \cup {o}]
      /\ synced' = synced \cup {t}
      /\ UNCHANGED <<made, shared, stored_socket, closed, ended>>
  BY DEF ReadSocket
<1>2. o \in Object \cup {Absent} /\ o \in Have(t) \cup {stored_socket}
  BY DEF Result, Have, SocketsInv, SocketsTypeOK
<1> HIDE DEF o
<1>3. /\ cache' \in [Contexts -> Object \cup {Absent}]
      /\ socket' \in [Descriptors -> 0 .. made]
      /\ cache[t] \in Have(t)
      /\ \A u \in Contexts \ {t} : Have(u)' = Have(u)
      /\ Have(t) \ {cache[t]} \subseteq Have(t)'
      /\ Have(t)' \subseteq Have(t) \cup {o}
      /\ \/ cache[t] \in Have(t)' /\ UNCHANGED socket
         \/ cache[t] \notin Have(t)' /\ ReleasedSocket(cache[t])
  BY <1>1, <1>2, CacheFacts
<1>4. objects' \in [Contexts -> SUBSET Object]
  BY <1>1, <1>2 DEF SocketsInv, SocketsTypeOK
<1>5. SocketsTypeOK'
  BY <1>1, <1>3, <1>4 DEF SocketsInv, SocketsTypeOK
<1>6. stored_socket'.bsd_socket \in shared' \cup {NoDescriptor}
  BY <1>1 DEF SocketsInv
<1> QED
  BY <1>1, <1>2, <1>3, <1>5, <1>6, ExchangeKeeps

\* pthreads_globals_shutdown closes what was ever shared; the rest has been
\* closed with its last object.
LEMMA ShutdownKeeps ==
  ASSUME SocketsInv, Shutdown
  PROVE  SocketsInv'
<1>1. /\ \A t \in Contexts : objects[t] = {} /\ cache[t] = Absent
      /\ ended' = TRUE
      /\ socket' = [f \in Descriptors |-> IF f \in shared THEN 0 ELSE socket[f]]
      /\ UNCHANGED <<made, objects, cache, synced, shared, stored_socket, closed>>
  BY DEF Shutdown
<1>2. \A t \in Contexts : Have(t) = {Absent} /\ Have(t)' = {Absent}
  BY <1>1 DEF Have
<1>3. Absent.bsd_socket = NoDescriptor
  BY DEF Absent
<1>4. ASSUME NEW f \in Descriptors PROVE socket'[f] = 0
  <2>1. f # NoDescriptor
    BY NoDescriptorAssumption
  <2>2. f \notin shared => socket[f] = 0
    BY <1>2, <1>3, <2>1 DEF SocketsInv, OpenIsHeld
  <2> QED
    BY <1>1, <2>2
<1>5. SocketsTypeOK'
  <2>1. made \in Nat
    BY MaxSocketsAssumption DEF SocketsInv, SocketsTypeOK
  <2>2. socket' \in [Descriptors -> 0 .. made]
    BY <1>1, <2>1 DEF SocketsInv, SocketsTypeOK
  <2> QED
    BY <1>1, <2>2 DEF SocketsInv, SocketsTypeOK
<1>6. Sole' /\ OpenIsHeld'
  BY <1>2, <1>3, <1>4 DEF Sole, OpenIsHeld
<1> QED
  BY <1>1, <1>4, <1>5, <1>6 DEF SocketsInv

LEMMA SocketsInvNext == SocketsInv /\ [SocketsNext]_socketVars => SocketsInv'
<1> SUFFICES ASSUME SocketsInv, [SocketsNext]_socketVars PROVE SocketsInv'
  OBVIOUS
<1>1. CASE \E t \in Contexts : Create(t)
  BY <1>1, CreateKeeps
<1>2. CASE \E t \in Contexts : SocketClose(t)
  BY <1>2, SocketCloseKeeps
<1>3. CASE \E t \in Contexts : WriteSocket(t)
  BY <1>3, WriteSocketKeeps
<1>4. CASE \E t \in Contexts : UnsetSocket(t)
  <2>1. PICK t \in Contexts : UnsetSocket(t)
    BY <1>4
  <2>2. synced' \subseteq Contexts
    BY <2>1 DEF UnsetSocket, SocketsInv, SocketsTypeOK
  <2> QED
    BY <2>1, <2>2, UnsetSocketKeeps DEF UnsetSocket
<1>5. CASE \E t \in Contexts : ReadSocket(t)
  BY <1>5, ReadSocketKeeps
<1>6. CASE \E t \in Contexts : DropSocket(t)
  BY <1>6, DropSocketKeeps
<1>7. CASE \E t \in Contexts : Disconnect(t)
  <2>1. PICK t \in Contexts : Disconnect(t)
    BY <1>7
  <2>2. synced' \subseteq Contexts /\ ~ended
    BY <2>1 DEF Disconnect, SocketsInv, SocketsTypeOK
  <2> QED
    BY <2>1, <2>2, UnsetSocketKeeps DEF Disconnect
<1>8. CASE Shutdown
  BY <1>8, ShutdownKeeps
<1>9. CASE UNCHANGED socketVars
  BY <1>9 DEF socketVars, SocketsInv, SocketsTypeOK, Refers, Sole, OpenIsHeld, Have
<1> QED
  BY <1>1, <1>2, <1>3, <1>4, <1>5, <1>6, <1>7, <1>8, <1>9 DEF SocketsNext

\* Every Socket object has the socket it was made for until the program closes
\* that, for any number of threads that store, read, replace and drop sockets,
\* and no descriptor stays open after pthreads_globals_shutdown.
THEOREM DescriptorsAlwaysRight == SocketsSpec => []DescriptorsRight
<1>1. SocketsInit => SocketsInv
  BY SocketsInvInit
<1>2. SocketsInv /\ [SocketsNext]_socketVars => SocketsInv'
  BY SocketsInvNext
<1>3. SocketsInv => DescriptorsRight
  BY DEF SocketsInv, DescriptorsRight, ObjectsRefer, Refers, Have
<1> QED
  BY <1>1, <1>2, <1>3, PTL DEF SocketsSpec

-----------------------------------------------------------------------------
(* Opcodes: the arithmetic of operands.                                    *)

LEMMA ProductBounds ==
  ASSUME NEW a \in Nat \ {0}, NEW q \in Int
  PROVE  /\ a * q \in Int
         /\ q >= 1 => a * q >= a
         /\ q <= -1 => a * q <= -a
OBVIOUS

\* An offset that fits in an operand is what is read back from it.
LEMMA SignedFacts ==
  ASSUME NEW d \in Int, 0 - Word \div 2 <= d, d < Word \div 2
  PROVE  d % Word \in Int /\ Signed(d % Word) = d
<1> DEFINE q == d \div Word
           r == d % Word
           h == Word \div 2
<1>1. Word \in Nat \ {0} /\ h \in Int /\ h + h = Word
  BY WordAssumption
<1>2. q \in Int /\ r \in Int /\ d = Word * q + r /\ 0 <= r /\ r < Word
  BY <1>1
<1>3. /\ Word * q \in Int
      /\ q >= 1 => Word * q >= Word
      /\ q <= -1 => Word * q <= -Word
  BY <1>1, <1>2, ProductBounds
<1>4. 0 - h <= d /\ d < h
  OBVIOUS
<1>5. q + 1 \in Int /\ Word * (q + 1) = Word * q + Word
  BY <1>1, <1>2
<1>6. q + 1 <= -1 => Word * (q + 1) <= -Word
  BY <1>1, <1>5, ProductBounds
<1> HIDE DEF q, r, h
<1>7. q = 0 \/ q = -1
  BY <1>1, <1>2, <1>3, <1>4, <1>5, <1>6
<1>8. CASE q = 0
  <2>1. Word * q = 0
    BY <1>1, <1>8
  <2>2. r = d /\ r < h
    BY <1>1, <1>2, <1>4, <2>1
  <2> QED
    BY <1>1, <1>2, <2>2 DEF Signed, r, h
<1>9. CASE q = -1
  <2>1. Word * q = -Word
    BY <1>1, <1>9
  <2>2. r = d + Word /\ ~(r < h)
    BY <1>1, <1>2, <1>4, <2>1
  <2>3. Signed(d % Word) = r - Word
    BY <2>2 DEF Signed, r, h
  <2> QED
    BY <1>1, <1>2, <2>2, <2>3 DEF r
<1> QED
  BY <1>7, <1>8, <1>9

LEMMA ExactQuotient ==
  ASSUME NEW a \in Nat \ {0}, NEW n \in Int
  PROVE  (a * n) \div a = n
<1> DEFINE q == (a * n) \div a
           r == (a * n) % a
<1>1. a * n \in Int
  OBVIOUS
<1>2. q \in Int /\ r \in Int /\ a * n = a * q + r /\ 0 <= r /\ r < a
  BY <1>1
<1>3. n - q \in Int /\ a * (n - q) = a * n - a * q
  BY <1>2
<1>4. a * (n - q) = r
  BY <1>1, <1>2, <1>3
<1>5. /\ n - q >= 1 => a * (n - q) >= a
      /\ n - q <= -1 => a * (n - q) <= -a
  BY <1>3, ProductBounds
<1> HIDE DEF q, r
<1>6. n - q = 0
  BY <1>2, <1>3, <1>4, <1>5
<1> QED
  BY <1>2, <1>6 DEF q

-----------------------------------------------------------------------------
(* Opcodes: OperandsRight.                                                 *)

\* The operands that are to be corrected and those that have been.
OpcodesInv ==
  /\ absolute \in BOOLEAN /\ program \in Programs
  /\ from \in Blocks /\ to \in Blocks
  /\ at \in 1 .. LastOpline + 1
  /\ oplines = [i \in 1 .. LastOpline |->
                  IF i < at THEN Corrected(i, Encoded(from)[i]) ELSE Encoded(from)[i]]

LEMMA SizeFacts ==
  ASSUME OpcodesInv
  PROVE  /\ OpSize \in Nat \ {0} /\ ZvalSize \in Nat \ {0}
         /\ LastOpline \in Nat /\ Compiled(program)
         /\ ~absolute => OpSize = OpSizes[FALSE]
<1>1. Compiled(program)
  BY ProgramsAssumption DEF OpcodesInv
<1>2. LastOpline \in Nat
  BY <1>1, LenProperties DEF Compiled, LastOpline
<1> QED
  BY <1>1, <1>2, OpcodeSizesAssumption DEF OpcodesInv, OpSize

\* What the compiler guarantees of an operand that is an offset.
LEMMA ReachFacts ==
  ASSUME OpcodesInv, ~absolute, NEW k, CompiledOperand(program, k)
  PROVE  /\ OpSize * LastOpline + ZvalSize + ZvalSize * k.n < Word \div 2
         /\ OpSize * LastOpline \in Nat /\ ZvalSize * k.n \in Nat
         /\ ZvalSize \in Nat \ {0} /\ Word \div 2 \in Int
<1>1. k.n \in Nat /\ OpSizes[FALSE] * Len(program) + ZvalSize + ZvalSize * k.n < Word \div 2
  BY DEF CompiledOperand
<1>2. OpSize = OpSizes[FALSE] /\ LastOpline = Len(program)
  BY SizeFacts DEF LastOpline
<1>3. OpSize * LastOpline \in Nat /\ ZvalSize * k.n \in Nat /\ ZvalSize \in Nat \ {0}
  BY <1>1, SizeFacts
<1>4. OpSize * LastOpline + ZvalSize + ZvalSize * k.n < Word \div 2
  BY ONLY <1>1, <1>2, Zenon
<1>5. Word \div 2 \in Int
  BY WordAssumption
<1> QED
  BY <1>3, <1>4, <1>5, Zenon

\* The literals behind the opcodes begin where the opcodes and less than one
\* zval of padding end, in the source as in the copy.
LEMMA BehindFacts ==
  ASSUME OpcodesInv, NEW b \in Blocks
  PROVE  /\ b.opcodes \in Nat /\ b.literals \in Nat
         /\ ~absolute => \E g \in Nat :
              /\ \A c \in Blocks : c.literals = c.opcodes + g
              /\ g < OpSize * LastOpline + ZvalSize
<1> DEFINE s == OpSize * LastOpline
           n == s + ZvalSize - 1
           g == (n \div ZvalSize) * ZvalSize
<1>1. s \in Nat /\ ZvalSize \in Nat \ {0} /\ n \in Nat
  BY SizeFacts
<1>2. n \div ZvalSize \in Nat /\ g \in Nat /\ g <= n
  BY <1>1
<1>3. CASE absolute
  BY <1>3, BasesAssumption DEF Blocks
<1>4. CASE ~absolute
  <2>1. \A c \in Blocks : c.opcodes \in Bases /\ c.literals = c.opcodes + g
    BY <1>4 DEF Blocks, Behind
  <2>2. g < s + ZvalSize
    BY <1>1, <1>2
  <2> HIDE DEF g
  <2>3. b.opcodes \in Nat /\ b.literals = b.opcodes + g
    BY <2>1, BasesAssumption
  <2>4. b.literals \in Nat
    BY <1>2, <2>3
  <2>5. /\ \A c \in Blocks : c.literals = c.opcodes + g
        /\ g < OpSize * LastOpline + ZvalSize
    BY <2>1, <2>2
  <2> QED
    BY <1>2, <2>3, <2>4, <2>5
<1> QED
  BY <1>3, <1>4

LEMMA OplineFacts ==
  ASSUME OpcodesInv, NEW i \in 1 .. LastOpline
  PROVE  /\ OpSize * (i - 1) \in Nat /\ OpSize * LastOpline \in Nat
         /\ OpSize * (i - 1) <= OpSize * LastOpline
<1>1. OpSize \in Nat /\ LastOpline \in Nat /\ i - 1 \in Nat /\ LastOpline - (i - 1) \in Nat
  BY SizeFacts
<1>2. OpSize * (LastOpline - (i - 1)) = OpSize * LastOpline - OpSize * (i - 1)
  BY <1>1
<1>3. OpSize * (LastOpline - (i - 1)) \in Nat /\ OpSize * (i - 1) \in Nat /\ OpSize * LastOpline \in Nat
  BY <1>1
<1> QED
  BY <1>2, <1>3

\* A constant of the source leads to the literal of the same index in the copy.
LEMMA ConstantMoves ==
  ASSUME OpcodesInv, NEW i \in 1 .. LastOpline,
         NEW k, CompiledOperand(program, k), k.kind = "const"
  PROVE  Address(i, Relocated(i, Encode(from, i, k))) = to.literals + ZvalSize * k.n
<1> DEFINE z == ZvalSize * k.n
           l == OpSize * (i - 1)
           x == Encode(from, i, k)
           y == Relocated(i, x)
<1>1. from \in Blocks /\ to \in Blocks
  BY DEF OpcodesInv
<1>2. /\ from.opcodes \in Nat /\ from.literals \in Nat
      /\ to.opcodes \in Nat /\ to.literals \in Nat
  BY <1>1, BehindFacts
<1>3. k.n \in Nat /\ z \in Nat /\ l \in Nat
  BY SizeFacts, OplineFacts DEF CompiledOperand
<1>4. x = Stored(from, i, from.literals + z)
  BY DEF Encode
<1>5. CASE absolute
  <2>1. x = from.literals + z
    BY <1>4, <1>5 DEF Stored
  <2>2. y = x + (to.literals - from.literals)
    BY <1>5 DEF Relocated
  <2>3. Address(i, y) = y
    BY <1>5 DEF Address
  <2> HIDE DEF z, x, y
  <2>4. y = to.literals + z
    BY <1>2, <1>3, <2>1, <2>2
  <2> QED
    BY <2>3, <2>4 DEF z, x, y
<1>6. CASE ~absolute
  <2>1. PICK g \in Nat : /\ from.literals = from.opcodes + g
                         /\ to.literals = to.opcodes + g
                         /\ g < OpSize * LastOpline + ZvalSize
    BY <1>1, <1>6, BehindFacts
  <2>2. /\ OpSize * LastOpline + ZvalSize + z < Word \div 2
        /\ OpSize * LastOpline \in Nat /\ ZvalSize \in Nat
        /\ l <= OpSize * LastOpline
        /\ Word \div 2 \in Int
    BY <1>6, ReachFacts, OplineFacts
  <2> DEFINE d == g + z - l
  <2>3. d \in Int /\ 0 - Word \div 2 <= d /\ d < Word \div 2
    BY <1>3, <2>1, <2>2
  <2>4. /\ (from.literals + z) - Opline(from, i) = d
        /\ (to.literals + z) - Opline(to, i) = d
        /\ Opline(from, i) = from.opcodes + l /\ Opline(to, i) = to.opcodes + l
    BY <1>2, <1>3, <2>1 DEF Opline
  <2>5. x = d % Word
    <3>1. Stored(from, i, from.literals + z) = ((from.literals + z) - Opline(from, i)) % Word
      BY <1>6, Zenon DEF Stored
    <3> QED
      BY ONLY <1>4, <2>4, <3>1, Zenon
  <2>6. Signed(x) = d
    BY <2>3, <2>5, SignedFacts
  <2>7. Opline(from, i) + Signed(x) - from.literals = z
    BY <1>2, <1>3, <2>1, <2>4, <2>6
  <2>8. (Opline(from, i) + Signed(x) - from.literals) \div ZvalSize = k.n
    BY <1>3, <2>7, SizeFacts, ExactQuotient
  <2>9. y = d % Word
    <3>1. y = (to.literals + (z - Opline(to, i))) % Word
      BY <1>6, <2>8, Zenon DEF Relocated
    <3>2. to.literals + (z - Opline(to, i)) = d
      BY <1>2, <1>3, <2>1, <2>4
    <3> QED
      BY ONLY <3>1, <3>2, Zenon
  <2>10. Signed(y) = d
    BY <2>3, <2>4, <2>9, SignedFacts
  <2>11. Address(i, y) = Opline(to, i) + Signed(y)
    BY <1>6 DEF Address
  <2> QED
    BY <1>2, <1>3, <2>1, <2>4, <2>10, <2>11
<1> QED
  BY <1>5, <1>6

\* A jump of the source leads to the opline of the same number in the copy.
LEMMA JumpMoves ==
  ASSUME OpcodesInv, NEW i \in 1 .. LastOpline,
         NEW k, CompiledOperand(program, k), k.kind = "jump"
  PROVE  Address(i, Jump(Encode(from, i, k))) = Opline(to, k.n)
<1> DEFINE l == OpSize * (i - 1)
           m == OpSize * (k.n - 1)
           x == Encode(from, i, k)
<1>1. from \in Blocks /\ to \in Blocks
  BY DEF OpcodesInv
<1>2. from.opcodes \in Nat /\ to.opcodes \in Nat
  BY <1>1, BehindFacts
<1>3. k.n \in 1 .. LastOpline /\ k.n - 1 \in Int
  BY SizeFacts DEF CompiledOperand, LastOpline
<1>4. /\ l \in Nat /\ m \in Nat /\ OpSize * LastOpline \in Nat
      /\ l <= OpSize * LastOpline /\ m <= OpSize * LastOpline
  BY <1>3, OplineFacts
<1>5. x = Stored(from, i, from.opcodes + m)
  BY DEF Encode, Opline
<1>6. Opline(to, k.n) = to.opcodes + m
  BY DEF Opline
<1>7. CASE absolute
  <2>1. x = from.opcodes + m
    BY <1>5, <1>7 DEF Stored
  <2>2. x - from.opcodes = m
    BY <1>2, <1>4, <2>1
  <2>3. (x - from.opcodes) \div OpSize = k.n - 1
    BY <1>3, <2>2, SizeFacts, ExactQuotient
  <2>4. (k.n - 1) * OpSize = m
    BY <1>3, SizeFacts
  <2> QED
    BY <1>6, <1>7, <2>3, <2>4 DEF Jump, Address
<1>8. CASE ~absolute
  <2>1. /\ OpSize * LastOpline + ZvalSize + ZvalSize * k.n < Word \div 2
        /\ ZvalSize \in Nat /\ ZvalSize * k.n \in Nat /\ Word \div 2 \in Int
    BY <1>8, ReachFacts
  <2> DEFINE d == m - l
  <2>2. d \in Int /\ 0 - Word \div 2 <= d /\ d < Word \div 2
    BY <1>4, <2>1
  <2>3. Opline(from, i) = from.opcodes + l /\ Opline(to, i) = to.opcodes + l
    BY DEF Opline
  <2>4. (from.opcodes + m) - Opline(from, i) = d
    BY <1>2, <1>4, <2>3
  <2>5. x = d % Word
    <3>1. Stored(from, i, from.opcodes + m) = ((from.opcodes + m) - Opline(from, i)) % Word
      BY <1>8, Zenon DEF Stored
    <3> QED
      BY ONLY <1>5, <2>4, <3>1, Zenon
  <2>6. Signed(x) = d
    BY <2>2, <2>5, SignedFacts
  <2>7. Address(i, Jump(x)) = Opline(to, i) + Signed(x)
    BY <1>8 DEF Address, Jump
  <2> QED
    BY <1>2, <1>4, <1>6, <2>3, <2>6, <2>7
<1> QED
  BY <1>7, <1>8

LEMMA OpcodesInvInit == OpcodesInit => OpcodesInv
<1> SUFFICES ASSUME OpcodesInit PROVE OpcodesInv
  OBVIOUS
<1>1. /\ absolute \in BOOLEAN /\ program \in Programs /\ from \in Blocks /\ to \in Blocks
      /\ oplines = Encoded(from) /\ at = 1
  BY DEF OpcodesInit
<1>2. LastOpline \in Nat
  BY <1>1, ProgramsAssumption, LenProperties DEF Compiled, LastOpline
<1>3. at \in 1 .. LastOpline + 1
  BY <1>1, <1>2
<1>4. \A i \in 1 .. LastOpline : ~(i < at)
  BY <1>1, <1>2
<1>5. Encoded(from) = [i \in 1 .. LastOpline |-> Encoded(from)[i]]
  BY DEF Encoded
<1> QED
  BY <1>1, <1>3, <1>4, <1>5 DEF OpcodesInv

LEMMA OpcodesInvNext == OpcodesInv /\ [OpcodesNext]_opcodeVars => OpcodesInv'
<1> SUFFICES ASSUME OpcodesInv, [OpcodesNext]_opcodeVars PROVE OpcodesInv'
  OBVIOUS
<1> DEFINE code(n) ==
      [i \in 1 .. LastOpline |->
         IF i < n THEN Corrected(i, Encoded(from)[i]) ELSE Encoded(from)[i]]
<1>0. ASSUME UNCHANGED <<absolute, program, from, to>>
      PROVE  /\ LastOpline' = LastOpline /\ Blocks' = Blocks
             /\ Encoded(from)' = Encoded(from)
             /\ \A i, op : Corrected(i, op)' = Corrected(i, op)
  BY <1>0 DEF Blocks, Behind, OpSize, LastOpline, Corrected, Relocated, Jump, Opline,
              Encoded, Encode, Stored
<1>1. CASE UNCHANGED opcodeVars
  BY <1>0, <1>1 DEF opcodeVars, OpcodesInv
<1>2. CASE Correct
  <2>1. /\ at \in 1 .. LastOpline /\ at' = at + 1
        /\ oplines' = [oplines EXCEPT ![at] = Corrected(at, oplines[at])]
        /\ UNCHANGED <<absolute, program, from, to>>
        /\ LastOpline \in Nat
    <3>1. LastOpline \in Nat /\ at \in 1 .. LastOpline + 1
      BY SizeFacts DEF OpcodesInv
    <3>2. /\ at <= LastOpline /\ at' = at + 1
          /\ oplines' = [oplines EXCEPT ![at] = Corrected(at, oplines[at])]
          /\ UNCHANGED <<absolute, program, from, to>>
      BY <1>2 DEF Correct
    <3>3. at \in 1 .. LastOpline
      BY <3>1, <3>2
    <3> QED
      BY <3>1, <3>2, <3>3
  <2>2. oplines = code(at)
    BY DEF OpcodesInv
  <2>3. oplines' = code(at + 1)
    <3>1. DOMAIN oplines = 1 .. LastOpline /\ oplines[at] = Encoded(from)[at]
      BY <2>1, <2>2
    <3>2. oplines' = [i \in 1 .. LastOpline |->
                        IF i = at THEN Corrected(at, Encoded(from)[at]) ELSE oplines[i]]
      BY <2>1, <3>1
    <3>3. ASSUME NEW i \in 1 .. LastOpline
          PROVE  (IF i = at THEN Corrected(at, Encoded(from)[at]) ELSE oplines[i])
                   = IF i < at + 1 THEN Corrected(i, Encoded(from)[i]) ELSE Encoded(from)[i]
      <4>1. i < at + 1 <=> (i < at \/ i = at)
        BY <2>1
      <4>2. oplines[i] = IF i < at THEN Corrected(i, Encoded(from)[i]) ELSE Encoded(from)[i]
        BY <2>2
      <4>3. CASE i = at
        BY <4>1, <4>3
      <4>4. CASE i # at
        BY <4>1, <4>2, <4>4
      <4> QED
        BY <4>3, <4>4
    <3> QED
      BY <3>2, <3>3, Zenon
  <2>4. /\ LastOpline' = LastOpline /\ Blocks' = Blocks
        /\ Encoded(from)' = Encoded(from)
        /\ \A i, op : Corrected(i, op)' = Corrected(i, op)
    BY <1>0, <2>1
  <2>5. at + 1 \in 1 .. LastOpline + 1
    BY <2>1
  <2> QED
    BY <2>1, <2>3, <2>4, <2>5 DEF OpcodesInv
<1> QED
  BY <1>1, <1>2 DEF OpcodesNext

LEMMA OpcodesInvRight == OpcodesInv => OperandsRight
<1> SUFFICES ASSUME OpcodesInv, NEW i \in 1 .. at - 1, NEW o \in Operands(i)
             PROVE  /\ o[1].kind = "const" => Address(i, o[2]) = to.literals + ZvalSize * o[1].n
                    /\ o[1].kind = "jump" => Address(i, o[2]) = Opline(to, o[1].n)
  BY DEF OperandsRight
<1>1. i \in 1 .. LastOpline /\ i < at
  <2>1. LastOpline \in Nat /\ at \in 1 .. LastOpline + 1
    BY SizeFacts DEF OpcodesInv
  <2> QED
    BY <2>1
<1> DEFINE p == program[i]
           x1 == Encode(from, i, p.op1)
           x2 == Encode(from, i, p.op2)
           e == Encoded(from)[i]
<1>2. e = [opcode |-> p.opcode, last |-> p.last, op1_type |-> p.op1.kind, op1 |-> x1,
           op2_type |-> p.op2.kind, op2 |-> x2]
  BY <1>1 DEF Encoded
<1>3. oplines[i] = Corrected(i, e)
  BY <1>1 DEF OpcodesInv
<1>4. /\ CompiledOperand(program, p.op1) /\ CompiledOperand(program, p.op2)
      /\ p.op1.kind = "jump" => p.opcode = "JMP"
      /\ p.op2.kind = "jump" => p.opcode = "JMPZ" \/ (p.opcode = "CATCH" /\ ~p.last)
  <2>1. Compiled(program)
    BY SizeFacts
  <2> QED
    BY <1>1, <2>1, Zenon DEF Compiled, LastOpline
<1> HIDE DEF p, x1, x2, e
<1>5. oplines[i].op1 = IF p.op1.kind = "const" THEN Relocated(i, x1)
                       ELSE IF p.opcode = "JMP" THEN Jump(x1) ELSE x1
  BY <1>2, <1>3 DEF Corrected
<1>6. oplines[i].op2 = IF p.op2.kind = "const" THEN Relocated(i, x2)
                       ELSE IF p.opcode = "JMPZ" \/ (p.opcode = "CATCH" /\ ~p.last)
                       THEN Jump(x2) ELSE x2
  BY <1>2, <1>3 DEF Corrected
<1>7. CASE o = <<p.op1, oplines[i].op1>>
  <2>1. o[1] = p.op1 /\ o[2] = oplines[i].op1
    BY <1>7
  <2>2. p.op1.kind = "const" => o[2] = Relocated(i, x1)
    BY <1>5, <2>1
  <2>3. p.op1.kind = "jump" => o[2] = Jump(x1)
    BY <1>4, <1>5, <2>1
  <2> QED
    BY <1>1, <1>4, <2>1, <2>2, <2>3, ConstantMoves, JumpMoves DEF x1
<1>8. CASE o = <<p.op2, oplines[i].op2>>
  <2>1. o[1] = p.op2 /\ o[2] = oplines[i].op2
    BY <1>8
  <2>2. p.op2.kind = "const" => o[2] = Relocated(i, x2)
    BY <1>6, <2>1
  <2>3. p.op2.kind = "jump" => o[2] = Jump(x2)
    BY <1>4, <1>6, <2>1
  <2> QED
    BY <1>1, <1>4, <2>1, <2>2, <2>3, ConstantMoves, JumpMoves DEF x2
<1> QED
  BY <1>7, <1>8 DEF Operands, p

\* pthreads_copy_opcodes corrects every constant and every jump, for functions
\* of any length and blocks at any addresses, on builds with addresses and on
\* builds with offsets whose functions an offset can reach across.
THEOREM OperandsAlwaysRight == OpcodesSpec => []OperandsRight
<1>1. OpcodesInit => OpcodesInv
  BY OpcodesInvInit
<1>2. OpcodesInv /\ [OpcodesNext]_opcodeVars => OpcodesInv'
  BY OpcodesInvNext
<1>3. OpcodesInv => OperandsRight
  BY OpcodesInvRight
<1> QED
  BY <1>1, <1>2, <1>3, PTL DEF OpcodesSpec

-----------------------------------------------------------------------------
(* Counting users.                                                         *)

LEMMA UsersFacts ==
  ASSUME NEW D, IsFiniteSet(D), NEW f, DOMAIN f = D, NEW n
  PROVE  /\ Users(f, n) \in Nat
         /\ (\E x \in D : f[x] = n) => Users(f, n) > 0
         /\ (\A x \in D : f[x] # n) => Users(f, n) = 0
<1> DEFINE S == {x \in D : f[x] = n}
<1>1. S \in SUBSET D
  OBVIOUS
<1>2. IsFiniteSet(S)
  BY <1>1, FS_Subset
<1>3. Cardinality(S) \in Nat /\ (Cardinality(S) = 0 <=> S = {})
  BY <1>2, FS_CardinalityType, FS_EmptySet
<1>4. Users(f, n) = Cardinality(S)
  BY DEF Users
<1>5. (\E x \in D : f[x] = n) => S # {}
  OBVIOUS
<1>6. (\A x \in D : f[x] # n) => S = {}
  OBVIOUS
<1> HIDE DEF S
<1> QED
  BY <1>3, <1>4, <1>5, <1>6

\* One entry of a table is changed.
LEMMA UsersExcept ==
  ASSUME NEW D, IsFiniteSet(D), NEW f, DOMAIN f = D, NEW g, DOMAIN g = D,
         NEW x \in D, \A y \in D \ {x} : g[y] = f[y], NEW n
  PROVE  Users(g, n) = Users(f, n) + ((IF g[x] = n THEN 1 ELSE 0) - (IF f[x] = n THEN 1 ELSE 0))
<1> DEFINE S == {y \in D : f[y] = n}
           T == {y \in D : g[y] = n}
<1>2. Users(f, n) = Cardinality(S) /\ Users(g, n) = Cardinality(T)
  BY DEF Users
<1>3. IsFiniteSet(S)
  BY FS_Subset
<1>4. Cardinality(S) \in Nat
  BY <1>3, FS_CardinalityType
<1>5. CASE g[x] = n
  <2>1. T = S \cup {x}
    BY <1>5
  <2>2. Cardinality(T) = IF x \in S THEN Cardinality(S) ELSE Cardinality(S) + 1
    BY <1>3, <2>1, FS_AddElement
  <2>3. x \in S <=> f[x] = n
    OBVIOUS
  <2> HIDE DEF S, T
  <2> QED
    BY <1>2, <1>4, <1>5, <2>2, <2>3
<1>6. CASE g[x] # n
  <2>1. T = S \ {x}
    BY <1>6
  <2>2. Cardinality(T) = IF x \in S THEN Cardinality(S) - 1 ELSE Cardinality(S)
    BY <1>3, <2>1, FS_RemoveElement
  <2>3. x \in S <=> f[x] = n
    OBVIOUS
  <2> HIDE DEF S, T
  <2> QED
    BY <1>2, <1>4, <1>6, <2>2, <2>3
<1> QED
  BY <1>5, <1>6

-----------------------------------------------------------------------------
(* FunctionCache: CopiesSound.                                             *)

Copy == [of : Functions, refs : Nat]

\* Why the cache never leads to a freed copy or to another function: what is
\* cached is in the table of a class, which nothing takes out of it, and without
\* reuse the address of a cached function gets no other one.
CacheInv ==
  /\ \A a \in Addresses : resolve[a] # 0 => \E c \in Classes : method[c] = resolve[a]
  /\ \A a \in Addresses : resolve[a] # 0 /\ text[a] # 0 => copies[resolve[a]].of = text[a]

MethodInv ==
  \A c \in Classes : /\ method[c] # 0 => copies[method[c]].of = wanted[c]
                     /\ wanted[c] = 0 => method[c] = 0
                     /\ second[c] \in {0, method[c]}

ClosureInv == \A p, q \in Places : p # q /\ closure[p] # 0 => closure[p] # closure[q]

CopiesInv == TypeOK /\ RefsExact /\ CacheInv /\ MethodInv /\ ClosureInv

LEMMA TableFacts ==
  ASSUME TypeOK
  PROVE  /\ Len(copies) \in Nat /\ DOMAIN copies = 1 .. Len(copies)
         /\ \A n \in 1 .. Len(copies) :
              copies[n] \in Copy /\ copies[n].of \in Functions /\ copies[n].refs \in Nat
         /\ \A n : /\ Users(method, n) \in Nat /\ Users(second, n) \in Nat /\ Users(named, n) \in Nat
                   /\ Users(closure, n) \in Nat
<1>1. copies \in Seq(Copy)
  BY DEF TypeOK, Copy
<1>2. Len(copies) \in Nat /\ DOMAIN copies = 1 .. Len(copies)
  BY <1>1, LenProperties
<1>3. ASSUME NEW n \in 1 .. Len(copies)
      PROVE  copies[n] \in Copy /\ copies[n].of \in Functions /\ copies[n].refs \in Nat
  <2>1. copies[n] \in Copy
    BY <1>1, ElementOfSeq
  <2> QED
    BY <2>1 DEF Copy
<1>4. DOMAIN method = Classes /\ DOMAIN second = Classes /\ DOMAIN named = Places /\ DOMAIN closure = Places
  BY DEF TypeOK
<1> QED
  BY <1>2, <1>3, <1>4, FiniteAssumption, UsersFacts

LEMMA CopiesInvInit == Init => CopiesInv
<1> SUFFICES ASSUME Init PROVE CopiesInv
  OBVIOUS
<1>1. copies = <<>> /\ kind = <<>> /\ Len(<<>>) = 0
  BY EmptySeq DEF Init
<1>2. <<>> \in Seq(Copy) /\ <<>> \in Seq(Kinds)
  BY EmptySeq
<1>3. 0 <= MaxFunctions /\ 0 <= MaxCopies /\ 0 \in 0 .. MaxFunctions /\ 0 \in 0 .. Len(copies)
  BY <1>1, LimitsAssumption
<1>4. TypeOK
  BY <1>1, <1>2, <1>3 DEF Init, TypeOK, Copy
<1>5. DOMAIN copies = {}
  BY <1>1
<1> QED
  BY <1>4, <1>5 DEF Init, CopiesInv, RefsExact, CacheInv, MethodInv, ClosureInv

\* A reference count of a copy is changed.
LEMMA RefsExcept ==
  ASSUME NEW cs \in Seq(Copy), NEW n \in 1 .. Len(cs), NEW v \in Nat
  PROVE  LET ds == [cs EXCEPT ![n].refs = v] IN
         /\ ds \in Seq(Copy) /\ Len(ds) = Len(cs)
         /\ \A m \in 1 .. Len(cs) :
              /\ ds[m].of = cs[m].of
              /\ ds[m].refs = IF m = n THEN v ELSE cs[m].refs
<1> DEFINE e == [cs[n] EXCEPT !.refs = v]
           ds == [cs EXCEPT ![n] = e]
<1>1. cs[n] \in Copy
  BY ElementOfSeq
<1>2. e \in Copy /\ e.of = cs[n].of /\ e.refs = v
  BY <1>1 DEF Copy
<1> HIDE DEF e
<1>3. /\ ds \in Seq(Copy) /\ Len(ds) = Len(cs)
      /\ \A m \in 1 .. Len(cs) : ds[m] = IF m = n THEN e ELSE cs[m]
  BY <1>2, ExceptSeq
<1>4. [cs EXCEPT ![n].refs = v] = ds
  BY DEF e
<1> QED
  BY <1>2, <1>3, <1>4

LEMMA DeclareKeeps ==
  ASSUME CopiesInv, ~Reuse, NEW a \in Addresses, NEW k \in Kinds, Declare(a, k)
  PROVE  CopiesInv'
<1>1. /\ Len(kind) < MaxFunctions /\ resolve[a] = 0
      /\ kind' = Append(kind, k)
      /\ text' = [text EXCEPT ![a] = Len(kind) + 1]
      /\ UNCHANGED <<resolve, copies, method, second, wanted, named, closure>>
  BY DEF Declare
<1>2. /\ kind' \in Seq(Kinds) /\ Len(kind) \in Nat /\ Len(kind') = Len(kind) + 1
  BY <1>1, AppendProperties, LenProperties DEF CopiesInv, TypeOK
<1>3. Len(kind) + 1 \in Functions /\ Len(kind') <= MaxFunctions
  BY <1>1, <1>2, LimitsAssumption DEF Functions
<1>4. TypeOK'
  BY <1>1, <1>2, <1>3 DEF CopiesInv, TypeOK
<1>5. RefsExact' /\ MethodInv' /\ ClosureInv'
  BY <1>1 DEF CopiesInv, RefsExact, Users, MethodInv, ClosureInv
<1>6. CacheInv'
  BY <1>1 DEF CopiesInv, TypeOK, CacheInv
<1> QED
  BY <1>4, <1>5, <1>6 DEF CopiesInv

LEMMA OwnerEndsKeeps ==
  ASSUME CopiesInv, OwnerEnds
  PROVE  CopiesInv'
<1>1. /\ text' = [a \in Addresses |-> 0]
      /\ UNCHANGED <<kind, resolve, copies, method, second, wanted, named, closure>>
  BY DEF OwnerEnds
<1>2. TypeOK'
  BY <1>1 DEF CopiesInv, TypeOK
<1>3. RefsExact' /\ MethodInv' /\ ClosureInv'
  BY <1>1 DEF CopiesInv, RefsExact, Users, MethodInv, ClosureInv
<1>4. CacheInv'
  BY <1>1 DEF CopiesInv, CacheInv
<1> QED
  BY <1>2, <1>3, <1>4 DEF CopiesInv

\* What Hit and Miss have in common: the class gets a copy n of the function at
\* a, which then has one reference more.
LEMMA CopyMethodKeeps ==
  ASSUME CopiesInv, NEW c \in Classes, NEW a \in Addresses, CopyMethod(c, a)
  PROVE  CopiesInv'
<1> DEFINE n == resolve'[a]
           f == text[a]
<1>1. /\ wanted[c] = 0 /\ f # 0 /\ (Hit(a) \/ Miss(a))
      /\ method' = [method EXCEPT ![c] = n]
      /\ wanted' = [wanted EXCEPT ![c] = f]
      /\ UNCHANGED <<text, kind, second, named, closure>>
  BY DEF CopyMethod, owned
<1>2. /\ TypeOK /\ copies \in Seq(Copy) /\ f \in Functions /\ method[c] = 0 /\ second[c] = 0
  BY <1>1 DEF CopiesInv, TypeOK, Copy, MethodInv
<1>3. /\ Len(copies) \in Nat /\ DOMAIN copies = 1 .. Len(copies)
      /\ \A m \in 1 .. Len(copies) : copies[m].of \in Functions /\ copies[m].refs \in Nat
      /\ \A m : Users(method, m) \in Nat /\ Users(second, m) \in Nat /\ Users(named, m) \in Nat /\ Users(closure, m) \in Nat
  BY <1>2, TableFacts
<1>4. /\ copies' \in Seq(Copy) /\ Len(copies') <= MaxCopies /\ Len(copies') \in Nat
      /\ Len(copies) <= Len(copies')
      /\ n \in 1 .. Len(copies') /\ copies'[n].of = f
      /\ resolve' \in [Addresses -> 0 .. Len(copies')]
      /\ \A b \in Addresses \ {a} : resolve'[b] = resolve[b]
      /\ \A m \in 1 .. Len(copies) :
           /\ copies'[m].of = copies[m].of
           /\ copies'[m].refs = copies[m].refs + (IF m = n THEN 1 ELSE 0)
      /\ \A m \in 1 .. Len(copies') : m \notin 1 .. Len(copies) => m = n /\ copies'[m].refs = 1
  <2>1. CASE Hit(a)
    <3>1. resolve[a] # 0 /\ resolve' = resolve
          /\ copies' = [copies EXCEPT ![resolve[a]].refs = copies[resolve[a]].refs + 1]
      BY <2>1 DEF Hit
    <3>2. n \in 1 .. Len(copies)
      BY <1>2, <1>3, <3>1 DEF TypeOK
    <3>3. copies[n].refs + 1 \in Nat
      BY <1>3, <3>2
    <3>4. /\ copies' \in Seq(Copy) /\ Len(copies') = Len(copies)
          /\ \A m \in 1 .. Len(copies) :
               /\ copies'[m].of = copies[m].of
               /\ copies'[m].refs = IF m = n THEN copies[n].refs + 1 ELSE copies[m].refs
      BY <1>2, <3>1, <3>2, <3>3, RefsExcept
    <3>5. copies[n].of = f
      BY <1>1, <3>1 DEF CopiesInv, CacheInv
    <3>6. \A m \in 1 .. Len(copies) :
            copies'[m].refs = copies[m].refs + (IF m = n THEN 1 ELSE 0)
      BY <1>3, <3>4
    <3>7. Len(copies) <= MaxCopies /\ resolve \in [Addresses -> 0 .. Len(copies)]
      BY <1>2 DEF TypeOK
    <3> QED
      BY <1>3, <3>1, <3>2, <3>4, <3>5, <3>6, <3>7
  <2>2. CASE Miss(a)
    <3> DEFINE e == [of |-> f, refs |-> 1]
    <3>1. /\ Len(copies) < MaxCopies /\ copies' = Append(copies, e)
          /\ resolve' = [resolve EXCEPT ![a] = Len(copies) + 1]
      BY <2>2 DEF Miss, HasRoom, New, NextCopy
    <3>2. e \in Copy /\ e.of = f /\ e.refs = 1
      BY <1>2 DEF Copy
    <3> HIDE DEF e
    <3>3. /\ copies' \in Seq(Copy) /\ Len(copies') = Len(copies) + 1
          /\ \A m \in 1 .. Len(copies) : copies'[m] = copies[m]
          /\ copies'[Len(copies) + 1] = e
      BY <1>2, <3>1, <3>2, AppendProperties
    <3>4. resolve \in [Addresses -> 0 .. Len(copies)]
      BY <1>2 DEF TypeOK
    <3>5. n = Len(copies) + 1
      BY <3>1, <3>4
    <3>6. resolve' \in [Addresses -> 0 .. Len(copies')]
      BY <1>3, <3>1, <3>3, <3>4
    <3>7. \A b \in Addresses \ {a} : resolve'[b] = resolve[b]
      BY <3>1, <3>4
    <3>8. Len(copies') <= MaxCopies /\ Len(copies') \in Nat /\ n \in 1 .. Len(copies')
      BY <1>3, <3>1, <3>3, <3>5, LimitsAssumption
    <3>9. \A m \in 1 .. Len(copies') : m \notin 1 .. Len(copies) => m = n /\ copies'[m].refs = 1
      BY <1>3, <3>2, <3>3, <3>5
    <3>10. \A m \in 1 .. Len(copies) : m # n /\ copies[m].refs + 0 = copies[m].refs
      BY <1>3, <3>5
    <3> QED
      BY <1>3, <3>2, <3>3, <3>5, <3>6, <3>7, <3>8, <3>9, <3>10
  <2> QED
    BY <1>1, <2>1, <2>2
<1> HIDE DEF n, f
<1>5. TypeOK'
  <2>1. method' \in [Classes -> 0 .. Len(copies')]
    BY <1>1, <1>2, <1>3, <1>4 DEF TypeOK
  <2>2. wanted' \in [Classes -> 0 .. MaxFunctions]
    BY <1>1, <1>2, LimitsAssumption DEF TypeOK, Functions
  <2>3. 0 .. Len(copies) \subseteq 0 .. Len(copies')
    BY <1>3, <1>4
  <2>4. /\ second' \in [Classes -> 0 .. Len(copies')]
        /\ named' \in [Places -> 0 .. Len(copies')] /\ closure' \in [Places -> 0 .. Len(copies')]
    BY <1>1, <1>2, <2>3 DEF TypeOK
  <2> QED
    BY <1>1, <1>2, <1>4, <2>1, <2>2, <2>4 DEF TypeOK, Copy
<1>6. RefsExact'
  <2> SUFFICES ASSUME NEW m \in DOMAIN copies'
               PROVE  copies'[m].refs = Users(method', m) + Users(second', m) + Users(named', m) + Users(closure', m)
    BY DEF RefsExact, Users
  <2>1. m \in 1 .. Len(copies') /\ m # 0
    BY <1>4, LenProperties
  <2>2. Users(method', m) = Users(method, m) + ((IF n = m THEN 1 ELSE 0) - (IF method[c] = m THEN 1 ELSE 0))
    <3>1. /\ DOMAIN method = Classes /\ DOMAIN method' = Classes /\ method'[c] = n
          /\ \A y \in Classes \ {c} : method'[y] = method[y]
      BY <1>1, <1>2 DEF TypeOK
    <3>2. Users(method', m)
            = Users(method, m) + ((IF method'[c] = m THEN 1 ELSE 0) - (IF method[c] = m THEN 1 ELSE 0))
      BY <3>1, FiniteAssumption, UsersExcept
    <3> QED
      BY <3>1, <3>2
  <2>3. Users(method', m) = Users(method, m) + (IF m = n THEN 1 ELSE 0)
    BY <1>2, <1>3, <2>1, <2>2
  <2>4. CASE m \in 1 .. Len(copies)
    <3>1. copies[m].refs = Users(method, m) + Users(second, m) + Users(named, m) + Users(closure, m)
      BY <1>3, <2>4 DEF CopiesInv, RefsExact
    <3>2. copies'[m].refs = copies[m].refs + (IF m = n THEN 1 ELSE 0)
      BY <1>4, <2>4
    <3>3. second' = second /\ named' = named /\ closure' = closure
      BY <1>1
    <3>4. /\ Users(method, m) \in Nat /\ Users(second, m) \in Nat
          /\ Users(named, m) \in Nat /\ Users(closure, m) \in Nat
      BY <1>3
    <3>5. copies'[m].refs = Users(method', m) + Users(second, m) + Users(named, m) + Users(closure, m)
      BY <2>3, <3>1, <3>2, <3>4
    <3> QED
      BY <3>3, <3>5
  <2>5. CASE m \notin 1 .. Len(copies)
    <3>1. m = n /\ copies'[m].refs = 1
      BY <1>4, <2>1, <2>5
    <3>2. /\ \A x \in Classes : method[x] # m /\ second[x] # m
          /\ \A x \in Places : named[x] # m /\ closure[x] # m
      BY <1>2, <2>1, <2>5 DEF TypeOK
    <3>3. Users(method, m) = 0 /\ Users(second, m) = 0 /\ Users(named, m) = 0 /\ Users(closure, m) = 0
      BY <1>2, <3>2, FiniteAssumption, UsersFacts DEF TypeOK
    <3> QED
      BY <1>1, <2>3, <3>1, <3>3
  <2> QED
    BY <2>4, <2>5
<1>7. CacheInv'
  <2>1. ASSUME NEW b \in Addresses, resolve'[b] # 0
        PROVE  /\ \E x \in Classes : method'[x] = resolve'[b]
               /\ text'[b] # 0 => copies'[resolve'[b]].of = text'[b]
    <3>1. CASE b = a
      BY <1>1, <1>2, <1>4, <3>1 DEF TypeOK, n, f
    <3>2. CASE b # a
      <4>1. resolve'[b] = resolve[b] /\ resolve[b] \in 1 .. Len(copies)
        BY <1>2, <1>3, <1>4, <2>1, <3>2 DEF TypeOK
      <4>2. PICK x \in Classes : method[x] = resolve[b]
        BY <2>1, <4>1 DEF CopiesInv, CacheInv
      <4>3. x # c /\ method'[x] = resolve'[b]
        BY <1>1, <1>2, <2>1, <4>1, <4>2 DEF TypeOK
      <4>4. text[b] # 0 => copies[resolve[b]].of = text[b]
        BY <2>1, <4>1 DEF CopiesInv, CacheInv
      <4> QED
        BY <1>1, <1>4, <4>1, <4>3, <4>4
    <3> QED
      BY <3>1, <3>2
  <2> QED
    BY <2>1 DEF CacheInv
<1>8. MethodInv'
  <2>1. ASSUME NEW x \in Classes
        PROVE  /\ method'[x] # 0 => copies'[method'[x]].of = wanted'[x]
               /\ wanted'[x] = 0 => method'[x] = 0
               /\ second'[x] \in {0, method'[x]}
    <3>1. CASE x = c
      BY <1>1, <1>2, <1>4, <3>1 DEF TypeOK
    <3>2. CASE x # c
      <4>1. /\ method'[x] = method[x] /\ wanted'[x] = wanted[x] /\ second'[x] = second[x]
            /\ method[x] \in 0 .. Len(copies)
        BY <1>1, <1>2, <3>2 DEF TypeOK
      <4>2. /\ method[x] # 0 => copies[method[x]].of = wanted[x]
            /\ wanted[x] = 0 => method[x] = 0
            /\ second[x] \in {0, method[x]}
        BY DEF CopiesInv, MethodInv
      <4>3. method[x] # 0 => method[x] \in 1 .. Len(copies)
        BY <1>3, <4>1
      <4> QED
        BY <1>4, <4>1, <4>2, <4>3
    <3> QED
      BY <3>1, <3>2
  <2> QED
    BY <2>1 DEF MethodInv
<1>9. ClosureInv'
  BY <1>1 DEF CopiesInv, ClosureInv
<1> QED
  BY <1>5, <1>6, <1>7, <1>8, <1>9 DEF CopiesInv

LEMMA ShareMethodKeeps ==
  ASSUME CopiesInv, NEW c \in Classes, NEW a \in Addresses, ShareMethod(c, a)
  PROVE  CopiesInv'
<1>1. /\ wanted[c] = 0 /\ text[a] # 0
      /\ wanted' = [wanted EXCEPT ![c] = text[a]]
      /\ UNCHANGED <<text, kind, resolve, copies, method, second, named, closure>>
  BY DEF ShareMethod, owned
<1>2. method[c] = 0 /\ text[a] \in 0 .. MaxFunctions
  BY <1>1, LimitsAssumption DEF CopiesInv, MethodInv, TypeOK, Functions
<1>3. TypeOK'
  BY <1>1, <1>2 DEF CopiesInv, TypeOK
<1>4. RefsExact' /\ CacheInv' /\ ClosureInv'
  BY <1>1 DEF CopiesInv, RefsExact, Users, CacheInv, ClosureInv
<1>5. MethodInv'
  BY <1>1, <1>2 DEF CopiesInv, TypeOK, MethodInv
<1> QED
  BY <1>3, <1>4, <1>5 DEF CopiesInv

\* The second copy of a class takes a reference, ...
LEMMA CopyAgainKeeps ==
  ASSUME CopiesInv, NEW c \in Classes, NEW a \in Addresses, CopyAgain(c, a)
  PROVE  CopiesInv'
<1> DEFINE n == method[c]
           v == copies[n].refs
<1>1. /\ n # 0 /\ second[c] = 0
      /\ copies' = [copies EXCEPT ![n].refs = v + 1]
      /\ second' = [second EXCEPT ![c] = n]
      /\ UNCHANGED <<text, kind, resolve, method, wanted, named, closure>>
  BY DEF CopyAgain, Hit, owned
<1>2. /\ TypeOK /\ copies \in Seq(Copy)
      /\ Len(copies) \in Nat /\ DOMAIN copies = 1 .. Len(copies)
      /\ \A m : Users(method, m) \in Nat /\ Users(second, m) \in Nat /\ Users(named, m) \in Nat /\ Users(closure, m) \in Nat
  BY TableFacts DEF CopiesInv, TypeOK, Copy
<1>3. n \in 1 .. Len(copies)
  BY <1>1, <1>2 DEF TypeOK
<1>4. v + 1 \in Nat
  <2>1. v \in Nat
    BY <1>2, <1>3, TableFacts
  <2> QED
    BY <2>1
<1>5. /\ copies' \in Seq(Copy) /\ Len(copies') = Len(copies)
      /\ \A m \in 1 .. Len(copies) :
           /\ copies'[m].of = copies[m].of
           /\ copies'[m].refs = IF m = n THEN v + 1 ELSE copies[m].refs
  BY <1>1, <1>2, <1>3, <1>4, RefsExcept
<1>6. DOMAIN copies' = 1 .. Len(copies)
  BY <1>5, LenProperties
<1>7. TypeOK'
  BY <1>1, <1>2, <1>3, <1>5 DEF TypeOK, Copy
<1> HIDE DEF v, n
<1>8. RefsExact'
  <2> SUFFICES ASSUME NEW m \in 1 .. Len(copies)
               PROVE  copies'[m].refs = Users(method, m) + Users(second', m) + Users(named, m) + Users(closure, m)
    BY <1>1, <1>6 DEF RefsExact, Users
  <2>1. Users(second', m) = Users(second, m) + (IF n = m THEN 1 ELSE 0)
    <3>1. /\ DOMAIN second = Classes /\ DOMAIN second' = Classes /\ second'[c] = n
          /\ \A y \in Classes \ {c} : second'[y] = second[y]
      BY <1>1, <1>2 DEF TypeOK
    <3>2. \A k : Users(second', k)
            = Users(second, k) + ((IF second'[c] = k THEN 1 ELSE 0) - (IF second[c] = k THEN 1 ELSE 0))
      BY <3>1, FiniteAssumption, UsersExcept
    <3>3. second[c] # m
      BY <1>1
    <3>4. Users(second', m) = Users(second, m) + ((IF n = m THEN 1 ELSE 0) - 0)
      BY <3>1, <3>2, <3>3
    <3> QED
      BY <1>2, <3>4
  <2>2. copies[m].refs = Users(method, m) + Users(second, m) + Users(named, m) + Users(closure, m)
    BY <1>2 DEF CopiesInv, RefsExact
  <2>3. /\ Users(method, m) \in Nat /\ Users(second, m) \in Nat
        /\ Users(named, m) \in Nat /\ Users(closure, m) \in Nat
    BY <1>2
  <2>4. CASE m = n
    <3>1. copies'[m].refs = copies[m].refs + 1 /\ Users(second', m) = Users(second, m) + 1
      BY <1>5, <2>1, <2>4 DEF v
    <3> QED
      BY <2>2, <2>3, <3>1
  <2>5. CASE m # n
    <3>1. copies'[m].refs = copies[m].refs /\ Users(second', m) = Users(second, m)
      BY <1>5, <2>1, <2>3, <2>5
    <3> QED
      BY <2>2, <3>1
  <2> QED
    BY <2>4, <2>5
<1>9. /\ \A x \in Classes : method[x] # 0 => method[x] \in 1 .. Len(copies)
      /\ \A b \in Addresses : resolve[b] # 0 => resolve[b] \in 1 .. Len(copies)
  BY <1>2 DEF TypeOK
<1>10. CacheInv' /\ ClosureInv'
  BY <1>1, <1>5, <1>9 DEF CopiesInv, CacheInv, ClosureInv
<1>11. MethodInv'
  <2>1. \A x \in Classes : second'[x] \in {0, method[x]}
    BY <1>1, <1>2 DEF CopiesInv, MethodInv, TypeOK, n
  <2> QED
    BY <1>1, <1>5, <1>9, <2>1 DEF CopiesInv, MethodInv
<1> QED
  BY <1>7, <1>8, <1>10, <1>11 DEF CopiesInv

\* ... and what it replaces gives one back.
LEMMA ReplaceClassKeeps ==
  ASSUME CopiesInv, NEW c \in Classes, ReplaceClass(c)
  PROVE  CopiesInv'
<1> DEFINE n == method[c]
           v == copies[n].refs
<1>0. second[c] = n /\ n # 0
  BY DEF CopiesInv, MethodInv, ReplaceClass
<1>1. /\ copies' = [copies EXCEPT ![n].refs = v - 1]
      /\ method' = method
      /\ second' = [second EXCEPT ![c] = 0]
      /\ UNCHANGED <<text, kind, resolve, wanted, named, closure>>
  BY <1>0 DEF ReplaceClass, owned, Unreferenced, CopiesInv, TypeOK
<1>2. /\ TypeOK /\ copies \in Seq(Copy)
      /\ Len(copies) \in Nat /\ DOMAIN copies = 1 .. Len(copies)
      /\ \A m : Users(method, m) \in Nat /\ Users(second, m) \in Nat /\ Users(named, m) \in Nat /\ Users(closure, m) \in Nat
  BY TableFacts DEF CopiesInv, TypeOK, Copy
<1>3. n \in 1 .. Len(copies)
  BY <1>0, <1>2 DEF TypeOK
<1>4. v - 1 \in Nat
  <2>1. Users(second, n) > 0
    BY <1>0, <1>2, FiniteAssumption, UsersFacts DEF TypeOK
  <2>2. v = Users(method, n) + Users(second, n) + Users(named, n) + Users(closure, n)
    BY <1>2, <1>3 DEF CopiesInv, RefsExact
  <2> QED
    BY <1>2, <2>1, <2>2
<1>5. /\ copies' \in Seq(Copy) /\ Len(copies') = Len(copies)
      /\ \A m \in 1 .. Len(copies) :
           /\ copies'[m].of = copies[m].of
           /\ copies'[m].refs = IF m = n THEN v - 1 ELSE copies[m].refs
  BY <1>1, <1>2, <1>3, <1>4, RefsExcept
<1>6. DOMAIN copies' = 1 .. Len(copies)
  BY <1>5, LenProperties
<1>7. TypeOK'
  BY <1>1, <1>2, <1>5 DEF TypeOK, Copy
<1> HIDE DEF v, n
<1>8. RefsExact'
  <2> SUFFICES ASSUME NEW m \in 1 .. Len(copies)
               PROVE  copies'[m].refs = Users(method, m) + Users(second', m) + Users(named, m) + Users(closure, m)
    BY <1>1, <1>6 DEF RefsExact, Users
  <2>1. Users(second', m) = Users(second, m) - (IF n = m THEN 1 ELSE 0)
    <3>1. /\ DOMAIN second = Classes /\ DOMAIN second' = Classes /\ second'[c] = 0
          /\ \A y \in Classes \ {c} : second'[y] = second[y]
      BY <1>1, <1>2 DEF TypeOK
    <3>2. \A k : Users(second', k)
            = Users(second, k) + ((IF second'[c] = k THEN 1 ELSE 0) - (IF second[c] = k THEN 1 ELSE 0))
      BY <3>1, FiniteAssumption, UsersExcept
    <3>3. second'[c] # m
      BY <3>1
    <3>4. Users(second', m) = Users(second, m) + (0 - (IF n = m THEN 1 ELSE 0))
      BY <1>0, <3>2, <3>3
    <3> QED
      BY <1>2, <3>4
  <2>2. copies[m].refs = Users(method, m) + Users(second, m) + Users(named, m) + Users(closure, m)
    BY <1>2 DEF CopiesInv, RefsExact
  <2>3. /\ Users(method, m) \in Nat /\ Users(second, m) \in Nat
        /\ Users(named, m) \in Nat /\ Users(closure, m) \in Nat
    BY <1>2
  <2>4. CASE m = n
    <3>1. copies'[m].refs = copies[m].refs - 1 /\ Users(second', m) = Users(second, m) - 1
      BY <1>5, <2>1, <2>4 DEF v
    <3> QED
      BY <2>2, <2>3, <3>1
  <2>5. CASE m # n
    <3>1. copies'[m].refs = copies[m].refs /\ Users(second', m) = Users(second, m)
      BY <1>5, <2>1, <2>3, <2>5
    <3> QED
      BY <2>2, <3>1
  <2> QED
    BY <2>4, <2>5
<1>9. /\ \A x \in Classes : method[x] # 0 => method[x] \in 1 .. Len(copies)
      /\ \A b \in Addresses : resolve[b] # 0 => resolve[b] \in 1 .. Len(copies)
  BY <1>2 DEF TypeOK
<1>10. CacheInv' /\ ClosureInv'
  BY <1>1, <1>5, <1>9 DEF CopiesInv, CacheInv, ClosureInv
<1>11. MethodInv'
  <2>1. \A x \in Classes : second'[x] \in {0, method[x]}
    BY <1>1, <1>2 DEF CopiesInv, MethodInv, TypeOK
  <2> QED
    BY <1>1, <1>5, <1>9, <2>1 DEF CopiesInv, MethodInv
<1> QED
  BY <1>7, <1>8, <1>10, <1>11 DEF CopiesInv

LEMMA FreeClosureKeeps ==
  ASSUME CopiesInv, NEW p \in Places, FreeClosure(p)
  PROVE  CopiesInv'
<1> DEFINE n == closure[p]
           v == copies[n].refs
<1>1. /\ n # 0
      /\ copies' = [copies EXCEPT ![n].refs = v - 1]
      /\ closure' = [closure EXCEPT ![p] = 0]
      /\ UNCHANGED <<text, kind, resolve, method, second, wanted, named>>
  BY DEF FreeClosure, owned, Unreferenced
<1>2. /\ TypeOK /\ copies \in Seq(Copy)
      /\ Len(copies) \in Nat /\ DOMAIN copies = 1 .. Len(copies)
      /\ \A m : Users(method, m) \in Nat /\ Users(second, m) \in Nat /\ Users(named, m) \in Nat /\ Users(closure, m) \in Nat
  BY TableFacts DEF CopiesInv, TypeOK, Copy
<1>3. n \in 1 .. Len(copies)
  BY <1>1, <1>2 DEF TypeOK
<1>4. v - 1 \in Nat
  <2>1. Users(closure, n) > 0
    BY <1>2, FiniteAssumption, UsersFacts DEF TypeOK
  <2>2. v = Users(method, n) + Users(second, n) + Users(named, n) + Users(closure, n)
    BY <1>2, <1>3 DEF CopiesInv, RefsExact
  <2> QED
    BY <1>2, <2>1, <2>2
<1>5. /\ copies' \in Seq(Copy) /\ Len(copies') = Len(copies)
      /\ \A m \in 1 .. Len(copies) :
           /\ copies'[m].of = copies[m].of
           /\ copies'[m].refs = IF m = n THEN v - 1 ELSE copies[m].refs
  BY <1>1, <1>2, <1>3, <1>4, RefsExcept
<1>6. DOMAIN copies' = 1 .. Len(copies)
  BY <1>5, LenProperties
<1>7. TypeOK'
  BY <1>1, <1>2, <1>5 DEF TypeOK, Copy
<1> HIDE DEF v, n
<1>8. RefsExact'
  <2> SUFFICES ASSUME NEW m \in 1 .. Len(copies)
               PROVE  copies'[m].refs = Users(method, m) + Users(second, m) + Users(named, m) + Users(closure', m)
    BY <1>1, <1>6 DEF RefsExact, Users
  <2>1. Users(closure', m) = Users(closure, m) - (IF n = m THEN 1 ELSE 0)
    <3>1. /\ DOMAIN closure = Places /\ DOMAIN closure' = Places /\ closure'[p] = 0
          /\ \A y \in Places \ {p} : closure'[y] = closure[y]
      BY <1>1, <1>2 DEF TypeOK
    <3>2. \A k : Users(closure', k)
            = Users(closure, k) + ((IF closure'[p] = k THEN 1 ELSE 0) - (IF closure[p] = k THEN 1 ELSE 0))
      BY <3>1, FiniteAssumption, UsersExcept
    <3>3. closure'[p] # m
      BY <3>1
    <3>4. Users(closure', m) = Users(closure, m) + (0 - (IF n = m THEN 1 ELSE 0))
      BY <3>2, <3>3 DEF n
    <3> QED
      BY <1>2, <3>4
  <2>2. copies[m].refs = Users(method, m) + Users(second, m) + Users(named, m) + Users(closure, m)
    BY <1>2 DEF CopiesInv, RefsExact
  <2> QED
    BY <1>2, <1>5, <2>1, <2>2 DEF v
<1>9. /\ \A x \in Classes : method[x] # 0 => method[x] \in 1 .. Len(copies)
      /\ \A b \in Addresses : resolve[b] # 0 => resolve[b] \in 1 .. Len(copies)
  BY <1>2 DEF TypeOK
<1>10. CacheInv' /\ MethodInv'
  BY <1>1, <1>5, <1>9 DEF CopiesInv, CacheInv, MethodInv
<1>11. ClosureInv'
  BY <1>1, <1>2 DEF CopiesInv, ClosureInv, TypeOK
<1> QED
  BY <1>7, <1>8, <1>10, <1>11 DEF CopiesInv

\* A closure is read: the new copy is used twice, what was filed once less.
LEMMA ReadClosureKeeps ==
  ASSUME CopiesInv, NEW p \in Places, NEW a \in Addresses, ReadClosure(p, a)
  PROVE  CopiesInv'
<1> DEFINE n == Len(copies) + 1
           o == named[p]
           f == text[a]
           es == Append(copies, [of |-> f, refs |-> 1])
           bs == [es EXCEPT ![n].refs = es[n].refs + 1]
<1>1. /\ closure[p] = 0 /\ f # 0 /\ Len(copies) < MaxCopies
      /\ copies' = Unreferenced(bs, o)
      /\ named' = [named EXCEPT ![p] = n]
      /\ closure' = [closure EXCEPT ![p] = n]
      /\ UNCHANGED <<text, kind, resolve, method, second, wanted>>
  BY DEF ReadClosure, owned, HasRoom, New, NextCopy
<1>2. /\ TypeOK /\ copies \in Seq(Copy) /\ f \in Functions
      /\ Len(copies) \in Nat /\ DOMAIN copies = 1 .. Len(copies)
  BY <1>1, TableFacts DEF CopiesInv, TypeOK, Copy
<1>3. /\ \A m \in 1 .. Len(copies) : copies[m].of \in Functions /\ copies[m].refs \in Nat
      /\ \A m : Users(method, m) \in Nat /\ Users(second, m) \in Nat /\ Users(named, m) \in Nat /\ Users(closure, m) \in Nat
  BY <1>2, TableFacts
<1>4. n \in Nat /\ n \notin 1 .. Len(copies) /\ n \in 1 .. n /\ o \in 0 .. Len(copies)
  BY <1>2 DEF TypeOK
<1>5. /\ es \in Seq(Copy) /\ Len(es) = n /\ es[n].refs = 1
      /\ \A m \in 1 .. Len(copies) : es[m] = copies[m]
  <2> DEFINE e == [of |-> f, refs |-> 1]
  <2>1. e \in Copy /\ e.refs = 1
    BY <1>2 DEF Copy
  <2> HIDE DEF e
  <2>2. /\ Append(copies, e) \in Seq(Copy) /\ Len(Append(copies, e)) = Len(copies) + 1
        /\ \A m \in 1 .. Len(copies) : Append(copies, e)[m] = copies[m]
        /\ Append(copies, e)[Len(copies) + 1] = e
    BY <1>2, <2>1, AppendProperties
  <2> QED
    BY <2>1, <2>2 DEF e
<1> HIDE DEF es
<1>6. /\ bs \in Seq(Copy) /\ Len(bs) = n /\ bs[n].refs = 2
      /\ \A m \in 1 .. Len(copies) : bs[m].of = copies[m].of /\ bs[m].refs = copies[m].refs
  <2>1. es[n].refs + 1 = 2 /\ es[n].refs + 1 \in Nat /\ n \in 1 .. Len(es)
    BY <1>4, <1>5
  <2>2. /\ bs \in Seq(Copy) /\ Len(bs) = Len(es)
        /\ \A m \in 1 .. Len(es) :
             /\ bs[m].of = es[m].of
             /\ bs[m].refs = IF m = n THEN es[n].refs + 1 ELSE es[m].refs
    BY <1>5, <2>1, RefsExcept
  <2> HIDE DEF bs
  <2>3. \A m \in 1 .. Len(copies) : m \in 1 .. Len(es) /\ m # n
    BY <1>2, <1>5 DEF n
  <2> QED
    BY <1>5, <2>1, <2>2, <2>3
<1> HIDE DEF bs
<1>7. o # 0 => copies[o].refs - 1 \in Nat
  <2> SUFFICES ASSUME o # 0 PROVE copies[o].refs - 1 \in Nat
    OBVIOUS
  <2>1. o \in 1 .. Len(copies)
    BY <1>2, <1>4
  <2>2. Users(named, o) > 0
    BY <1>2, FiniteAssumption, UsersFacts DEF TypeOK
  <2>3. copies[o].refs = Users(method, o) + Users(second, o) + Users(named, o) + Users(closure, o)
    BY <1>2, <2>1 DEF CopiesInv, RefsExact
  <2> QED
    BY <1>3, <2>2, <2>3
<1>8. /\ copies' \in Seq(Copy) /\ Len(copies') = n /\ copies'[n].refs = 2
      /\ \A m \in 1 .. Len(copies) :
           /\ copies'[m].of = copies[m].of
           /\ copies'[m].refs = copies[m].refs - (IF m = o THEN 1 ELSE 0)
  <2>1. CASE o = 0
    <3>1. copies' = bs
      BY <1>1, <2>1 DEF Unreferenced
    <3>2. \A m \in 1 .. Len(copies) : m # o
      BY <2>1
    <3> QED
      BY <1>3, <1>6, <3>1, <3>2
  <2>2. CASE o # 0
    <3>1. o \in 1 .. Len(copies) /\ o \in 1 .. Len(bs)
      BY <1>2, <1>4, <1>6, <2>2
    <3>2. bs[o].refs = copies[o].refs
      BY <1>6, <3>1
    <3>3. copies' = [bs EXCEPT ![o].refs = copies[o].refs - 1]
      BY <1>1, <2>2, <3>2 DEF Unreferenced
    <3>4. /\ copies' \in Seq(Copy) /\ Len(copies') = Len(bs)
          /\ \A m \in 1 .. Len(bs) :
               /\ copies'[m].of = bs[m].of
               /\ copies'[m].refs = IF m = o THEN copies[o].refs - 1 ELSE bs[m].refs
      BY <1>6, <1>7, <2>2, <3>1, <3>3, RefsExcept
    <3>5. n \in 1 .. Len(bs) /\ n # o /\ \A m \in 1 .. Len(copies) : m \in 1 .. Len(bs)
      BY <1>2, <1>4, <1>6, <3>1
    <3> QED
      BY <1>3, <1>6, <3>4, <3>5
  <2> QED
    BY <2>1, <2>2
<1>9. DOMAIN copies' = 1 .. n
  BY <1>8, LenProperties
<1>10. 0 .. Len(copies) \subseteq 0 .. n /\ n \in 0 .. n
  BY <1>2
<1>11. TypeOK'
  <2>1. /\ resolve' \in [Addresses -> 0 .. n] /\ method' \in [Classes -> 0 .. n]
        /\ second' \in [Classes -> 0 .. n]
        /\ named' \in [Places -> 0 .. n] /\ closure' \in [Places -> 0 .. n]
    BY <1>1, <1>2, <1>10 DEF TypeOK
  <2>2. n <= MaxCopies
    BY <1>1, <1>2, LimitsAssumption
  <2> QED
    BY <1>1, <1>2, <1>8, <2>1, <2>2 DEF TypeOK, Copy
<1> HIDE DEF n, o
<1>12. /\ \A x \in Classes : method[x] # n /\ second[x] # n
       /\ \A x \in Places : named[x] # n /\ closure[x] # n
  BY <1>2 DEF TypeOK, n
<1>13. RefsExact'
  <2>0. method' = method /\ second' = second
    BY <1>1
  <2> SUFFICES ASSUME NEW m \in 1 .. n
               PROVE  copies'[m].refs = Users(method, m) + Users(second, m) + Users(named', m) + Users(closure', m)
    BY <1>9, <2>0 DEF RefsExact, Users
  <2>1. /\ DOMAIN closure = Places /\ DOMAIN closure' = Places /\ closure'[p] = n
        /\ \A y \in Places \ {p} : closure'[y] = closure[y]
        /\ DOMAIN named = Places /\ DOMAIN named' = Places /\ named'[p] = n
        /\ \A y \in Places \ {p} : named'[y] = named[y]
    BY <1>1, <1>2 DEF TypeOK
  <2>2. \A k : Users(closure', k)
          = Users(closure, k) + ((IF closure'[p] = k THEN 1 ELSE 0) - (IF closure[p] = k THEN 1 ELSE 0))
    BY <2>1, FiniteAssumption, UsersExcept
  <2>3. \A k : Users(named', k)
          = Users(named, k) + ((IF named'[p] = k THEN 1 ELSE 0) - (IF named[p] = k THEN 1 ELSE 0))
    BY <2>1, FiniteAssumption, UsersExcept
  <2>4. closure[p] # m
    BY <1>1
  <2>5. /\ Users(closure', m) = Users(closure, m) + ((IF n = m THEN 1 ELSE 0) - 0)
        /\ Users(named', m) = Users(named, m) + ((IF n = m THEN 1 ELSE 0) - (IF o = m THEN 1 ELSE 0))
    BY <2>1, <2>2, <2>3, <2>4 DEF o
  <2>6. CASE m = n
    <3>1. Users(method, n) = 0 /\ Users(second, n) = 0 /\ Users(named, n) = 0 /\ Users(closure, n) = 0
      BY <1>2, <1>12, FiniteAssumption, UsersFacts DEF TypeOK
    <3>2. o # n
      BY <1>12 DEF o
    <3> QED
      BY <1>8, <2>5, <2>6, <3>1, <3>2
  <2>7. CASE m # n
    <3>1. m \in 1 .. Len(copies)
      BY <1>2, <2>7 DEF n
    <3>2. copies[m].refs = Users(method, m) + Users(second, m) + Users(named, m) + Users(closure, m)
      BY <1>2, <3>1 DEF CopiesInv, RefsExact
    <3>3. copies'[m].refs = copies[m].refs - (IF m = o THEN 1 ELSE 0)
      BY <1>8, <3>1
    <3>4. /\ Users(method, m) \in Nat /\ Users(second, m) \in Nat /\ Users(named, m) \in Nat /\ Users(closure, m) \in Nat
          /\ Users(closure', m) = Users(closure, m)
      BY <1>3, <2>5, <2>7
    <3>5. CASE m = o
      <4>1. /\ Users(named', m) = Users(named, m) - 1
            /\ copies'[m].refs = copies[m].refs - 1
        <5>1. Users(named', m) = Users(named, m) + (0 - 1)
          BY <2>5, <2>7, <3>5
        <5> QED
          BY <3>3, <3>4, <3>5, <5>1
      <4> QED
        BY <3>2, <3>4, <4>1
    <3>6. CASE m # o
      <4>1. Users(named', m) = Users(named, m) + (0 - 0)
        BY <2>5, <2>7, <3>6
      <4>2. copies'[m].refs = copies[m].refs - 0
        BY <3>3, <3>6
      <4> QED
        BY <3>2, <3>4, <4>1, <4>2
    <3> QED
      BY <3>5, <3>6
  <2> QED
    BY <2>6, <2>7
<1>14. /\ \A x \in Classes : method[x] # 0 => method[x] \in 1 .. Len(copies)
       /\ \A b \in Addresses : resolve[b] # 0 => resolve[b] \in 1 .. Len(copies)
  BY <1>2 DEF TypeOK
<1>15. CacheInv' /\ MethodInv'
  BY <1>1, <1>8, <1>14 DEF CopiesInv, CacheInv, MethodInv
<1>16. ClosureInv'
  BY <1>1, <1>2, <1>12 DEF CopiesInv, ClosureInv, TypeOK
<1> QED
  BY <1>11, <1>13, <1>15, <1>16 DEF CopiesInv

\* A closure is filed: the new copy is used once.
LEMMA PrepareClosureKeeps ==
  ASSUME CopiesInv, NEW p \in Places, NEW a \in Addresses, PrepareClosure(p, a)
  PROVE  CopiesInv'
<1> DEFINE n == Len(copies) + 1
           f == text[a]
<1>1. /\ named[p] = 0 /\ f # 0 /\ Len(copies) < MaxCopies
      /\ copies' = Append(copies, [of |-> f, refs |-> 1])
      /\ named' = [named EXCEPT ![p] = n]
      /\ UNCHANGED <<text, kind, resolve, method, second, wanted, closure>>
  BY DEF PrepareClosure, owned, HasRoom, New, NextCopy
<1>2. /\ TypeOK /\ copies \in Seq(Copy) /\ f \in Functions
      /\ Len(copies) \in Nat /\ DOMAIN copies = 1 .. Len(copies)
  BY <1>1, TableFacts DEF CopiesInv, TypeOK, Copy
<1>3. \A m : Users(method, m) \in Nat /\ Users(second, m) \in Nat /\ Users(named, m) \in Nat /\ Users(closure, m) \in Nat
  BY <1>2, TableFacts
<1>4. /\ copies' \in Seq(Copy) /\ Len(copies') = n /\ copies'[n].refs = 1
      /\ \A m \in 1 .. Len(copies) : copies'[m] = copies[m]
  <2> DEFINE e == [of |-> f, refs |-> 1]
  <2>1. e \in Copy /\ e.refs = 1
    BY <1>2 DEF Copy
  <2> HIDE DEF e
  <2>2. /\ Append(copies, e) \in Seq(Copy) /\ Len(Append(copies, e)) = Len(copies) + 1
        /\ \A m \in 1 .. Len(copies) : Append(copies, e)[m] = copies[m]
        /\ Append(copies, e)[Len(copies) + 1] = e
    BY <1>2, <2>1, AppendProperties
  <2> QED
    BY <1>1, <2>1, <2>2 DEF e
<1>5. DOMAIN copies' = 1 .. n
  BY <1>4, LenProperties
<1>6. 0 .. Len(copies) \subseteq 0 .. n /\ n \in 0 .. n
  BY <1>2
<1>7. TypeOK'
  <2>1. /\ resolve' \in [Addresses -> 0 .. n] /\ method' \in [Classes -> 0 .. n]
        /\ second' \in [Classes -> 0 .. n]
        /\ named' \in [Places -> 0 .. n] /\ closure' \in [Places -> 0 .. n]
    BY <1>1, <1>2, <1>6 DEF TypeOK
  <2>2. n <= MaxCopies
    BY <1>1, <1>2, LimitsAssumption
  <2> QED
    BY <1>1, <1>2, <1>4, <2>1, <2>2 DEF TypeOK, Copy
<1> HIDE DEF n
<1>8. /\ \A x \in Classes : method[x] # n /\ second[x] # n
      /\ \A x \in Places : named[x] # n /\ closure[x] # n
  BY <1>2 DEF TypeOK, n
<1>9. RefsExact'
  <2>0. method' = method /\ second' = second /\ closure' = closure
    BY <1>1
  <2> SUFFICES ASSUME NEW m \in 1 .. n
               PROVE  copies'[m].refs = Users(method, m) + Users(second, m) + Users(named', m) + Users(closure, m)
    BY <1>5, <2>0 DEF RefsExact, Users
  <2>1. /\ DOMAIN named = Places /\ DOMAIN named' = Places /\ named'[p] = n
        /\ \A y \in Places \ {p} : named'[y] = named[y]
    BY <1>1, <1>2 DEF TypeOK
  <2>2. \A k : Users(named', k)
          = Users(named, k) + ((IF named'[p] = k THEN 1 ELSE 0) - (IF named[p] = k THEN 1 ELSE 0))
    BY <2>1, FiniteAssumption, UsersExcept
  <2>3. named[p] # m
    BY <1>1
  <2>4. Users(named', m) = Users(named, m) + ((IF n = m THEN 1 ELSE 0) - 0)
    BY <2>1, <2>2, <2>3
  <2>5. CASE m = n
    <3>1. Users(method, n) = 0 /\ Users(second, n) = 0 /\ Users(named, n) = 0 /\ Users(closure, n) = 0
      BY <1>2, <1>8, FiniteAssumption, UsersFacts DEF TypeOK
    <3> QED
      BY <1>4, <2>4, <2>5, <3>1
  <2>6. CASE m # n
    <3>1. m \in 1 .. Len(copies)
      BY <1>2, <2>6 DEF n
    <3>2. copies[m].refs = Users(method, m) + Users(second, m) + Users(named, m) + Users(closure, m)
      BY <1>2, <3>1 DEF CopiesInv, RefsExact
    <3>3. Users(named', m) = Users(named, m)
      BY <1>3, <2>4, <2>6
    <3> QED
      BY <1>4, <3>1, <3>2, <3>3
  <2> QED
    BY <2>5, <2>6
<1>10. /\ \A x \in Classes : method[x] # 0 => method[x] \in 1 .. Len(copies)
       /\ \A b \in Addresses : resolve[b] # 0 => resolve[b] \in 1 .. Len(copies)
  BY <1>2 DEF TypeOK
<1>11. CacheInv' /\ MethodInv'
  BY <1>1, <1>4, <1>10 DEF CopiesInv, CacheInv, MethodInv
<1>12. ClosureInv'
  BY <1>1, <1>2, <1>8 DEF CopiesInv, ClosureInv, TypeOK
<1> QED
  BY <1>7, <1>9, <1>11, <1>12 DEF CopiesInv

LEMMA CopiesInvNext ==
  ASSUME ~Reuse, CopiesInv, [Next]_vars
  PROVE  CopiesInv'
<1>1. CASE OwnerEnds
  BY <1>1, OwnerEndsKeeps
<1>2. CASE \E a \in Addresses : \E k \in Kinds : Declare(a, k)
  BY <1>2, DeclareKeeps
<1>3. CASE \E a \in Addresses : \E c \in Classes : CopyMethod(c, a)
  BY <1>3, CopyMethodKeeps
<1>4. CASE \E a \in Addresses : \E c \in Classes : ShareMethod(c, a)
  BY <1>4, ShareMethodKeeps
<1>5. CASE \E a \in Addresses : \E c \in Classes : CopyAgain(c, a)
  BY <1>5, CopyAgainKeeps
<1>6. CASE \E c \in Classes : ReplaceClass(c)
  BY <1>6, ReplaceClassKeeps
<1>7. CASE \E a \in Addresses : \E p \in Places : PrepareClosure(p, a)
  BY <1>7, PrepareClosureKeeps
<1>8. CASE \E a \in Addresses : \E p \in Places : ReadClosure(p, a)
  BY <1>8, ReadClosureKeeps
<1>9. CASE \E p \in Places : FreeClosure(p)
  BY <1>9, FreeClosureKeeps
<1>10. CASE UNCHANGED vars
  <2>1. /\ text' = text /\ kind' = kind /\ resolve' = resolve /\ copies' = copies
        /\ method' = method /\ second' = second /\ wanted' = wanted /\ named' = named /\ closure' = closure
    BY <1>10 DEF vars, owned
  <2>2. TypeOK' /\ RefsExact'
    BY <2>1 DEF CopiesInv, TypeOK, RefsExact, Users
  <2>3. CacheInv' /\ MethodInv' /\ ClosureInv'
    BY <2>1 DEF CopiesInv, CacheInv, MethodInv, ClosureInv
  <2> QED
    BY <2>2, <2>3 DEF CopiesInv
<1> QED
  BY <1>1, <1>2, <1>3, <1>4, <1>5, <1>6, <1>7, <1>8, <1>9, <1>10 DEF Next

LEMMA CopiesInvSound == CopiesInv => CopiesSound
<1> SUFFICES ASSUME CopiesInv PROVE CopiesSound
  OBVIOUS
<1>1. ASSUME NEW a \in Addresses, resolve[a] # 0 PROVE copies[resolve[a]].refs > 0
  <2> DEFINE n == resolve[a]
  <2>1. \E c \in Classes : method[c] = n
    BY <1>1 DEF CopiesInv, CacheInv
  <2>2. Users(method, n) > 0
    BY <2>1, FiniteAssumption, UsersFacts DEF CopiesInv, TypeOK
  <2>3. n \in DOMAIN copies
    BY <1>1, TableFacts DEF CopiesInv, TypeOK
  <2>4. copies[n].refs = Users(method, n) + Users(second, n) + Users(named, n) + Users(closure, n)
    BY <2>3 DEF CopiesInv, RefsExact
  <2>5. Users(method, n) \in Nat /\ Users(second, n) \in Nat /\ Users(named, n) \in Nat /\ Users(closure, n) \in Nat
    BY TableFacts DEF CopiesInv
  <2> HIDE DEF n
  <2>6. copies[n].refs > 0
    BY <2>2, <2>4, <2>5
  <2> QED
    BY <2>6 DEF n
<1> QED
  BY <1>1 DEF CopiesInv, CopiesSound, MethodInv, ClosureInv

\* The copies that a thread makes of another's functions are counted exactly by
\* the class tables, the function table and the closures that use them, whoever
\* ends first; the cache of pthreads_copy_function never leads to a freed copy,
\* and gives each class its method as long as no address is used again.
THEOREM CopiesAlwaysSound ==
  ASSUME ~Reuse
  PROVE  Spec => []CopiesSound
<1>1. Init => CopiesInv
  BY CopiesInvInit
<1>2. CopiesInv /\ [Next]_vars => CopiesInv'
  BY CopiesInvNext
<1>3. CopiesInv => CopiesSound
  BY CopiesInvSound
<1> QED
  BY <1>1, <1>2, <1>3, PTL DEF Spec

-----------------------------------------------------------------------------
(* Resources.                                                              *)

Res == [owner : Threads, handle : Nat \ {0}, refs : Int,
        closed : Threads \cup {None, "program"}, freed : Threads \cup {None}]

\* The types; counts that several threads update at a time may go wrong.
OwnerTypes ==
  /\ phase \in [Threads -> {"run", "shutdown", "deactivate", "gone"}]
  /\ resource \in Seq(Res) /\ Len(resource) <= Limit
  /\ list \in [Threads -> Seq(0 .. Len(resource))]
  /\ kept \in [Threads -> SUBSET DOMAIN resource]
  /\ held \in [Threads -> SUBSET Variable]
  /\ stored \in [original : 0 .. Len(resource), ls : Threads \cup {None}]
  /\ counting \in [Threads -> [op : {"none", "store", "read", "drop"},
                               var : Variable \cup {None}, seen : Int]]

Busy(t) == counting[t].op # "none"

\* Variables, those under way included, have the thread's own resources or the
\* main thread's.
VariablesInv ==
  \A t \in Threads :
    /\ counting[t].op = "none" => counting[t] = Idle
    /\ Busy(t) => phase[t] \in {"run", "deactivate"} /\ counting[t].var \in Variable
    /\ \A v \in Variable : v \in held[t] \/ (Busy(t) /\ v = counting[t].var) =>
         /\ v.has <= Len(resource) /\ v.meant <= Len(resource)
         /\ resource[v.has].owner \in {t, Main}

\* The entries of a list are its thread's own resources, or kept ones.
EntriesInv ==
  \A t \in Threads :
    /\ \A i \in DOMAIN list[t] : list[t][i] # 0 =>
         LET r == list[t][i] IN
         /\ resource[r].owner = t \/ (r \in kept[t] /\ phase[t] = "run")
         /\ resource[r].owner = t => i = resource[r].handle
    /\ \A r \in kept[t] : resource[r].owner = Main /\ t # Main
    /\ \A r \in 1 .. Len(resource) :
         resource[r].owner = t /\ resource[r].freed = None /\ phase[t] # "gone" =>
           /\ resource[r].handle \in DOMAIN list[t]
           /\ list[t][resource[r].handle] = r

\* Only the main thread's resources are stored.
StoredInv ==
  /\ stored.original # 0 => resource[stored.original].owner = Main
  /\ stored.original = 0 => stored = Empty
  /\ \A t \in Threads : counting[t].op = "store" => resource[counting[t].var.has].owner = Main

OwnerInv == OwnerTypes /\ VariablesInv /\ EntriesInv /\ StoredInv /\ OnlyOwnerDestroys


LEMMA ResourceFacts ==
  ASSUME OwnerTypes
  PROVE  /\ Len(resource) \in Nat /\ DOMAIN resource = 1 .. Len(resource)
         /\ \A r \in 1 .. Len(resource) :
              /\ resource[r] \in Res
              /\ resource[r].owner \in Threads /\ resource[r].handle \in Nat \ {0}
              /\ resource[r].refs \in Int
         /\ \A t \in Threads :
              /\ list[t] \in Seq(0 .. Len(resource))
              /\ Len(list[t]) \in Nat /\ DOMAIN list[t] = 1 .. Len(list[t])
              /\ \A i \in DOMAIN list[t] : list[t][i] \in 0 .. Len(resource)
         /\ \A t \in Threads : kept[t] \subseteq 1 .. Len(resource)
<1>1. Len(resource) \in Nat /\ DOMAIN resource = 1 .. Len(resource)
  BY LenProperties DEF OwnerTypes
<1>2. \A r \in 1 .. Len(resource) : resource[r] \in Res
  BY ElementOfSeq DEF OwnerTypes
<1>3. \A r \in 1 .. Len(resource) :
        /\ resource[r].owner \in Threads /\ resource[r].handle \in Nat \ {0}
        /\ resource[r].refs \in Int
  BY <1>2 DEF Res
<1>4. ASSUME NEW t \in Threads
      PROVE  /\ list[t] \in Seq(0 .. Len(resource))
             /\ Len(list[t]) \in Nat /\ DOMAIN list[t] = 1 .. Len(list[t])
             /\ \A i \in DOMAIN list[t] : list[t][i] \in 0 .. Len(resource)
  <2>1. list[t] \in Seq(0 .. Len(resource))
    BY DEF OwnerTypes
  <2> QED
    BY <2>1, LenProperties, ElementOfSeq
<1>5. \A t \in Threads : kept[t] \subseteq 1 .. Len(resource)
  BY <1>1 DEF OwnerTypes
<1> QED
  BY <1>1, <1>2, <1>3, <1>4, <1>5

\* One field of one resource is changed.
LEMMA ResourceExcept ==
  ASSUME NEW rs \in Seq(Res), NEW n \in 1 .. Len(rs), NEW v \in Int, NEW ds,
         ds = [rs EXCEPT ![n].refs = v]
  PROVE  /\ ds \in Seq(Res) /\ Len(ds) = Len(rs)
         /\ \A m \in 1 .. Len(rs) :
              /\ ds[m].owner = rs[m].owner /\ ds[m].handle = rs[m].handle
              /\ ds[m].closed = rs[m].closed /\ ds[m].freed = rs[m].freed
              /\ ds[m].refs = IF m = n THEN v ELSE rs[m].refs
<1>0. rs[n] \in Res
  BY ElementOfSeq
<1> DEFINE e == [rs[n] EXCEPT !.refs = v]
<1>1. /\ e \in Res /\ e.owner = rs[n].owner /\ e.handle = rs[n].handle
      /\ e.closed = rs[n].closed /\ e.freed = rs[n].freed /\ e.refs = v
  BY <1>0 DEF Res
<1>2. ds = [rs EXCEPT ![n] = e]
  OBVIOUS
<1> HIDE DEF e
<1>3. /\ ds \in Seq(Res) /\ Len(ds) = Len(rs)
      /\ \A m \in 1 .. Len(rs) : ds[m] = IF m = n THEN e ELSE rs[m]
  BY <1>1, <1>2, ExceptSeq
<1> QED
  BY <1>1, <1>3

LEMMA ClosedExcept ==
  ASSUME NEW rs \in Seq(Res), NEW n \in 1 .. Len(rs), NEW ds,
         ds = [rs EXCEPT ![n].closed = "program"]
  PROVE  /\ ds \in Seq(Res) /\ Len(ds) = Len(rs)
         /\ \A m \in 1 .. Len(rs) :
              /\ ds[m].owner = rs[m].owner /\ ds[m].handle = rs[m].handle
              /\ ds[m].refs = rs[m].refs /\ ds[m].freed = rs[m].freed
              /\ ds[m].closed = IF m = n THEN "program" ELSE rs[m].closed
<1>0. rs[n] \in Res
  BY ElementOfSeq
<1> DEFINE e == [rs[n] EXCEPT !.closed = "program"]
<1>1. /\ e \in Res /\ e.owner = rs[n].owner /\ e.handle = rs[n].handle
      /\ e.refs = rs[n].refs /\ e.freed = rs[n].freed /\ e.closed = "program"
  BY <1>0 DEF Res
<1>2. ds = [rs EXCEPT ![n] = e]
  OBVIOUS
<1> HIDE DEF e
<1>3. /\ ds \in Seq(Res) /\ Len(ds) = Len(rs)
      /\ \A m \in 1 .. Len(rs) : ds[m] = IF m = n THEN e ELSE rs[m]
  BY <1>1, <1>2, ExceptSeq
<1> QED
  BY <1>1, <1>3

LEMMA FunctionIsSeq ==
  ASSUME NEW S, NEW n \in Nat, NEW f \in [1 .. n -> S]
  PROVE  f \in Seq(S) /\ Len(f) = n
<1>1. f \in Seq(S)
  OBVIOUS
<1>2. Len(f) \in Nat /\ DOMAIN f = 1 .. Len(f)
  BY <1>1, LenProperties
<1> QED
  BY <1>1, <1>2

\* What closing, freeing and counting make of a resource.
LEMMA RecordFacts ==
  ASSUME NEW t \in Threads, NEW e \in Res
  PROVE  /\ LET c == Closed(t, e) IN
              /\ c \in Res /\ c.owner = e.owner /\ c.handle = e.handle
              /\ c.refs = e.refs /\ c.freed = e.freed
              /\ c.closed = IF e.closed = None THEN t ELSE e.closed
         /\ LET d == Destroyed(t, e) IN
              /\ d \in Res /\ d.owner = e.owner /\ d.handle = e.handle
              /\ d.refs = e.refs /\ d.freed = t
              /\ d.closed = IF e.closed = None THEN t ELSE e.closed
         /\ \A v \in Int : LET n == [e EXCEPT !.refs = v] IN
              /\ n \in Res /\ n.owner = e.owner /\ n.handle = e.handle
              /\ n.refs = v /\ n.freed = e.freed /\ n.closed = e.closed
<1> DEFINE c == Closed(t, e)
<1>1. /\ c \in Res /\ c.owner = e.owner /\ c.handle = e.handle
      /\ c.refs = e.refs /\ c.freed = e.freed
      /\ c.closed = IF e.closed = None THEN t ELSE e.closed
  BY DEF Closed, Res
<1>2. Destroyed(t, e) = [c EXCEPT !.freed = t]
  BY DEF Destroyed
<1>3. LET d == Destroyed(t, e) IN
        /\ d \in Res /\ d.owner = e.owner /\ d.handle = e.handle
        /\ d.refs = e.refs /\ d.freed = t
        /\ d.closed = IF e.closed = None THEN t ELSE e.closed
  <2> HIDE DEF c
  <2> QED
    BY <1>1, <1>2 DEF Res
<1>4. \A v \in Int : LET n == [e EXCEPT !.refs = v] IN
        /\ n \in Res /\ n.owner = e.owner /\ n.handle = e.handle
        /\ n.refs = v /\ n.freed = e.freed /\ n.closed = e.closed
  BY DEF Res
<1> QED
  BY <1>1, <1>3, <1>4

\* The resources keep their owners and handles, and are freed and closed by
\* their owners, if at all.
SameOwners ==
  /\ resource' \in Seq(Res) /\ Len(resource') = Len(resource)
  /\ \A r \in 1 .. Len(resource) :
       /\ resource'[r].owner = resource[r].owner
       /\ resource'[r].handle = resource[r].handle
       /\ resource'[r].freed \in {resource[r].freed, resource[r].owner}
       /\ resource'[r].closed \in {resource[r].closed, "program", resource[r].owner}
       /\ resource'[r].closed = None => resource[r].closed = None

\* Nothing is freed either.
SameFreed ==
  SameOwners /\ \A r \in 1 .. Len(resource) : resource'[r].freed = resource[r].freed

LEMMA SameOwnersKeep ==
  ASSUME OwnerInv, SameOwners
  PROVE  OnlyOwnerDestroys'
<1>1. DOMAIN resource' = 1 .. Len(resource) /\ DOMAIN resource = 1 .. Len(resource)
  BY LenProperties DEF OwnerInv, OwnerTypes, SameOwners
<1>2. \A r \in 1 .. Len(resource) :
        /\ resource[r].closed \in {None, "program", resource[r].owner}
        /\ resource[r].freed \in {None, resource[r].owner}
  BY <1>1 DEF OwnerInv, OnlyOwnerDestroys
<1> QED
  BY <1>1, <1>2 DEF OnlyOwnerDestroys, SameOwners

LEMMA SameFreedKeep ==
  ASSUME OwnerInv, SameFreed, UNCHANGED <<phase, list, kept>>
  PROVE  EntriesInv' /\ OnlyOwnerDestroys'
<1>1. OnlyOwnerDestroys'
  BY SameOwnersKeep DEF SameFreed
<1>2. EntriesInv'
  <2>0. OwnerTypes /\ EntriesInv
    BY DEF OwnerInv
  <2>1. \A t \in Threads : \A i \in DOMAIN list[t] : list[t][i] \in 0 .. Len(resource)
    BY <2>0, ResourceFacts
  <2>2. \A t \in Threads : kept[t] \subseteq 1 .. Len(resource)
    BY <2>0, ResourceFacts
  <2>3. Len(resource) \in Nat
    BY <2>0, ResourceFacts
  <2>4. ASSUME NEW t \in Threads, NEW i \in DOMAIN list'[t], list'[t][i] # 0
        PROVE  LET r == list'[t][i] IN
               /\ resource'[r].owner = t \/ (r \in kept'[t] /\ phase'[t] = "run")
               /\ resource'[r].owner = t => i = resource'[r].handle
    BY <2>0, <2>1, <2>3, <2>4 DEF EntriesInv, SameFreed, SameOwners
  <2>5. ASSUME NEW t \in Threads, NEW r \in kept'[t]
        PROVE  resource'[r].owner = Main /\ t # Main
    BY <2>0, <2>2 DEF EntriesInv, SameFreed, SameOwners
  <2>6. ASSUME NEW t \in Threads, NEW r \in 1 .. Len(resource'),
               resource'[r].owner = t, resource'[r].freed = None, phase'[t] # "gone"
        PROVE  resource'[r].handle \in DOMAIN list'[t] /\ list'[t][resource'[r].handle] = r
    BY <2>0, <2>3, <2>6 DEF EntriesInv, SameFreed, SameOwners
  <2> QED
    BY <2>4, <2>5, <2>6 DEF EntriesInv
<1> QED
  BY <1>1, <1>2

LEMMA UnchangedOwners ==
  ASSUME OwnerInv, resource' = resource
  PROVE  SameFreed
  BY DEF SameFreed, SameOwners, OwnerInv, OwnerTypes


\* Variables that a step may add are of the kind VariablesInv wants.
Fits(t, v) ==
  /\ v \in Variable /\ v.has <= Len(resource) /\ v.meant <= Len(resource)
  /\ resource[v.has].owner \in {t, Main}

\* A thread that runs begins to count a reference.
LEMMA BeginKeeps ==
  ASSUME OwnerInv, NEW t \in Threads, NEW v, NEW op \in {"store", "read", "drop"},
         Fits(t, v), phase[t] \in {"run", "deactivate"}, Begin(t, op, v),
         op = "store" => resource[v.has].owner = Main,
         phase' = phase, resource' = resource, stored' = stored,
         held' \in [Threads -> SUBSET Variable],
         \A u \in Threads : held'[u] \subseteq held[u]
  PROVE  /\ VariablesInv' /\ StoredInv'
         /\ counting' \in [Threads -> [op : {"none", "store", "read", "drop"},
                               var : Variable \cup {None}, seen : Int]]
<1>0. OwnerTypes /\ VariablesInv /\ StoredInv
  BY DEF OwnerInv
<1>1. v.has \in 1 .. Len(resource) /\ resource[v.has].refs \in Int
  <2>1. v.has \in 1 .. Len(resource)
    BY <1>0, ResourceFacts, LimitAssumption DEF Fits, Variable, Ids
  <2> QED
    BY <1>0, <2>1, ResourceFacts
<1> DEFINE c == [op |-> op, var |-> v, seen |-> resource[v.has].refs]
<1>2. /\ c \in [op : {"none", "store", "read", "drop"},
                var : Variable \cup {None}, seen : Int]
      /\ c.op = op /\ c.var = v
  BY <1>1 DEF Fits
<1>3. counting' = [counting EXCEPT ![t] = c]
  BY DEF Begin
<1> HIDE DEF c
<1>4. counting' \in [Threads -> [op : {"none", "store", "read", "drop"},
                               var : Variable \cup {None}, seen : Int]]
  BY <1>0, <1>2, <1>3 DEF OwnerTypes
<1>5. /\ counting'[t] = c
      /\ \A u \in Threads : u # t => counting'[u] = counting[u]
  BY <1>0, <1>3 DEF OwnerTypes
<1>6. VariablesInv'
  <2>1. ASSUME NEW u \in Threads
        PROVE  /\ counting'[u].op = "none" => counting'[u] = Idle
               /\ counting'[u].op # "none" => /\ phase'[u] \in {"run", "deactivate"}
                                            /\ counting'[u].var \in Variable
    <3>1. CASE u = t
      BY <3>1, <1>5, <1>2 DEF Fits
    <3>2. CASE u # t
      BY <3>2, <1>5, <1>0 DEF VariablesInv, Busy
    <3> QED
      BY <3>1, <3>2
  <2>2. ASSUME NEW u \in Threads, NEW w \in Variable,
               w \in held'[u] \/ (counting'[u].op # "none" /\ w = counting'[u].var)
        PROVE  /\ w.has <= Len(resource') /\ w.meant <= Len(resource')
               /\ resource'[w.has].owner \in {u, Main}
    <3>1. w \in held[u] \/ (counting[u].op # "none" /\ w = counting[u].var) \/ (u = t /\ w = v)
      BY <2>2, <1>5, <1>2
    <3>2. CASE w \in held[u] \/ (counting[u].op # "none" /\ w = counting[u].var)
      BY <3>2, <1>0 DEF VariablesInv, Busy
    <3>3. CASE u = t /\ w = v
      BY <3>3 DEF Fits
    <3> QED
      BY <3>1, <3>2, <3>3
  <2> QED
    BY <2>1, <2>2 DEF VariablesInv, Busy, Idle
<1>7. StoredInv'
  <2>1. /\ stored'.original # 0 => resource'[stored'.original].owner = Main
        /\ stored'.original = 0 => stored' = Empty
    BY <1>0 DEF StoredInv
  <2>2. ASSUME NEW u \in Threads, counting'[u].op = "store"
        PROVE  resource'[counting'[u].var.has].owner = Main
    <3>1. CASE u = t
      BY <3>1, <2>2, <1>5, <1>2
    <3>2. CASE u # t
      BY <3>2, <2>2, <1>5, <1>0 DEF StoredInv
    <3> QED
      BY <3>1, <3>2
  <2> QED
    BY <2>1, <2>2 DEF StoredInv, Empty
<1> QED
  BY <1>4, <1>6, <1>7

\* What the theorems about resources assume: only the main thread's are stored,
\* and the property is not read once a thread has begun to end.
OwnersOnly == Sharers \subseteq {Main} /\ ShutdownReads = FALSE

LEMMA HeldFits ==
  ASSUME OwnerInv, NEW t \in Threads, NEW v,
         v \in held[t] \/ (Busy(t) /\ v = counting[t].var)
  PROVE  /\ Fits(t, v) /\ v.has \in 1 .. Len(resource) /\ v.meant \in 1 .. Len(resource)
<1>0. OwnerTypes /\ VariablesInv
  BY DEF OwnerInv
<1>1. v \in Variable
  BY <1>0 DEF OwnerTypes, VariablesInv
<1>2. Fits(t, v)
  BY <1>0, <1>1 DEF VariablesInv, Fits
<1> QED
  BY <1>0, <1>1, <1>2, ResourceFacts, LimitAssumption DEF Fits, Variable, Ids

LEMMA WriteOwners ==
  ASSUME OwnerInv, OwnersOnly, NEW t \in Threads, Write(t)
  PROVE  OwnerInv'
<1>0. OwnerTypes /\ VariablesInv /\ StoredInv
  BY DEF OwnerInv
<1>1. PICK v \in held[t] : resource[v.has].owner \in Sharers /\ Begin(t, "store", v)
  BY DEF Write
<1>2. phase[t] = "run" /\ resource[v.has].owner = Main
  BY <1>1 DEF Write, Runs, OwnersOnly
<1>3. UNCHANGED <<phase, resource, list, kept, held, stored>>
  BY DEF Write
<1>4. Fits(t, v)
  BY HeldFits
<1>5. /\ VariablesInv' /\ StoredInv'
      /\ counting' \in [Threads -> [op : {"none", "store", "read", "drop"},
                               var : Variable \cup {None}, seen : Int]]
  BY <1>0, <1>1, <1>2, <1>3, <1>4, BeginKeeps DEF OwnerTypes
<1>6. EntriesInv' /\ OnlyOwnerDestroys'
  BY <1>3, UnchangedOwners, SameFreedKeep
<1>7. OwnerTypes'
  BY <1>0, <1>3, <1>5 DEF OwnerTypes
<1> QED
  BY <1>5, <1>6, <1>7 DEF OwnerInv

LEMMA StoredIs ==
  ASSUME OwnerInv, stored # Empty
  PROVE  /\ stored.original \in 1 .. Len(resource) /\ stored.original \in Ids
         /\ resource[stored.original].owner = Main
<1>0. OwnerTypes /\ StoredInv
  BY DEF OwnerInv
<1>1. stored.original \in 0 .. Len(resource) /\ Len(resource) <= Limit
  BY <1>0 DEF OwnerTypes
<1>2. stored.original # 0
  BY <1>0 DEF StoredInv
<1> QED
  BY <1>0, <1>1, <1>2, ResourceFacts, LimitAssumption DEF StoredInv, Ids

\* A read that enters nothing into the list.
LEMMA ReadOwners ==
  ASSUME OwnerInv, OwnersOnly, NEW t \in Threads, NEW h \in 1 .. Len(resource),
         Runs(t), stored # Empty, resource[h].owner \in {t, Main},
         Begin(t, "read", [meant |-> stored.original, has |-> h]),
         UNCHANGED <<phase, resource, list, kept, held, stored>>
  PROVE  OwnerInv'
<1>0. OwnerTypes /\ VariablesInv /\ StoredInv
  BY DEF OwnerInv
<1> DEFINE v == [meant |-> stored.original, has |-> h]
<1>2. phase[t] = "run"
  BY DEF Runs, OwnersOnly
<1>4. Fits(t, v)
  <2>1. stored.original \in Ids /\ stored.original <= Len(resource)
    BY StoredIs, <1>0, ResourceFacts
  <2>2. h \in Ids /\ h <= Len(resource)
    BY <1>0, ResourceFacts, LimitAssumption DEF OwnerTypes, Ids
  <2> QED
    BY <2>1, <2>2 DEF Fits, Variable
<1> HIDE DEF v
<1>5. /\ VariablesInv' /\ StoredInv'
      /\ counting' \in [Threads -> [op : {"none", "store", "read", "drop"},
                               var : Variable \cup {None}, seen : Int]]
  <2>1. Begin(t, "read", v)
    BY DEF v
  <2> QED
    BY <1>0, <1>2, <1>4, <2>1, BeginKeeps DEF OwnerTypes
<1>6. EntriesInv' /\ OnlyOwnerDestroys'
  BY UnchangedOwners, SameFreedKeep
<1>7. OwnerTypes'
  BY <1>0, <1>5 DEF OwnerTypes
<1> QED
  BY <1>5, <1>6, <1>7 DEF OwnerInv

\* What the reader's list holds belongs to the reader or to the main thread.
LEMMA FoundOwner ==
  ASSUME OwnerInv, NEW t \in Threads, NEW i \in DOMAIN list[t], list[t][i] # 0
  PROVE  list[t][i] \in 1 .. Len(resource) /\ resource[list[t][i]].owner \in {t, Main}
<1>0. OwnerTypes /\ EntriesInv
  BY DEF OwnerInv
<1>1. list[t][i] \in 1 .. Len(resource)
  BY <1>0, ResourceFacts
<1> QED
  BY <1>0, <1>1 DEF EntriesInv

LEMMA ReadOwnOwners ==
  ASSUME OwnerInv, OwnersOnly, NEW t \in Threads, ReadOwn(t) \/ ReadFound(t)
  PROVE  OwnerInv'
<1>1. CASE ReadOwn(t)
  <2>1. Runs(t) /\ stored # Empty /\ UNCHANGED <<phase, resource, list, kept, held, stored>>
        /\ Begin(t, "read", [meant |-> stored.original, has |-> stored.original])
    BY <1>1 DEF ReadOwn
  <2> QED
    BY <2>1, StoredIs, ReadOwners
<1>2. CASE ReadFound(t)
  <2>1. Runs(t) /\ stored # Empty /\ UNCHANGED <<phase, resource, list, kept, held, stored>>
    BY <1>2 DEF ReadFound
  <2>2. PICK i \in DOMAIN list[t] :
          list[t][i] # 0 /\ Begin(t, "read", [meant |-> stored.original, has |-> list[t][i]])
    BY <1>2 DEF ReadFound, Found
  <2>3. list[t][i] \in 1 .. Len(resource) /\ resource[list[t][i]].owner \in {t, Main}
    BY <2>2, FoundOwner
  <2> QED
    BY <2>1, <2>2, <2>3, ReadOwners
<1> QED
  BY <1>1, <1>2


\* The main thread finds its own resources in its list, so only the others
\* enter the main thread's into theirs.
LEMMA ForeignIsNotMain ==
  ASSUME OwnerInv, OwnersOnly, NEW t \in Threads, ReadForeign(t)
  PROVE  t # Main
<1>0. OwnerTypes /\ EntriesInv
  BY DEF OwnerInv
<1> SUFFICES ASSUME t = Main PROVE FALSE
  OBVIOUS
<1>1. stored # Empty /\ phase[t] = "run" /\ resource[stored.original].freed = None
  BY DEF ReadForeign, Runs, OwnersOnly
<1>2. stored.original \in 1 .. Len(resource) /\ resource[stored.original].owner = t
  BY <1>1, StoredIs
<1>3. PICK h : h = resource[stored.original].handle
  OBVIOUS
<1>4. h \in DOMAIN list[t] /\ list[t][h] = stored.original
  BY <1>0, <1>1, <1>2, <1>3 DEF EntriesInv
<1>5. h \in Found(t, stored.original)
  BY <1>0, <1>2, <1>4, ResourceFacts DEF Found
<1> QED
  BY <1>5 DEF ReadForeign

LEMMA ReadForeignOwners ==
  ASSUME OwnerInv, OwnersOnly, NEW t \in Threads, ReadForeign(t)
  PROVE  OwnerInv'
<1>0. OwnerTypes /\ VariablesInv /\ StoredInv /\ EntriesInv
  BY DEF OwnerInv
<1>1. t # Main
  BY ForeignIsNotMain
<1>2. PICK o : o = stored.original
  OBVIOUS
<1>3. /\ o \in 1 .. Len(resource) /\ o \in Ids /\ resource[o].owner = Main
      /\ o # 0 /\ o <= Len(resource)
  BY <1>0, <1>2, StoredIs, ResourceFacts DEF ReadForeign
<1>4. /\ phase[t] = "run" /\ UNCHANGED <<phase, resource, held, stored>>
      /\ list' = [list EXCEPT ![t] = Append(@, o)]
      /\ kept' = [kept EXCEPT ![t] = @ \cup {o}]
  BY <1>2 DEF ReadForeign, Runs, OwnersOnly, Keep
<1>5. PICK v : v = [meant |-> o, has |-> o]
  OBVIOUS
<1>6. Fits(t, v) /\ Begin(t, "read", v)
  BY <1>2, <1>3, <1>5 DEF Fits, Variable, ReadForeign
<1>7. /\ VariablesInv' /\ StoredInv'
      /\ counting' \in [Threads -> [op : {"none", "store", "read", "drop"},
                               var : Variable \cup {None}, seen : Int]]
  BY <1>0, <1>4, <1>6, BeginKeeps DEF OwnerTypes
<1>8. OnlyOwnerDestroys'
  BY <1>4, UnchangedOwners, SameOwnersKeep DEF SameFreed
<1>9. /\ list'[t] = Append(list[t], o) /\ \A u \in Threads : u # t => list'[u] = list[u]
      /\ kept'[t] = kept[t] \cup {o} /\ \A u \in Threads : u # t => kept'[u] = kept[u]
  BY <1>0, <1>4 DEF OwnerTypes
<1>10. /\ list[t] \in Seq(0 .. Len(resource)) /\ Len(list[t]) \in Nat
       /\ DOMAIN list[t] = 1 .. Len(list[t]) /\ o \in 0 .. Len(resource)
  BY <1>0, <1>3, ResourceFacts
<1>11. /\ list'[t] \in Seq(0 .. Len(resource)) /\ DOMAIN list'[t] = 1 .. Len(list[t]) + 1
       /\ \A i \in 1 .. Len(list[t]) : list'[t][i] = list[t][i]
       /\ list'[t][Len(list[t]) + 1] = o
  BY <1>9, <1>10, AppendProperties, LenProperties
<1>12. OwnerTypes'
  <2>1. list' \in [Threads -> Seq(0 .. Len(resource'))]
    BY <1>0, <1>4, <1>11 DEF OwnerTypes
  <2>2. kept' \in [Threads -> SUBSET DOMAIN resource']
    BY <1>0, <1>3, <1>4, ResourceFacts DEF OwnerTypes
  <2> QED
    BY <1>0, <1>4, <1>7, <2>1, <2>2 DEF OwnerTypes
<1>13. EntriesInv'
  <2>1. ASSUME NEW u \in Threads, NEW i \in DOMAIN list'[u], list'[u][i] # 0
        PROVE  LET r == list'[u][i] IN
               /\ resource'[r].owner = u \/ (r \in kept'[u] /\ phase'[u] = "run")
               /\ resource'[r].owner = u => i = resource'[r].handle
    <3>1. CASE u # t
      BY <3>1, <2>1, <1>0, <1>4, <1>9 DEF EntriesInv
    <3>2. CASE u = t /\ i \in 1 .. Len(list[t])
      BY <3>2, <2>1, <1>0, <1>4, <1>9, <1>10, <1>11 DEF EntriesInv
    <3>3. CASE u = t /\ i = Len(list[t]) + 1
      BY <3>3, <1>1, <1>3, <1>4, <1>9, <1>11
    <3>4. \A k \in 1 .. Len(list[t]) + 1 : k \in 1 .. Len(list[t]) \/ k = Len(list[t]) + 1
      BY <1>10
    <3>5. u = t => i \in 1 .. Len(list[t]) + 1
      BY <1>10, <1>11
    <3> QED
      BY <3>1, <3>2, <3>3, <3>4, <3>5
  <2>2. ASSUME NEW u \in Threads, NEW r \in kept'[u]
        PROVE  resource'[r].owner = Main /\ u # Main
    BY <1>0, <1>1, <1>3, <1>4, <1>9 DEF EntriesInv
  <2>3. ASSUME NEW u \in Threads, NEW r \in 1 .. Len(resource'),
               resource'[r].owner = u, resource'[r].freed = None, phase'[u] # "gone"
        PROVE  resource'[r].handle \in DOMAIN list'[u] /\ list'[u][resource'[r].handle] = r
    <3>1. resource[r].handle \in DOMAIN list[u] /\ list[u][resource[r].handle] = r
      BY <2>3, <1>0, <1>4 DEF EntriesInv
    <3> QED
      BY <3>1, <1>4, <1>9, <1>10, <1>11
  <2> QED
    BY <2>1, <2>2, <2>3 DEF EntriesInv
<1> QED
  BY <1>7, <1>8, <1>12, <1>13 DEF OwnerInv

LEMMA DropOwners ==
  ASSUME OwnerInv, OwnersOnly, NEW t \in Threads, Drop(t)
  PROVE  OwnerInv'
<1>0. OwnerTypes /\ VariablesInv /\ StoredInv
  BY DEF OwnerInv
<1>1. PICK v \in held[t] : Begin(t, "drop", v) /\ held' = [held EXCEPT ![t] = @ \ {v}]
  BY DEF Drop
<1>2. phase[t] \in {"run", "deactivate"} /\ UNCHANGED <<phase, resource, list, kept, stored>>
  BY DEF Drop, Runs, OwnersOnly
<1>3. /\ held' \in [Threads -> SUBSET Variable]
      /\ \A u \in Threads : held'[u] \subseteq held[u]
  BY <1>0, <1>1 DEF OwnerTypes
<1>4. Fits(t, v)
  BY HeldFits
<1>5. /\ VariablesInv' /\ StoredInv'
      /\ counting' \in [Threads -> [op : {"none", "store", "read", "drop"},
                               var : Variable \cup {None}, seen : Int]]
  BY <1>1, <1>2, <1>3, <1>4, BeginKeeps
<1>6. EntriesInv' /\ OnlyOwnerDestroys'
  BY <1>2, UnchangedOwners, SameFreedKeep
<1>7. OwnerTypes'
  BY <1>0, <1>2, <1>3, <1>5 DEF OwnerTypes
<1> QED
  BY <1>5, <1>6, <1>7 DEF OwnerInv

LEMMA OpenOwners ==
  ASSUME OwnerInv, NEW t \in Threads, Open(t)
  PROVE  OwnerInv'
<1>0. OwnerTypes /\ VariablesInv /\ StoredInv /\ EntriesInv /\ OnlyOwnerDestroys
  BY DEF OwnerInv
<1>1. PICK n, h : n = Len(resource) + 1 /\ h = Len(list[t]) + 1
  OBVIOUS
<1>2. PICK e, v : /\ e = [owner |-> t, handle |-> h, refs |-> 1, closed |-> None, freed |-> None]
                  /\ v = [meant |-> n, has |-> n]
  OBVIOUS
<1>3. /\ phase[t] = "run" /\ counting[t] = Idle /\ Len(resource) < Limit
      /\ resource' = Append(resource, e)
      /\ list' = [list EXCEPT ![t] = Append(@, n)]
      /\ held' = [held EXCEPT ![t] = @ \cup {v}]
      /\ UNCHANGED <<phase, kept, stored, counting>>
  BY <1>1, <1>2 DEF Open
<1>4. /\ Len(resource) \in Nat /\ Len(list[t]) \in Nat
      /\ DOMAIN resource = 1 .. Len(resource) /\ DOMAIN list[t] = 1 .. Len(list[t])
      /\ list[t] \in Seq(0 .. Len(resource)) /\ resource \in Seq(Res)
  BY <1>0, ResourceFacts DEF OwnerTypes
<1>5. /\ e \in Res /\ e.owner = t /\ e.handle = h /\ e.closed = None /\ e.freed = None
      /\ v \in Variable /\ v.meant = n /\ v.has = n
  BY <1>1, <1>2, <1>3, <1>4, LimitAssumption DEF Res, Variable, Ids
<1>6. /\ resource' \in Seq(Res) /\ Len(resource') = n /\ DOMAIN resource' = 1 .. n
      /\ \A r \in 1 .. Len(resource) : resource'[r] = resource[r]
      /\ resource'[n] = e
  BY <1>1, <1>3, <1>4, <1>5, AppendProperties, LenProperties
<1>7. list[t] \in Seq(0 .. n) /\ n \in 0 .. n
  <2>1. 0 .. Len(resource) \subseteq 0 .. n /\ n \in 0 .. n
    BY <1>1, <1>4
  <2> QED
    BY <1>4, <2>1
<1>8. /\ list'[t] \in Seq(0 .. n) /\ DOMAIN list'[t] = 1 .. h
      /\ \A i \in 1 .. Len(list[t]) : list'[t][i] = list[t][i]
      /\ list'[t][h] = n
      /\ \A u \in Threads : u # t => list'[u] = list[u]
  <2>1. list'[t] = Append(list[t], n) /\ \A u \in Threads : u # t => list'[u] = list[u]
    BY <1>0, <1>3 DEF OwnerTypes
  <2> QED
    BY <1>1, <1>7, <2>1, AppendProperties, LenProperties
<1>9. OwnerTypes'
  <2>1. list' \in [Threads -> Seq(0 .. n)]
    <3>1. \A u \in Threads : list'[u] \in Seq(0 .. n)
      <4>1. 0 .. Len(resource) \subseteq 0 .. n
        BY <1>1, <1>4
      <4>2. ASSUME NEW u \in Threads
            PROVE  list[u] \in Seq(0 .. n)
        <5>1. list[u] \in Seq(0 .. Len(resource))
          BY <1>0, ResourceFacts
        <5>2. list[u] \in [1 .. Len(list[u]) -> 0 .. n] /\ Len(list[u]) \in Nat
          BY <4>1, <5>1, LenProperties
        <5> QED
          BY <5>2, FunctionIsSeq
      <4> QED
        BY <1>8, <4>2
    <3> QED
      BY <1>0, <1>3, <3>1 DEF OwnerTypes
  <2>2. kept' \in [Threads -> SUBSET DOMAIN resource']
    <3>1. DOMAIN resource \subseteq DOMAIN resource'
      BY <1>1, <1>4, <1>6
    <3> QED
      BY <1>0, <1>3, <3>1 DEF OwnerTypes
  <2>3. held' \in [Threads -> SUBSET Variable]
    BY <1>0, <1>3, <1>5 DEF OwnerTypes
  <2>4. stored' \in [original : 0 .. Len(resource'), ls : Threads \cup {None}]
    BY <1>0, <1>1, <1>3, <1>4, <1>6 DEF OwnerTypes
  <2>5. Len(resource') <= Limit
    BY <1>1, <1>3, <1>4, <1>6, LimitAssumption
  <2> QED
    BY <1>0, <1>3, <1>6, <2>1, <2>2, <2>3, <2>4, <2>5 DEF OwnerTypes
<1>10. VariablesInv'
  <2>1. ASSUME NEW u \in Threads, NEW w \in Variable,
               w \in held'[u] \/ (counting'[u].op # "none" /\ w = counting'[u].var)
        PROVE  /\ w.has <= Len(resource') /\ w.meant <= Len(resource')
               /\ resource'[w.has].owner \in {u, Main}
    <3>1. w \in held[u] \/ (Busy(u) /\ w = counting[u].var) \/ (u = t /\ w = v)
      BY <2>1, <1>0, <1>3 DEF OwnerTypes, Busy
    <3>2. CASE w \in held[u] \/ (Busy(u) /\ w = counting[u].var)
      <4>1. Fits(u, w) /\ w.has \in 1 .. Len(resource) /\ w.meant \in 1 .. Len(resource)
        BY <3>2, HeldFits
      <4> QED
        BY <4>1, <1>1, <1>4, <1>6 DEF Fits
    <3>3. CASE u = t /\ w = v
      BY <3>3, <1>1, <1>4, <1>5, <1>6
    <3> QED
      BY <3>1, <3>2, <3>3
  <2> QED
    BY <1>0, <1>3, <2>1 DEF VariablesInv, Busy, Idle
<1>11. StoredInv'
  <2>1. stored.original # 0 => stored.original \in 1 .. Len(resource)
    BY <1>0, <1>4 DEF OwnerTypes
  <2>2. ASSUME NEW u \in Threads, counting[u].op = "store"
        PROVE  counting[u].var.has \in 1 .. Len(resource)
    BY <2>2, HeldFits DEF Busy
  <2> QED
    BY <1>0, <1>3, <1>6, <2>1, <2>2 DEF StoredInv, Empty
<1>12. EntriesInv'
  <2>1. ASSUME NEW u \in Threads, NEW i \in DOMAIN list'[u], list'[u][i] # 0
        PROVE  LET r == list'[u][i] IN
               /\ resource'[r].owner = u \/ (r \in kept'[u] /\ phase'[u] = "run")
               /\ resource'[r].owner = u => i = resource'[r].handle
    <3>1. CASE i \in DOMAIN list[u] /\ list'[u][i] = list[u][i]
      <4>1. list[u][i] \in 1 .. Len(resource)
        BY <3>1, <2>1, FoundOwner
      <4> QED
        BY <3>1, <4>1, <2>1, <1>0, <1>3, <1>6 DEF EntriesInv
    <3>2. CASE u = t /\ i = h
      BY <3>2, <1>5, <1>6, <1>8
    <3>3. (i \in DOMAIN list[u] /\ list'[u][i] = list[u][i]) \/ (u = t /\ i = h)
      <4>1. CASE u # t
        BY <4>1, <1>8
      <4>2. CASE u = t
        <5>1. i \in 1 .. h
          BY <4>2, <1>8
        <5>2. i \in 1 .. Len(list[t]) \/ i = h
          BY <5>1, <1>1, <1>4
        <5> QED
          BY <4>2, <5>2, <1>4, <1>8
      <4> QED
        BY <4>1, <4>2
    <3> QED
      BY <3>1, <3>2, <3>3
  <2>2. ASSUME NEW u \in Threads, NEW r \in kept'[u]
        PROVE  resource'[r].owner = Main /\ u # Main
    <3>1. r \in 1 .. Len(resource)
      BY <1>0, <1>3, ResourceFacts
    <3> QED
      BY <3>1, <1>0, <1>3, <1>6 DEF EntriesInv
  <2>3. ASSUME NEW u \in Threads, NEW r \in 1 .. Len(resource'),
               resource'[r].owner = u, resource'[r].freed = None, phase'[u] # "gone"
        PROVE  resource'[r].handle \in DOMAIN list'[u] /\ list'[u][resource'[r].handle] = r
    <3>1. CASE r \in 1 .. Len(resource)
      <4>1. resource[r].handle \in DOMAIN list[u] /\ list[u][resource[r].handle] = r
        BY <3>1, <2>3, <1>0, <1>3, <1>6 DEF EntriesInv
      <4>2. resource'[r].handle = resource[r].handle
        BY <3>1, <1>6
      <4>3. u = t => resource[r].handle \in 1 .. Len(list[t]) /\ resource[r].handle \in 1 .. h
        BY <4>1, <1>1, <1>4
      <4> QED
        BY <4>1, <4>2, <4>3, <1>8
    <3>2. CASE r = n
      BY <3>2, <2>3, <1>1, <1>4, <1>5, <1>6, <1>8
    <3>3. r \in 1 .. Len(resource) \/ r = n
      BY <1>1, <1>4, <1>6
    <3> QED
      BY <3>1, <3>2, <3>3
  <2> QED
    BY <2>1, <2>2, <2>3 DEF EntriesInv
<1>13. OnlyOwnerDestroys'
  <2>1. ASSUME NEW r \in DOMAIN resource'
        PROVE  /\ resource'[r].closed \in {None, "program", resource'[r].owner}
               /\ resource'[r].freed \in {None, resource'[r].owner}
    <3>1. r \in 1 .. Len(resource) \/ r = n
      BY <1>1, <1>4, <1>6
    <3>2. CASE r \in 1 .. Len(resource)
      BY <3>2, <1>0, <1>4, <1>6 DEF OnlyOwnerDestroys
    <3>3. CASE r = n
      BY <3>3, <1>5, <1>6
    <3> QED
      BY <3>1, <3>2, <3>3
  <2> QED
    BY <2>1 DEF OnlyOwnerDestroys
<1> QED
  BY <1>9, <1>10, <1>11, <1>12, <1>13 DEF OwnerInv


\* A step after which its thread counts nothing, and whose variables are those
\* it had, the one it counted included.
LEMMA EndsKeep ==
  ASSUME OwnerInv, NEW t \in Threads, SameOwners,
         \A u \in Threads : u # t => phase'[u] = phase[u],
         counting' = [counting EXCEPT ![t] = Idle],
         held' \in [Threads -> SUBSET Variable],
         \A u \in Threads : \A v \in held'[u] :
           v \in held[u] \/ (u = t /\ Busy(t) /\ v = counting[t].var),
         \/ stored' \in {stored, Empty}
         \/ counting[t].op = "store" /\ stored' = [original |-> counting[t].var.has, ls |-> t]
  PROVE  /\ VariablesInv' /\ StoredInv'
         /\ stored' \in [original : 0 .. Len(resource'), ls : Threads \cup {None}]
         /\ counting' \in [Threads -> [op : {"none", "store", "read", "drop"},
                               var : Variable \cup {None}, seen : Int]]
<1>0. OwnerTypes /\ VariablesInv /\ StoredInv
  BY DEF OwnerInv
<1>1. Len(resource) \in Nat /\ Len(resource') = Len(resource)
  BY <1>0, ResourceFacts DEF SameOwners
<1>2. /\ counting'[t] = Idle /\ Idle.op = "none"
      /\ \A u \in Threads : u # t => counting'[u] = counting[u]
  BY <1>0 DEF OwnerTypes, Idle
<1>3. counting' \in [Threads -> [op : {"none", "store", "read", "drop"},
                               var : Variable \cup {None}, seen : Int]]
  BY <1>0 DEF OwnerTypes, Idle
<1>4. VariablesInv'
  <2>1. ASSUME NEW u \in Threads
        PROVE  /\ counting'[u].op = "none" => counting'[u] = Idle
               /\ counting'[u].op # "none" => /\ phase'[u] \in {"run", "deactivate"}
                                            /\ counting'[u].var \in Variable
    <3>1. CASE u = t
      BY <3>1, <1>2
    <3>2. CASE u # t
      BY <3>2, <1>2, <1>0 DEF VariablesInv, Busy
    <3> QED
      BY <3>1, <3>2
  <2>2. ASSUME NEW u \in Threads, NEW w \in Variable,
               w \in held'[u] \/ (counting'[u].op # "none" /\ w = counting'[u].var)
        PROVE  /\ w.has <= Len(resource') /\ w.meant <= Len(resource')
               /\ resource'[w.has].owner \in {u, Main}
    <3>1. w \in held[u] \/ (Busy(u) /\ w = counting[u].var)
      BY <2>2, <1>2 DEF Busy
    <3>2. Fits(u, w) /\ w.has \in 1 .. Len(resource)
      BY <3>1, HeldFits
    <3> QED
      BY <3>2, <1>1 DEF Fits, SameOwners
  <2> QED
    BY <2>1, <2>2 DEF VariablesInv, Busy, Idle
<1>5. ASSUME NEW u \in Threads, counting[u].op = "store"
      PROVE  /\ counting[u].var.has \in 1 .. Len(resource)
             /\ resource'[counting[u].var.has].owner = Main
  <2>1. counting[u].var.has \in 1 .. Len(resource)
    BY <1>5, HeldFits DEF Busy
  <2> QED
    BY <2>1, <1>0, <1>5 DEF StoredInv, SameOwners
<1>6. /\ stored' \in [original : 0 .. Len(resource'), ls : Threads \cup {None}]
      /\ stored'.original # 0 => resource'[stored'.original].owner = Main
      /\ stored'.original = 0 => stored' = Empty
  <2>1. CASE stored' = Empty
    BY <2>1, <1>1 DEF Empty
  <2>2. CASE stored' = stored
    <3>1. stored.original \in 0 .. Len(resource)
      BY <1>0 DEF OwnerTypes
    <3> QED
      BY <2>2, <3>1, <1>0, <1>1 DEF OwnerTypes, StoredInv, SameOwners
  <2>3. CASE counting[t].op = "store" /\ stored' = [original |-> counting[t].var.has, ls |-> t]
    <3>1. stored'.original = counting[t].var.has
      BY <2>3
    <3> QED
      BY <2>3, <3>1, <1>1, <1>5
  <2> QED
    BY <2>1, <2>2, <2>3
<1>7. StoredInv'
  <2>1. ASSUME NEW u \in Threads, counting'[u].op = "store"
        PROVE  resource'[counting'[u].var.has].owner = Main
    BY <2>1, <1>2, <1>5
  <2> QED
    BY <2>1, <1>6 DEF StoredInv, Empty
<1> QED
  BY <1>3, <1>4, <1>6, <1>7

\* The thread that counts nothing still does not.
LEMMA IdleStays ==
  ASSUME OwnerTypes, NEW t \in Threads, counting[t] = Idle, counting' = counting
  PROVE  counting' = [counting EXCEPT ![t] = Idle]
  BY DEF OwnerTypes

\* The step leaves the lists alone and frees nothing.
LEMMA EndsFree ==
  ASSUME OwnerInv, NEW t \in Threads, SameFreed, UNCHANGED <<phase, list, kept>>,
         counting' = [counting EXCEPT ![t] = Idle],
         held' \in [Threads -> SUBSET Variable],
         \A u \in Threads : \A v \in held'[u] :
           v \in held[u] \/ (u = t /\ Busy(t) /\ v = counting[t].var),
         \/ stored' \in {stored, Empty}
         \/ counting[t].op = "store" /\ stored' = [original |-> counting[t].var.has, ls |-> t]
  PROVE  OwnerInv'
<1>0. OwnerTypes /\ SameOwners
  BY DEF OwnerInv, SameFreed
<1>1. /\ VariablesInv' /\ StoredInv'
      /\ stored' \in [original : 0 .. Len(resource'), ls : Threads \cup {None}]
      /\ counting' \in [Threads -> [op : {"none", "store", "read", "drop"},
                               var : Variable \cup {None}, seen : Int]]
  BY <1>0, EndsKeep
<1>2. EntriesInv' /\ OnlyOwnerDestroys'
  BY SameFreedKeep
<1>3. DOMAIN resource' = DOMAIN resource
  BY <1>0, LenProperties DEF OwnerTypes, SameOwners
<1>4. OwnerTypes'
  BY <1>0, <1>1, <1>3 DEF OwnerTypes, SameOwners
<1> QED
  BY <1>1, <1>2, <1>4 DEF OwnerInv

LEMMA RefsFree ==
  ASSUME OwnerInv, NEW n \in 1 .. Len(resource), NEW v \in Int,
         resource' = [resource EXCEPT ![n].refs = v]
  PROVE  SameFreed
<1>1. resource \in Seq(Res)
  BY DEF OwnerInv, OwnerTypes
<1>2. /\ resource' \in Seq(Res) /\ Len(resource') = Len(resource)
      /\ \A m \in 1 .. Len(resource) :
           /\ resource'[m].owner = resource[m].owner /\ resource'[m].handle = resource[m].handle
           /\ resource'[m].closed = resource[m].closed /\ resource'[m].freed = resource[m].freed
  BY <1>1, ResourceExcept
<1> QED
  BY <1>2 DEF SameFreed, SameOwners

LEMMA CloseFree ==
  ASSUME OwnerInv, NEW t \in Threads, Close(t)
  PROVE  SameFreed
<1>1. PICK v \in held[t] : /\ resource[v.has].closed = None
                           /\ resource' = [resource EXCEPT ![v.has].closed = "program"]
  BY DEF Close
<1>2. v.has \in 1 .. Len(resource) /\ resource \in Seq(Res)
  BY HeldFits DEF OwnerInv, OwnerTypes
<1>3. /\ resource' \in Seq(Res) /\ Len(resource') = Len(resource)
      /\ \A m \in 1 .. Len(resource) :
           /\ resource'[m].owner = resource[m].owner /\ resource'[m].handle = resource[m].handle
           /\ resource'[m].freed = resource[m].freed
           /\ resource'[m].closed \in {resource[m].closed, "program"}
           /\ m # v.has => resource'[m].closed = resource[m].closed
  BY <1>1, <1>2, ClosedExcept
<1> QED
  BY <1>1, <1>3 DEF SameFreed, SameOwners

LEMMA CloseOwners ==
  ASSUME OwnerInv, NEW t \in Threads, Close(t)
  PROVE  OwnerInv'
<1>0. OwnerTypes
  BY DEF OwnerInv
<1>1. SameFreed
  BY CloseFree
<1>2. counting' = [counting EXCEPT ![t] = Idle] /\ UNCHANGED <<phase, list, kept, held, stored>>
  BY <1>0, IdleStays DEF Close
<1> QED
  BY <1>0, <1>1, <1>2, EndsFree DEF OwnerTypes

LEMMA UnsetOwners ==
  ASSUME OwnerInv, NEW t \in Threads, Unset(t)
  PROVE  OwnerInv'
<1>0. OwnerTypes
  BY DEF OwnerInv
<1>1. /\ counting' = [counting EXCEPT ![t] = Idle] /\ stored' = Empty
      /\ UNCHANGED <<phase, resource, list, kept, held>>
  BY <1>0, IdleStays DEF Unset
<1>2. SameFreed
  BY <1>1, UnchangedOwners
<1> QED
  BY <1>0, <1>1, <1>2, EndsFree DEF OwnerTypes

LEMMA CountedFits ==
  ASSUME OwnerInv, NEW t \in Threads, counting[t].op # "none"
  PROVE  /\ counting[t].var \in Variable /\ counting[t].var.has \in 1 .. Len(resource)
         /\ counting[t].seen \in Int
<1>1. Fits(t, counting[t].var) /\ counting[t].var.has \in 1 .. Len(resource)
  BY HeldFits DEF Busy
<1> QED
  BY <1>1 DEF Fits, OwnerInv, OwnerTypes

LEMMA WrittenOwners ==
  ASSUME OwnerInv, NEW t \in Threads, Written(t)
  PROVE  OwnerInv'
<1>0. OwnerTypes
  BY DEF OwnerInv
<1>1. PICK r, s : r = counting[t].var.has /\ s = counting[t].seen + 1
  OBVIOUS
<1>2. /\ counting[t].op = "store" /\ stored' = [original |-> counting[t].var.has, ls |-> t]
      /\ resource' = [resource EXCEPT ![r].refs = s]
      /\ counting' = [counting EXCEPT ![t] = Idle] /\ UNCHANGED <<phase, list, kept, held>>
  BY <1>1 DEF Written
<1>3. r \in 1 .. Len(resource) /\ s \in Int
  BY <1>1, <1>2, CountedFits
<1>4. SameFreed
  BY <1>2, <1>3, RefsFree
<1> QED
  BY <1>0, <1>2, <1>4, EndsFree DEF OwnerTypes

LEMMA HasReadOwners ==
  ASSUME OwnerInv, NEW t \in Threads, HasRead(t)
  PROVE  OwnerInv'
<1>0. OwnerTypes
  BY DEF OwnerInv
<1>1. PICK r, s : r = counting[t].var.has /\ s = counting[t].seen + 1
  OBVIOUS
<1>2. /\ counting[t].op = "read"
      /\ held' = [held EXCEPT ![t] = @ \cup {counting[t].var}]
      /\ resource' = [resource EXCEPT ![r].refs = s]
      /\ counting' = [counting EXCEPT ![t] = Idle] /\ UNCHANGED <<phase, list, kept, stored>>
  BY <1>1 DEF HasRead
<1>3. r \in 1 .. Len(resource) /\ s \in Int /\ counting[t].var \in Variable
  BY <1>1, <1>2, CountedFits
<1>4. SameFreed
  BY <1>2, <1>3, RefsFree
<1>5. /\ held' \in [Threads -> SUBSET Variable]
      /\ \A u \in Threads : \A v \in held'[u] :
           v \in held[u] \/ (u = t /\ Busy(t) /\ v = counting[t].var)
  BY <1>0, <1>2, <1>3 DEF OwnerTypes, Busy
<1> QED
  BY <1>2, <1>4, <1>5, EndsFree


\* What a thread's list entry leads a destructor to is the thread's own.
LEMMA DestroysOwn ==
  ASSUME OwnerInv, NEW t \in Threads, NEW i \in DOMAIN list[t], list[t][i] # 0,
         phase[t] # "run" \/ Destroys(t, list[t][i])
  PROVE  /\ list[t][i] \in 1 .. Len(resource) /\ resource[list[t][i]].owner = t
         /\ i = resource[list[t][i]].handle
<1>0. OwnerTypes /\ EntriesInv
  BY DEF OwnerInv
<1>1. list[t][i] \in 1 .. Len(resource)
  BY <1>0, ResourceFacts
<1>2. resource[list[t][i]].owner = t
  BY <1>0 DEF EntriesInv, Destroys, Kept
<1> QED
  BY <1>0, <1>1, <1>2 DEF EntriesInv

\* zend_list_free: an entry that goes without its resource being destroyed is
\* one of another thread's.
LEMMA ListFreeOwners ==
  ASSUME OwnerInv, NEW t \in Threads, NEW r \in 1 .. Len(resource),
         ListFree(t, r), UNCHANGED <<phase, kept>>
  PROVE  /\ SameOwners /\ EntriesInv' /\ OnlyOwnerDestroys'
         /\ list' \in [Threads -> Seq(0 .. Len(resource))]
         /\ \A q \in 1 .. Len(resource) : resource'[q].freed # resource[q].freed =>
              resource[q].owner = t /\ q = list[t][resource[r].handle]
<1>0. OwnerTypes /\ EntriesInv
  BY DEF OwnerInv
<1>1. PICK h : h = resource[r].handle
  OBVIOUS
<1>2. PICK x : x = IF h \in DOMAIN list[t] THEN list[t][h] ELSE 0
  OBVIOUS
<1>3. /\ Len(resource) \in Nat /\ DOMAIN resource = 1 .. Len(resource)
      /\ \A q \in 1 .. Len(resource) : resource[q] \in Res
      /\ \A u \in Threads : \A i \in DOMAIN list[u] : list[u][i] \in 0 .. Len(resource)
      /\ \A u \in Threads : kept[u] \subseteq 1 .. Len(resource)
      /\ list[t] \in Seq(0 .. Len(resource)) /\ DOMAIN list[t] = 1 .. Len(list[t])
  BY <1>0, ResourceFacts
<1>4. /\ list' = IF x = 0 THEN list ELSE [list EXCEPT ![t][h] = 0]
      /\ resource' = [q \in DOMAIN resource |->
             LET this == IF q = r THEN [resource[q] EXCEPT !.refs = 0] ELSE resource[q]
             IN IF q = x /\ Destroys(t, x) THEN Destroyed(t, this) ELSE this]
  BY <1>1, <1>2 DEF ListFree
<1>5. x # 0 => h \in DOMAIN list[t] /\ x = list[t][h]
  BY <1>2
<1>6. x # 0 /\ Destroys(t, x) => x \in 1 .. Len(resource) /\ resource[x].owner = t
  BY <1>5, DestroysOwn
<1>7. ASSUME NEW q \in 1 .. Len(resource)
      PROVE  /\ resource'[q] \in Res /\ resource'[q].owner = resource[q].owner
             /\ resource'[q].handle = resource[q].handle
             /\ q = x /\ Destroys(t, x) => resource'[q].freed = t
             /\ ~(q = x /\ Destroys(t, x)) => resource'[q].freed = resource[q].freed
             /\ ~(q = x /\ Destroys(t, x)) => resource'[q].closed = resource[q].closed
             /\ resource'[q].closed \in {resource[q].closed, t}
  <2>1. PICK this : this = IF q = r THEN [resource[q] EXCEPT !.refs = 0] ELSE resource[q]
    OBVIOUS
  <2>2. /\ this \in Res /\ this.owner = resource[q].owner /\ this.handle = resource[q].handle
        /\ this.freed = resource[q].freed /\ this.closed = resource[q].closed
    <3>1. resource[q] \in Res /\ 0 \in Int
      BY <1>3
    <3>2. LET n == [resource[q] EXCEPT !.refs = 0] IN
            /\ n \in Res /\ n.owner = resource[q].owner /\ n.handle = resource[q].handle
            /\ n.freed = resource[q].freed /\ n.closed = resource[q].closed
      BY <3>1, RecordFacts
    <3> QED
      BY <2>1, <3>1, <3>2
  <2>3. resource'[q] = IF q = x /\ Destroys(t, x) THEN Destroyed(t, this) ELSE this
    BY <1>3, <1>4, <2>1
  <2>4. LET d == Destroyed(t, this) IN
          /\ d \in Res /\ d.owner = this.owner /\ d.handle = this.handle /\ d.freed = t
          /\ d.closed = IF this.closed = None THEN t ELSE this.closed
    BY <2>2, RecordFacts
  <2>5. CASE q = x /\ Destroys(t, x)
    BY <2>5, <2>2, <2>3, <2>4
  <2>6. CASE ~(q = x /\ Destroys(t, x))
    BY <2>6, <2>2, <2>3
  <2> QED
    BY <2>5, <2>6
<1>8. resource' \in Seq(Res) /\ Len(resource') = Len(resource)
  <2>1. resource' \in [1 .. Len(resource) -> Res]
    <3>1. DOMAIN resource' = 1 .. Len(resource)
      BY <1>3, <1>4
    <3>2. resource' = [q \in DOMAIN resource' |-> resource'[q]]
      BY <1>4
    <3> QED
      BY <1>7, <3>1, <3>2
  <2> QED
    BY <2>1, <1>3, FunctionIsSeq
<1>9. SameOwners
  <2>1. ASSUME NEW q \in 1 .. Len(resource)
        PROVE  /\ resource'[q].freed \in {resource[q].freed, resource[q].owner}
               /\ resource'[q].closed \in {resource[q].closed, "program", resource[q].owner}
               /\ resource'[q].closed = None => resource[q].closed = None
    BY <1>6, <1>7, <1>3, NoneAssumption
  <2> QED
    BY <2>1, <1>7, <1>8 DEF SameOwners
<1>10. OnlyOwnerDestroys'
  BY <1>9, SameOwnersKeep
<1>11. /\ \A u \in Threads : u # t => list'[u] = list[u]
       /\ list'[t] \in Seq(0 .. Len(resource)) /\ DOMAIN list'[t] = DOMAIN list[t]
       /\ \A i \in DOMAIN list[t] : list'[t][i] = IF x # 0 /\ i = h THEN 0 ELSE list[t][i]
  <2>1. CASE x = 0
    BY <2>1, <1>3, <1>4
  <2>2. CASE x # 0
    <3>1. list' = [list EXCEPT ![t] = [list[t] EXCEPT ![h] = 0]]
      BY <2>2, <1>4
    <3>2. /\ list'[t] = [list[t] EXCEPT ![h] = 0]
          /\ \A u \in Threads : u # t => list'[u] = list[u]
      BY <3>1, <1>0 DEF OwnerTypes
    <3>3. h \in 1 .. Len(list[t]) /\ 0 \in 0 .. Len(resource)
      BY <2>2, <1>3, <1>5
    <3>4. /\ list'[t] \in Seq(0 .. Len(resource)) /\ Len(list'[t]) = Len(list[t])
          /\ \A i \in 1 .. Len(list[t]) : list'[t][i] = IF i = h THEN 0 ELSE list[t][i]
      BY <3>2, <3>3, <1>3, ExceptSeq
    <3>5. DOMAIN list'[t] = 1 .. Len(list[t])
      BY <3>4, LenProperties
    <3> QED
      BY <2>2, <3>2, <3>4, <3>5, <1>3
  <2> QED
    BY <2>1, <2>2
<1>12. list' \in [Threads -> Seq(0 .. Len(resource))]
  <2>1. DOMAIN list' = Threads /\ list' = [u \in DOMAIN list' |-> list'[u]]
    BY <1>0, <1>4 DEF OwnerTypes
  <2>2. \A u \in Threads : list'[u] \in Seq(0 .. Len(resource))
    BY <1>0, <1>11 DEF OwnerTypes
  <2> QED
    BY <2>1, <2>2
<1>13. EntriesInv'
  <2>1. ASSUME NEW u \in Threads, NEW i \in DOMAIN list'[u], list'[u][i] # 0
        PROVE  /\ i \in DOMAIN list[u] /\ list'[u][i] = list[u][i]
               /\ list[u][i] \in 1 .. Len(resource)
    <3>1. i \in DOMAIN list[u] /\ list'[u][i] = list[u][i]
      BY <2>1, <1>11
    <3> QED
      BY <3>1, <2>1, FoundOwner
  <2>2. ASSUME NEW u \in Threads, NEW i \in DOMAIN list'[u], list'[u][i] # 0
        PROVE  LET y == list'[u][i] IN
               /\ resource'[y].owner = u \/ (y \in kept'[u] /\ phase'[u] = "run")
               /\ resource'[y].owner = u => i = resource'[y].handle
    <3>1. /\ i \in DOMAIN list[u] /\ list'[u][i] = list[u][i]
          /\ list[u][i] \in 1 .. Len(resource)
      BY <2>1, <2>2
    <3> QED
      BY <3>1, <2>2, <1>0, <1>7 DEF EntriesInv
  <2>3. ASSUME NEW u \in Threads, NEW q \in kept'[u]
        PROVE  resource'[q].owner = Main /\ u # Main
    BY <1>0, <1>3, <1>7 DEF EntriesInv
  <2>4. ASSUME NEW u \in Threads, NEW q \in 1 .. Len(resource'),
               resource'[q].owner = u, resource'[q].freed = None, phase'[u] # "gone"
        PROVE  resource'[q].handle \in DOMAIN list'[u] /\ list'[u][resource'[q].handle] = q
    <3>1. q \in 1 .. Len(resource)
      BY <1>8
    <3>2. ~(q = x /\ Destroys(t, x)) /\ resource[q].freed = None /\ resource[q].owner = u
          /\ resource'[q].handle = resource[q].handle
      BY <2>4, <3>1, <1>7, NoneAssumption
    <3>3. resource[q].handle \in DOMAIN list[u] /\ list[u][resource[q].handle] = q
      BY <3>1, <3>2, <2>4, <1>0 DEF EntriesInv
    <3>4. u = t => ~(x # 0 /\ resource[q].handle = h)
      <4> SUFFICES ASSUME u = t, x # 0, resource[q].handle = h PROVE FALSE
        OBVIOUS
      <4>1. q = x
        BY <3>3, <1>5
      <4>2. q \in kept[t]
        BY <3>2, <4>1 DEF Destroys, Kept
      <4> QED
        BY <4>1, <4>2, <3>2, <1>0 DEF EntriesInv
    <3> QED
      BY <3>2, <3>3, <3>4, <1>11
  <2> QED
    BY <2>2, <2>3, <2>4 DEF EntriesInv
<1>14. ASSUME NEW q \in 1 .. Len(resource), resource'[q].freed # resource[q].freed
       PROVE  resource[q].owner = t /\ q = list[t][resource[r].handle]
  <2>1. q = x /\ Destroys(t, x) /\ x # 0
    BY <1>14, <1>7, <1>3
  <2> QED
    BY <2>1, <1>1, <1>5, <1>6
<1> QED
  BY <1>9, <1>10, <1>12, <1>13, <1>14

LEMMA DroppedOwners ==
  ASSUME OwnerInv, NEW t \in Threads, Dropped(t)
  PROVE  OwnerInv'
<1>0. OwnerTypes
  BY DEF OwnerInv
<1>1. PICK r : r = counting[t].var.has
  OBVIOUS
<1>2. /\ counting[t].op = "drop" /\ counting' = [counting EXCEPT ![t] = Idle]
      /\ UNCHANGED <<phase, kept, held, stored>>
  BY DEF Dropped
<1>3. r \in 1 .. Len(resource) /\ counting[t].seen \in Int
  BY <1>1, <1>2, CountedFits
<1>4. CASE counting[t].seen = 1
  <2>1. ListFree(t, r)
    BY <1>1, <1>4 DEF Dropped
  <2>2. /\ SameOwners /\ EntriesInv' /\ OnlyOwnerDestroys'
        /\ list' \in [Threads -> Seq(0 .. Len(resource))]
    BY <2>1, <1>2, <1>3, ListFreeOwners
  <2>3. /\ VariablesInv' /\ StoredInv'
        /\ stored' \in [original : 0 .. Len(resource'), ls : Threads \cup {None}]
        /\ counting' \in [Threads -> [op : {"none", "store", "read", "drop"},
                               var : Variable \cup {None}, seen : Int]]
    BY <1>0, <1>2, <2>2, EndsKeep DEF OwnerTypes
  <2>4. DOMAIN resource' = DOMAIN resource
    BY <1>0, <2>2, LenProperties DEF OwnerTypes, SameOwners
  <2>5. OwnerTypes'
    BY <1>0, <1>2, <2>2, <2>3, <2>4 DEF OwnerTypes, SameOwners
  <2> QED
    BY <2>2, <2>3, <2>5 DEF OwnerInv
<1>5. CASE counting[t].seen # 1
  <2>1. PICK s : s = counting[t].seen - 1
    OBVIOUS
  <2>2. resource' = [resource EXCEPT ![r].refs = s] /\ UNCHANGED list
    BY <1>1, <1>5, <2>1 DEF Dropped
  <2>3. SameFreed
    <3>1. s \in Int
      BY <1>3, <2>1
    <3> QED
      BY <1>3, <2>2, <3>1, RefsFree
  <2> QED
    BY <1>0, <1>2, <2>2, <2>3, EndsFree DEF OwnerTypes
<1> QED
  BY <1>4, <1>5


\* A thread takes what it keeps out of its list: what is left is its own.
LEMMA CleanupOwners ==
  ASSUME OwnerInv, NEW t \in Threads, Cleanup(t)
  PROVE  OwnerInv' /\ resource' = resource
<1>0. OwnerTypes /\ EntriesInv
  BY DEF OwnerInv
<1>1. /\ t # Main /\ phase[t] = "run" /\ counting[t] = Idle
      /\ phase' = [phase EXCEPT ![t] = "shutdown"]
      /\ UNCHANGED <<kept, held, stored, counting>>
  BY DEF Cleanup
<1>2. /\ Len(resource) \in Nat /\ DOMAIN resource = 1 .. Len(resource)
      /\ list[t] \in Seq(0 .. Len(resource)) /\ DOMAIN list[t] = 1 .. Len(list[t])
      /\ Len(list[t]) \in Nat
      /\ \A u \in Threads : \A i \in DOMAIN list[u] : list[u][i] \in 0 .. Len(resource)
  BY <1>0, ResourceFacts
<1>3. resource' = resource
  <2>1. resource' = [r \in DOMAIN resource |-> resource[r]]
    BY <1>1 DEF Cleanup, Destroys
  <2>2. resource = [r \in DOMAIN resource |-> resource[r]]
    <3>1. resource \in [1 .. Len(resource) -> Res]
      BY <1>0, LenProperties DEF OwnerTypes
    <3> QED
      BY <3>1
  <2> QED
    BY <2>1, <2>2
<1>4. SameFreed /\ SameOwners
  BY <1>3, UnchangedOwners DEF SameFreed
<1>5. OnlyOwnerDestroys'
  BY <1>4, SameOwnersKeep
<1>6. /\ phase'[t] = "shutdown" /\ \A u \in Threads : u # t => phase'[u] = phase[u]
      /\ phase' \in [Threads -> {"run", "shutdown", "deactivate", "gone"}]
  BY <1>0, <1>1 DEF OwnerTypes
<1>7. counting' = [counting EXCEPT ![t] = Idle]
  BY <1>0, <1>1, IdleStays
<1>8. /\ VariablesInv' /\ StoredInv'
      /\ stored' \in [original : 0 .. Len(resource'), ls : Threads \cup {None}]
      /\ counting' \in [Threads -> [op : {"none", "store", "read", "drop"},
                               var : Variable \cup {None}, seen : Int]]
  BY <1>0, <1>1, <1>4, <1>6, <1>7, EndsKeep DEF OwnerTypes
<1>9. PICK l : l = [i \in DOMAIN list[t] |-> IF Kept(t, list[t][i]) THEN 0 ELSE list[t][i]]
  OBVIOUS
<1>10. list' = [list EXCEPT ![t] = l]
  BY <1>9 DEF Cleanup
<1>11. /\ list'[t] = l /\ \A u \in Threads : u # t => list'[u] = list[u]
  BY <1>0, <1>10 DEF OwnerTypes
<1>12. /\ DOMAIN l = DOMAIN list[t]
       /\ \A i \in DOMAIN list[t] : l[i] = IF list[t][i] \in kept[t] THEN 0 ELSE list[t][i]
  BY <1>9 DEF Kept
<1>13. l \in Seq(0 .. Len(resource))
  <2>1. l \in [1 .. Len(list[t]) -> 0 .. Len(resource)]
    BY <1>2, <1>9
  <2> QED
    BY <1>2, <2>1, FunctionIsSeq
<1>14. list' \in [Threads -> Seq(0 .. Len(resource))]
  BY <1>0, <1>10, <1>13 DEF OwnerTypes
<1>15. OwnerTypes'
  BY <1>0, <1>1, <1>3, <1>6, <1>8, <1>14 DEF OwnerTypes
<1>16. EntriesInv'
  <2>1. ASSUME NEW u \in Threads, NEW i \in DOMAIN list'[u], list'[u][i] # 0
        PROVE  LET y == list'[u][i] IN
               /\ resource'[y].owner = u \/ (y \in kept'[u] /\ phase'[u] = "run")
               /\ resource'[y].owner = u => i = resource'[y].handle
    <3>1. CASE u # t
      BY <3>1, <2>1, <1>0, <1>1, <1>3, <1>6, <1>11 DEF EntriesInv
    <3>2. CASE u = t
      <4>1. i \in DOMAIN list[t] /\ list'[t][i] = list[t][i] /\ list[t][i] \notin kept[t]
        BY <3>2, <2>1, <1>11, <1>12
      <4> QED
        BY <3>2, <4>1, <2>1, <1>0, <1>3 DEF EntriesInv
    <3> QED
      BY <3>1, <3>2
  <2>2. ASSUME NEW u \in Threads, NEW q \in kept'[u]
        PROVE  resource'[q].owner = Main /\ u # Main
    BY <1>0, <1>1, <1>3 DEF EntriesInv
  <2>3. ASSUME NEW u \in Threads, NEW q \in 1 .. Len(resource'),
               resource'[q].owner = u, resource'[q].freed = None, phase'[u] # "gone"
        PROVE  resource'[q].handle \in DOMAIN list'[u] /\ list'[u][resource'[q].handle] = q
    <3>1. phase[u] # "gone"
      BY <2>3, <1>1, <1>6
    <3>2. resource[q].handle \in DOMAIN list[u] /\ list[u][resource[q].handle] = q
      BY <2>3, <3>1, <1>0, <1>3 DEF EntriesInv
    <3>3. u = t => q \notin kept[t]
      BY <2>3, <1>0, <1>1, <1>3 DEF EntriesInv
    <3> QED
      BY <3>2, <3>3, <1>3, <1>11, <1>12
  <2> QED
    BY <2>1, <2>2, <2>3 DEF EntriesInv
<1> QED
  BY <1>3, <1>5, <1>8, <1>15, <1>16 DEF OwnerInv

LEMMA MainEndsOwners ==
  ASSUME OwnerInv, MainEnds
  PROVE  OwnerInv'
<1>0. OwnerTypes /\ EntriesInv /\ Main \in Threads
  BY ThreadsAssumption DEF OwnerInv
<1>1. /\ phase[Main] = "run" /\ counting[Main] = Idle
      /\ phase' = [phase EXCEPT ![Main] = "shutdown"]
      /\ UNCHANGED <<resource, list, kept, held, stored, counting>>
  BY DEF MainEnds
<1>2. SameFreed /\ SameOwners
  BY <1>1, UnchangedOwners DEF SameFreed
<1>3. OnlyOwnerDestroys'
  BY <1>2, SameOwnersKeep
<1>4. /\ phase'[Main] = "shutdown" /\ \A u \in Threads : u # Main => phase'[u] = phase[u]
      /\ phase' \in [Threads -> {"run", "shutdown", "deactivate", "gone"}]
  BY <1>0, <1>1 DEF OwnerTypes
<1>5. counting' = [counting EXCEPT ![Main] = Idle]
  BY <1>0, <1>1, IdleStays
<1>6. /\ VariablesInv' /\ StoredInv'
      /\ stored' \in [original : 0 .. Len(resource'), ls : Threads \cup {None}]
      /\ counting' \in [Threads -> [op : {"none", "store", "read", "drop"},
                               var : Variable \cup {None}, seen : Int]]
  BY <1>0, <1>1, <1>2, <1>4, <1>5, EndsKeep DEF OwnerTypes
<1>7. OwnerTypes'
  BY <1>0, <1>1, <1>4, <1>6 DEF OwnerTypes
<1>8. EntriesInv'
  <2>1. ASSUME NEW u \in Threads, NEW i \in DOMAIN list[u], list[u][i] # 0
        PROVE  LET y == list[u][i] IN
               /\ resource[y].owner = u \/ (y \in kept[u] /\ phase'[u] = "run")
               /\ resource[y].owner = u => i = resource[y].handle
    BY <2>1, <1>0, <1>4 DEF EntriesInv
  <2>2. ASSUME NEW u \in Threads, NEW q \in 1 .. Len(resource),
               resource[q].owner = u, resource[q].freed = None, phase'[u] # "gone"
        PROVE  resource[q].handle \in DOMAIN list[u] /\ list[u][resource[q].handle] = q
    BY <2>2, <1>0, <1>1, <1>4 DEF EntriesInv
  <2>3. \A u \in Threads : \A q \in kept[u] : resource[q].owner = Main /\ u # Main
    BY <1>0 DEF EntriesInv
  <2> QED
    BY <2>1, <2>2, <2>3, <1>1 DEF EntriesInv
<1> QED
  BY <1>3, <1>6, <1>7, <1>8 DEF OwnerInv

\* What is in a thread's list past its cleanup is its own.
LEMMA ListIsOwn ==
  ASSUME OwnerInv, NEW t \in Threads, phase[t] # "run",
         NEW r \in 1 .. Len(resource), \E i \in DOMAIN list[t] : list[t][i] = r
  PROVE  resource[r].owner = t
<1>1. PICK i \in DOMAIN list[t] : list[t][i] = r
  OBVIOUS
<1>2. list[t][i] # 0
  BY <1>1, ResourceFacts DEF OwnerInv
<1> QED
  BY <1>1, <1>2, DestroysOwn

\* The resources in a set, all of them the thread's own, are closed, and some
\* of them destroyed.
LEMMA OwnChange ==
  ASSUME OwnerInv, NEW t \in Threads, DOMAIN resource' = DOMAIN resource,
         resource' = [r \in DOMAIN resource' |-> resource'[r]],
         \A r \in 1 .. Len(resource) :
           \/ resource'[r] = resource[r]
           \/ /\ resource[r].owner = t
              /\ resource'[r] \in {Closed(t, resource[r]), Destroyed(t, resource[r])}
  PROVE  /\ SameOwners /\ OnlyOwnerDestroys'
         /\ \A r \in 1 .. Len(resource) : resource[r].owner # t => resource'[r] = resource[r]
<1>0. OwnerTypes
  BY DEF OwnerInv
<1>1. /\ Len(resource) \in Nat /\ DOMAIN resource = 1 .. Len(resource)
      /\ \A q \in 1 .. Len(resource) : resource[q] \in Res
  BY <1>0, ResourceFacts
<1>2. ASSUME NEW r \in 1 .. Len(resource)
      PROVE  /\ resource'[r] \in Res
             /\ resource'[r].owner = resource[r].owner
             /\ resource'[r].handle = resource[r].handle
             /\ resource'[r].freed \in {resource[r].freed, resource[r].owner}
             /\ resource'[r].closed \in {resource[r].closed, "program", resource[r].owner}
             /\ resource'[r].closed = None => resource[r].closed = None
  <2>0. resource[r] \in Res
    BY <1>1
  <2>1. CASE resource'[r] = resource[r]
    BY <2>0, <2>1
  <2>2. CASE resource[r].owner = t /\ resource'[r] = Closed(t, resource[r])
    <3>1. LET c == Closed(t, resource[r]) IN
              /\ c \in Res /\ c.owner = resource[r].owner /\ c.handle = resource[r].handle
              /\ c.freed = resource[r].freed
              /\ c.closed = IF resource[r].closed = None THEN t ELSE resource[r].closed
      BY <2>0, RecordFacts
    <3> QED
      BY <2>2, <3>1, NoneAssumption
  <2>3. CASE resource[r].owner = t /\ resource'[r] = Destroyed(t, resource[r])
    <3>1. LET c == Destroyed(t, resource[r]) IN
              /\ c \in Res /\ c.owner = resource[r].owner /\ c.handle = resource[r].handle
              /\ c.freed = t
              /\ c.closed = IF resource[r].closed = None THEN t ELSE resource[r].closed
      BY <2>0, RecordFacts
    <3> QED
      BY <2>3, <3>1, NoneAssumption
  <2> QED
    BY <2>1, <2>2, <2>3
<1>3. resource' \in Seq(Res) /\ Len(resource') = Len(resource)
  <2>1. resource' \in [1 .. Len(resource) -> Res]
    BY <1>1, <1>2
  <2> QED
    BY <2>1, <1>1, FunctionIsSeq
<1>4. SameOwners
  BY <1>2, <1>3 DEF SameOwners
<1> QED
  BY <1>4, SameOwnersKeep

\* php_request_shutdown closes what is in the list, ...
LEMMA CloseListOwners ==
  ASSUME OwnerInv, NEW t \in Threads, CloseList(t)
  PROVE  OwnerInv' /\ SameFreed
<1>0. OwnerTypes /\ EntriesInv
  BY DEF OwnerInv
<1>1. /\ phase[t] = "shutdown" /\ counting[t] = Idle
      /\ phase' = [phase EXCEPT ![t] = "deactivate"]
      /\ UNCHANGED <<list, kept, held, stored, counting>>
  BY DEF CloseList
<1>2. /\ Len(resource) \in Nat /\ DOMAIN resource = 1 .. Len(resource)
      /\ \A q \in 1 .. Len(resource) : resource[q] \in Res
      /\ \A u \in Threads : \A i \in DOMAIN list[u] : list[u][i] \in 0 .. Len(resource)
      /\ \A u \in Threads : kept[u] \subseteq 1 .. Len(resource)
  BY <1>0, ResourceFacts
<1>3. /\ DOMAIN resource' = DOMAIN resource
      /\ resource' = [r \in DOMAIN resource' |-> resource'[r]]
      /\ \A r \in 1 .. Len(resource) :
           \/ resource'[r] = resource[r]
           \/ /\ \E i \in DOMAIN list[t] : list[t][i] = r
              /\ resource'[r] = Closed(t, resource[r])
  BY <1>2 DEF CloseList
<1>4. \A r \in 1 .. Len(resource) :
        \/ resource'[r] = resource[r]
        \/ resource[r].owner = t /\ resource'[r] = Closed(t, resource[r])
  <2>1. phase[t] # "run"
    BY <1>1
  <2> QED
    BY <1>3, <2>1, ListIsOwn
<1>5. SameOwners /\ OnlyOwnerDestroys'
  BY <1>3, <1>4, OwnChange
<1>6. SameFreed
  <2>1. ASSUME NEW r \in 1 .. Len(resource) PROVE resource'[r].freed = resource[r].freed
    <3>1. Closed(t, resource[r]).freed = resource[r].freed
      BY <1>2, RecordFacts
    <3> QED
      BY <3>1, <1>4
  <2> QED
    BY <2>1, <1>5 DEF SameFreed
<1>7. /\ phase'[t] = "deactivate" /\ \A u \in Threads : u # t => phase'[u] = phase[u]
      /\ phase' \in [Threads -> {"run", "shutdown", "deactivate", "gone"}]
  BY <1>0, <1>1 DEF OwnerTypes
<1>8. counting' = [counting EXCEPT ![t] = Idle]
  BY <1>0, <1>1, IdleStays
<1>9. /\ VariablesInv' /\ StoredInv'
      /\ stored' \in [original : 0 .. Len(resource'), ls : Threads \cup {None}]
      /\ counting' \in [Threads -> [op : {"none", "store", "read", "drop"},
                               var : Variable \cup {None}, seen : Int]]
  BY <1>0, <1>1, <1>5, <1>7, <1>8, EndsKeep DEF OwnerTypes
<1>10. OwnerTypes'
  BY <1>0, <1>1, <1>3, <1>5, <1>7, <1>9 DEF OwnerTypes, SameOwners
<1>11. EntriesInv'
  <2>1. ASSUME NEW u \in Threads, NEW i \in DOMAIN list[u], list[u][i] # 0
        PROVE  LET y == list[u][i] IN
               /\ resource'[y].owner = u \/ (y \in kept[u] /\ phase'[u] = "run")
               /\ resource'[y].owner = u => i = resource'[y].handle
    <3>1. list[u][i] \in 1 .. Len(resource)
      BY <2>1, <1>2
    <3> QED
      BY <2>1, <3>1, <1>0, <1>1, <1>5, <1>7 DEF EntriesInv, SameOwners
  <2>2. ASSUME NEW u \in Threads, NEW q \in 1 .. Len(resource'),
               resource'[q].owner = u, resource'[q].freed = None, phase'[u] # "gone"
        PROVE  resource'[q].handle \in DOMAIN list[u] /\ list[u][resource'[q].handle] = q
    <3>1. q \in 1 .. Len(resource) /\ resource[q].owner = u /\ resource[q].freed = None
          /\ resource'[q].handle = resource[q].handle /\ phase[u] # "gone"
      BY <2>2, <1>1, <1>6, <1>7 DEF SameFreed, SameOwners
    <3> QED
      BY <3>1, <1>0 DEF EntriesInv
  <2>3. \A u \in Threads : \A q \in kept[u] : resource'[q].owner = Main /\ u # Main
    BY <1>0, <1>2, <1>5 DEF EntriesInv, SameOwners
  <2> QED
    BY <2>1, <2>2, <2>3, <1>1 DEF EntriesInv
<1> QED
  BY <1>5, <1>6, <1>9, <1>10, <1>11 DEF OwnerInv

\* ... which is the thread's own, and destroys it in the end.
LEMMA DestroyListOwners ==
  ASSUME OwnerInv, NEW t \in Threads, DestroyList(t)
  PROVE  /\ OwnerInv' /\ SameOwners
         /\ \A q \in 1 .. Len(resource) : resource[q].owner # t => resource'[q] = resource[q]
<1>0. OwnerTypes /\ EntriesInv
  BY DEF OwnerInv
<1>1. /\ phase[t] = "deactivate" /\ counting[t] = Idle
      /\ phase' = [phase EXCEPT ![t] = "gone"]
      /\ list' = [list EXCEPT ![t] = <<>>] /\ kept' = [kept EXCEPT ![t] = {}]
      /\ UNCHANGED <<held, stored, counting>>
  BY DEF DestroyList
<1>2. /\ Len(resource) \in Nat /\ DOMAIN resource = 1 .. Len(resource)
      /\ \A u \in Threads : \A i \in DOMAIN list[u] : list[u][i] \in 0 .. Len(resource)
      /\ \A u \in Threads : kept[u] \subseteq 1 .. Len(resource)
  BY <1>0, ResourceFacts
<1>3. /\ DOMAIN resource' = DOMAIN resource
      /\ resource' = [r \in DOMAIN resource' |-> resource'[r]]
      /\ \A r \in 1 .. Len(resource) :
           \/ resource'[r] = resource[r]
           \/ /\ \E i \in DOMAIN list[t] : list[t][i] = r
              /\ resource'[r] = Destroyed(t, resource[r])
  BY <1>2 DEF DestroyList
<1>4. \A r \in 1 .. Len(resource) :
        \/ resource'[r] = resource[r]
        \/ resource[r].owner = t /\ resource'[r] = Destroyed(t, resource[r])
  <2>1. phase[t] # "run"
    BY <1>1
  <2> QED
    BY <1>3, <2>1, ListIsOwn
<1>5. /\ SameOwners /\ OnlyOwnerDestroys'
      /\ \A q \in 1 .. Len(resource) : resource[q].owner # t => resource'[q] = resource[q]
  BY <1>3, <1>4, OwnChange
<1>6. /\ phase'[t] = "gone" /\ \A u \in Threads : u # t => phase'[u] = phase[u]
      /\ phase' \in [Threads -> {"run", "shutdown", "deactivate", "gone"}]
      /\ list'[t] = <<>> /\ \A u \in Threads : u # t => list'[u] = list[u]
      /\ kept'[t] = {} /\ \A u \in Threads : u # t => kept'[u] = kept[u]
  BY <1>0, <1>1 DEF OwnerTypes
<1>7. counting' = [counting EXCEPT ![t] = Idle]
  BY <1>0, <1>1, IdleStays
<1>8. /\ VariablesInv' /\ StoredInv'
      /\ stored' \in [original : 0 .. Len(resource'), ls : Threads \cup {None}]
      /\ counting' \in [Threads -> [op : {"none", "store", "read", "drop"},
                               var : Variable \cup {None}, seen : Int]]
  BY <1>0, <1>1, <1>5, <1>6, <1>7, EndsKeep DEF OwnerTypes
<1>9. OwnerTypes'
  <2>1. Len(resource') = Len(resource) /\ resource' \in Seq(Res)
    BY <1>5 DEF SameOwners
  <2>2. list' \in [Threads -> Seq(0 .. Len(resource'))]
    BY <1>0, <1>1, <2>1, EmptySeq DEF OwnerTypes
  <2>3. kept' \in [Threads -> SUBSET DOMAIN resource']
    BY <1>0, <1>1, <1>3 DEF OwnerTypes
  <2> QED
    BY <1>0, <1>1, <1>6, <1>8, <2>1, <2>2, <2>3 DEF OwnerTypes
<1>10. EntriesInv'
  <2>1. ASSUME NEW u \in Threads, NEW i \in DOMAIN list'[u], list'[u][i] # 0
        PROVE  LET y == list'[u][i] IN
               /\ resource'[y].owner = u \/ (y \in kept'[u] /\ phase'[u] = "run")
               /\ resource'[y].owner = u => i = resource'[y].handle
    <3>1. u # t
      BY <1>6
    <3>2. i \in DOMAIN list[u] /\ list'[u][i] = list[u][i] /\ list[u][i] \in 1 .. Len(resource)
      BY <3>1, <2>1, <1>2, <1>6
    <3> QED
      BY <3>1, <3>2, <2>1, <1>0, <1>5, <1>6 DEF EntriesInv, SameOwners
  <2>2. ASSUME NEW u \in Threads, NEW q \in kept'[u]
        PROVE  resource'[q].owner = Main /\ u # Main
    BY <1>0, <1>2, <1>5, <1>6 DEF EntriesInv, SameOwners
  <2>3. ASSUME NEW u \in Threads, NEW q \in 1 .. Len(resource'),
               resource'[q].owner = u, resource'[q].freed = None, phase'[u] # "gone"
        PROVE  resource'[q].handle \in DOMAIN list'[u] /\ list'[u][resource'[q].handle] = q
    <3>1. u # t /\ q \in 1 .. Len(resource) /\ resource[q].owner = u
      BY <2>3, <1>5, <1>6 DEF SameOwners
    <3>2. resource'[q] = resource[q] /\ phase[u] # "gone"
      BY <2>3, <3>1, <1>5, <1>6
    <3>3. resource[q].handle \in DOMAIN list[u] /\ list[u][resource[q].handle] = q
      BY <2>3, <3>1, <3>2, <1>0 DEF EntriesInv
    <3> QED
      BY <3>1, <3>2, <3>3, <1>6
  <2> QED
    BY <2>1, <2>2, <2>3 DEF EntriesInv
<1> QED
  BY <1>5, <1>8, <1>9, <1>10 DEF OwnerInv

LEMMA OwnerInvInit == ResourcesInit => OwnerInv
<1> SUFFICES ASSUME ResourcesInit PROVE OwnerInv
  OBVIOUS
<1>1. /\ resource = <<>> /\ resource \in Seq(Res) /\ Len(resource) = 0 /\ DOMAIN resource = {}
      /\ <<>> \in Seq(0 .. Len(resource))
  <2>1. resource = <<>> /\ resource \in Seq(Res) /\ Len(resource) = 0
    BY EmptySeq DEF ResourcesInit
  <2> QED
    BY <2>1, EmptySeq
<1>2. OwnerTypes
  BY <1>1, LimitAssumption DEF ResourcesInit, OwnerTypes, Empty, Idle
<1>3. VariablesInv
  BY DEF ResourcesInit, VariablesInv, Busy, Idle
<1>4. EntriesInv
  BY <1>1 DEF ResourcesInit, EntriesInv
<1>5. StoredInv
  BY DEF ResourcesInit, StoredInv, Empty, Idle
<1>6. OnlyOwnerDestroys
  BY <1>1 DEF OnlyOwnerDestroys
<1> QED
  BY <1>2, <1>3, <1>4, <1>5, <1>6 DEF OwnerInv

LEMMA OwnerInvStutters ==
  ASSUME OwnerInv, UNCHANGED resourceVars
  PROVE  OwnerInv'
  BY DEF OwnerInv, OwnerTypes, VariablesInv, Busy, EntriesInv, StoredInv, OnlyOwnerDestroys,
         resourceVars

LEMMA OwnerInvNext ==
  ASSUME OwnersOnly, OwnerInv, [ResourcesNext]_resourceVars
  PROVE  OwnerInv'
<1>1. CASE UNCHANGED resourceVars
  BY <1>1, OwnerInvStutters
<1>2. CASE MainEnds
  BY <1>2, MainEndsOwners
<1>3. ASSUME NEW t \in Threads, Program(t)
      PROVE  OwnerInv'
  BY <1>3, OpenOwners, CloseOwners, WriteOwners, UnsetOwners, DropOwners, ReadOwnOwners,
     ReadForeignOwners DEF Program
<1>4. ASSUME NEW t \in Threads, Count(t) \/ Ends(t)
      PROVE  OwnerInv'
  BY <1>4, WrittenOwners, HasReadOwners, DroppedOwners, CleanupOwners, CloseListOwners,
     DestroyListOwners DEF Count, Ends
<1> QED
  BY <1>1, <1>2, <1>3, <1>4 DEF ResourcesNext

\* src/resources.c: a resource that the main thread shares is closed and freed by
\* the program or by its owner, never by a thread that has only read it, for any
\* number of threads and resources, and even when reference counts are updated by
\* several threads at a time.  It takes that only the main thread's resources are
\* stored, which outlive their readers, and that the property is not read by a
\* thread past its cleanup.
THEOREM OnlyOwnerAlwaysDestroys ==
  ASSUME Sharers \subseteq {Main}, ShutdownReads = FALSE
  PROVE  ResourcesSpec => []OnlyOwnerDestroys
<1>0. OwnersOnly
  BY DEF OwnersOnly
<1>1. ResourcesInit => OwnerInv
  BY OwnerInvInit
<1>2. OwnerInv /\ [ResourcesNext]_resourceVars => OwnerInv'
  BY <1>0, OwnerInvNext
<1>3. OwnerInv => OnlyOwnerDestroys
  BY DEF OwnerInv
<1> QED
  BY <1>1, <1>2, <1>3, PTL DEF ResourcesSpec

-----------------------------------------------------------------------------
(* Resources: the pointers.                                                *)

\* The main thread ends last, and a thread that drops a variable with a
\* resource of its own has given the resource up and has not freed it yet.
GivenUpInv ==
  /\ taken \in 0 .. MaxTaken /\ givenUp \subseteq 1 .. Len(resource)
  /\ phase[Main] # "run" => \A u \in Threads : u # Main => phase[u] = "gone"
  /\ \A t \in Threads : counting[t].op = "drop" =>
       LET r == counting[t].var.has IN
       resource[r].owner = t => r \in givenUp /\ resource[r].freed = None

\* What the main thread frees it has given up, or everything has ended.
FreedInv ==
  \A r \in 1 .. Len(resource) :
    resource[r].owner = Main /\ resource[r].freed # None =>
      r \in givenUp \/ \A u \in Threads : phase[u] = "gone"

\* An open resource is the one that was meant.
MeantInv ==
  \A t \in Threads, v \in Variable : v \in held[t] \/ (Busy(t) /\ v = counting[t].var) =>
    (resource[v.meant].closed = None => v.has = v.meant)

PointerInv == OwnerInv /\ GivenUpInv /\ FreedInv /\ MeantInv

LEMMA MeantKept ==
  ASSUME OwnerInv, MeantInv, SameOwners,
         \A t \in Threads, v \in Variable : v \in held'[t] \/ (Busy(t)' /\ v = counting'[t].var) =>
           \/ v \in held[t] \/ (Busy(t) /\ v = counting[t].var)
           \/ /\ v.meant \in 1 .. Len(resource)
              /\ resource[v.meant].closed = None => v.has = v.meant
  PROVE  MeantInv'
<1> SUFFICES ASSUME NEW t \in Threads, NEW v \in Variable,
                    v \in held'[t] \/ (Busy(t)' /\ v = counting'[t].var),
                    resource'[v.meant].closed = None
             PROVE  v.has = v.meant
  BY Zenon DEF MeantInv
<1>0. \A r \in 1 .. Len(resource) : resource'[r].closed = None => resource[r].closed = None
  BY DEF SameOwners
<1>1. CASE v \in held[t] \/ (Busy(t) /\ v = counting[t].var)
  <2>1. v.meant \in 1 .. Len(resource)
    BY <1>1, HeldFits
  <2> QED
    BY <1>0, <1>1, <2>1 DEF MeantInv
<1>2. CASE /\ v.meant \in 1 .. Len(resource)
           /\ resource[v.meant].closed = None => v.has = v.meant
  BY <1>0, <1>2
<1> QED
  BY <1>1, <1>2

\* What a thread frees is its own, and, if it is the main thread, given up or
\* the last of everything.
LEMMA PointerStep ==
  ASSUME PointerInv, OwnerInv', SameOwners, NEW t \in Threads,
         taken' \in 0 .. MaxTaken,
         givenUp \subseteq givenUp', givenUp' \subseteq 1 .. Len(resource),
         phase'[Main] # "run" => \A u \in Threads : u # Main => phase'[u] = "gone",
         \A u \in Threads : phase[u] = "gone" => phase'[u] = "gone",
         \A u \in Threads : u # t => counting'[u] = counting[u],
         counting'[t].op = "drop" =>
           LET r == counting'[t].var.has IN
           resource'[r].owner = t => r \in givenUp' /\ resource'[r].freed = None,
         \A r \in 1 .. Len(resource) : resource'[r].freed # resource[r].freed =>
           /\ resource[r].owner = t
           /\ t = Main => r \in givenUp' \/ \A u \in Threads : phase'[u] = "gone",
         \A u \in Threads, v \in Variable : v \in held'[u] \/ (Busy(u)' /\ v = counting'[u].var) =>
           \/ v \in held[u] \/ (Busy(u) /\ v = counting[u].var)
           \/ /\ v.meant \in 1 .. Len(resource)
              /\ resource[v.meant].closed = None => v.has = v.meant
  PROVE  PointerInv'
<1>0. OwnerInv /\ GivenUpInv /\ FreedInv /\ MeantInv
  BY DEF PointerInv
<1>1. MeantInv'
  BY <1>0, MeantKept
<1>2. /\ Len(resource') = Len(resource)
      /\ \A r \in 1 .. Len(resource) : resource'[r].owner = resource[r].owner
  BY DEF SameOwners
<1>3. ASSUME NEW u \in Threads, counting'[u].op = "drop",
             resource'[counting'[u].var.has].owner = u
      PROVE  /\ counting'[u].var.has \in givenUp'
             /\ resource'[counting'[u].var.has].freed = None
  <2>1. CASE u = t
    BY <2>1, <1>3
  <2>2. CASE u # t
    <3>1. counting[u].op = "drop" /\ counting'[u] = counting[u]
      BY <2>2, <1>3
    <3>2. counting[u].var.has \in 1 .. Len(resource)
      BY <1>0, <3>1, CountedFits
    <3>3. resource[counting[u].var.has].owner = u
      BY <1>2, <1>3, <3>1, <3>2
    <3>4. counting[u].var.has \in givenUp /\ resource[counting[u].var.has].freed = None
      BY <1>0, <3>1, <3>3 DEF GivenUpInv
    <3> QED
      BY <2>2, <3>1, <3>2, <3>3, <3>4
  <2> QED
    BY <2>1, <2>2
<1>4. GivenUpInv'
  BY <1>2, <1>3 DEF GivenUpInv
<1>5. ASSUME NEW r \in 1 .. Len(resource'), resource'[r].owner = Main, resource'[r].freed # None
      PROVE  r \in givenUp' \/ \A u \in Threads : phase'[u] = "gone"
  <2>1. r \in 1 .. Len(resource) /\ resource[r].owner = Main
    BY <1>2, <1>5
  <2>2. CASE resource[r].freed = None
    BY <2>1, <2>2, <1>5
  <2>3. CASE resource[r].freed # None
    BY <2>1, <2>3, <1>0 DEF FreedInv
  <2> QED
    BY <2>2, <2>3
<1>6. FreedInv'
  BY <1>5 DEF FreedInv
<1> QED
  BY <1>1, <1>4, <1>6 DEF PointerInv

\* A step that frees nothing and gives nothing up, and after which its thread
\* drops nothing.
LEMMA QuietPointers ==
  ASSUME PointerInv, OwnerInv', SameFreed, NEW t \in Threads,
         taken' \in 0 .. MaxTaken, givenUp' = givenUp,
         phase'[Main] # "run" => \A u \in Threads : u # Main => phase'[u] = "gone",
         \A u \in Threads : phase[u] = "gone" => phase'[u] = "gone",
         \A u \in Threads : u # t => counting'[u] = counting[u],
         counting'[t].op # "drop",
         \A u \in Threads, v \in Variable : v \in held'[u] \/ (Busy(u)' /\ v = counting'[u].var) =>
           \/ v \in held[u] \/ (Busy(u) /\ v = counting[u].var)
           \/ /\ v.meant \in 1 .. Len(resource)
              /\ resource[v.meant].closed = None => v.has = v.meant
  PROVE  PointerInv'
<1>1. givenUp' \subseteq 1 .. Len(resource) /\ SameOwners
  BY DEF PointerInv, GivenUpInv, SameFreed
<1>2. \A r \in 1 .. Len(resource) : resource'[r].freed = resource[r].freed
  BY DEF SameFreed
<1> QED
  BY <1>1, <1>2, PointerStep

\* The thread begins to count a reference.
LEMMA BeginFacts ==
  ASSUME PointerInv, NEW t \in Threads, NEW v, NEW op \in {"store", "read", "drop"},
         Begin(t, op, v)
  PROVE  /\ taken' \in 0 .. MaxTaken
         /\ counting'[t].op = op /\ counting'[t].var = v
         /\ \A u \in Threads : u # t => counting'[u] = counting[u]
         /\ phase[Main] # "run" => \A u \in Threads : u # Main => phase[u] = "gone"
         /\ resource[v.has].freed = None
<1>0. OwnerTypes /\ GivenUpInv
  BY DEF PointerInv, OwnerInv
<1>1. taken' \in 0 .. MaxTaken
  BY <1>0, LimitAssumption DEF GivenUpInv, Begin
<1>2. PICK c : c = [op |-> op, var |-> v, seen |-> resource[v.has].refs]
  OBVIOUS
<1>3. counting' = [counting EXCEPT ![t] = c] /\ c.op = op /\ c.var = v
  BY <1>2 DEF Begin
<1>4. counting'[t] = c /\ \A u \in Threads : u # t => counting'[u] = counting[u]
  BY <1>0, <1>3 DEF OwnerTypes
<1> QED
  BY <1>0, <1>1, <1>3, <1>4 DEF GivenUpInv, Begin

\* A write or a read begins.
LEMMA BeginPointers ==
  ASSUME PointerInv, OwnerInv', NEW t \in Threads, NEW v, NEW op \in {"store", "read"},
         Begin(t, op, v), UNCHANGED <<phase, resource, held, givenUp>>,
         v.meant \in 1 .. Len(resource),
         resource[v.meant].closed = None => v.has = v.meant
  PROVE  PointerInv'
<1>0. OwnerInv
  BY DEF PointerInv
<1>1. /\ taken' \in 0 .. MaxTaken
      /\ counting'[t].op = op /\ counting'[t].var = v
      /\ \A u \in Threads : u # t => counting'[u] = counting[u]
      /\ phase[Main] # "run" => \A u \in Threads : u # Main => phase[u] = "gone"
  BY BeginFacts
<1>2. SameFreed
  BY <1>0, UnchangedOwners
<1>3. ASSUME NEW u \in Threads, NEW w \in Variable,
             w \in held'[u] \/ (Busy(u)' /\ w = counting'[u].var)
      PROVE  \/ w \in held[u] \/ (Busy(u) /\ w = counting[u].var)
             \/ /\ w.meant \in 1 .. Len(resource)
                /\ resource[w.meant].closed = None => w.has = w.meant
  BY <1>1, <1>3 DEF Busy
<1>4. counting'[t].op # "drop"
  BY <1>1
<1> QED
  BY <1>1, <1>2, <1>3, <1>4, QuietPointers

LEMMA WritePointers ==
  ASSUME PointerInv, OwnerInv', NEW t \in Threads, Write(t)
  PROVE  PointerInv'
<1>0. OwnerInv /\ OwnerTypes /\ MeantInv
  BY DEF PointerInv, OwnerInv
<1>1. PICK v \in held[t] : Begin(t, "store", v)
  BY DEF Write
<1>2. UNCHANGED <<phase, resource, held, givenUp>>
  BY DEF Write
<1>3. v \in Variable /\ v.meant \in 1 .. Len(resource)
  BY <1>0, HeldFits DEF Fits
<1>4. resource[v.meant].closed = None => v.has = v.meant
  BY <1>0, <1>3 DEF MeantInv
<1> QED
  BY <1>1, <1>2, <1>3, <1>4, BeginPointers

LEMMA ReadPointers ==
  ASSUME PointerInv, OwnerInv', NEW t \in Threads,
         ReadOwn(t) \/ ReadFound(t) \/ ReadForeign(t)
  PROVE  PointerInv'
<1>0. OwnerInv /\ OwnerTypes
  BY DEF PointerInv, OwnerInv
<1>1. PICK o : o = stored.original
  OBVIOUS
<1>2. /\ o \in 1 .. Len(resource) /\ o # 0 /\ UNCHANGED <<phase, resource, held, givenUp>>
  <2>1. stored # Empty /\ UNCHANGED <<phase, resource, held, givenUp>>
    BY DEF ReadOwn, ReadFound, ReadForeign
  <2>2. o \in 1 .. Len(resource)
    BY <1>0, <1>1, <2>1, StoredIs
  <2> QED
    BY <1>0, <2>1, <2>2, ResourceFacts
<1>3. CASE ReadOwn(t) \/ ReadForeign(t)
  <2>1. PICK v : v = [meant |-> o, has |-> o]
    OBVIOUS
  <2>2. Begin(t, "read", v) /\ v.meant = o /\ v.has = o
    BY <1>1, <1>3, <2>1 DEF ReadOwn, ReadForeign
  <2> QED
    BY <1>2, <2>2, BeginPointers
<1>4. CASE ReadFound(t)
  <2>1. PICK i \in Found(t, o) : Begin(t, "read", [meant |-> o, has |-> list[t][i]])
    BY <1>4, <1>1 DEF ReadFound
  <2>2. i \in DOMAIN list[t] /\ list[t][i] # 0 /\ Ptr(list[t][i]) = Ptr(o)
    BY <2>1 DEF Found
  <2>3. PICK v : v = [meant |-> o, has |-> list[t][i]]
    OBVIOUS
  <2>4. Begin(t, "read", v) /\ v.meant = o /\ v.has = list[t][i]
    BY <2>1, <2>3
  <2>5. resource[o].closed = None => list[t][i] = o
    BY <1>2, <2>2 DEF Ptr
  <2> QED
    BY <1>2, <2>4, <2>5, BeginPointers
<1> QED
  BY <1>3, <1>4

LEMMA DropPointers ==
  ASSUME PointerInv, OwnerInv', NEW t \in Threads, Drop(t)
  PROVE  PointerInv'
<1>0. OwnerInv /\ OwnerTypes /\ GivenUpInv
  BY DEF PointerInv, OwnerInv
<1>1. PICK v \in held[t] :
        /\ Begin(t, "drop", v) /\ held' = [held EXCEPT ![t] = @ \ {v}]
        /\ givenUp' = givenUp \cup {r \in {v.has} : resource[r].owner = t}
  BY DEF Drop
<1>2. UNCHANGED <<phase, resource>>
  BY DEF Drop
<1>3. /\ taken' \in 0 .. MaxTaken
      /\ counting'[t].op = "drop" /\ counting'[t].var = v
      /\ \A u \in Threads : u # t => counting'[u] = counting[u]
      /\ phase[Main] # "run" => \A u \in Threads : u # Main => phase[u] = "gone"
      /\ resource[v.has].freed = None
  BY <1>1, BeginFacts
<1>4. v.has \in 1 .. Len(resource)
  BY <1>0, HeldFits
<1>5. SameOwners /\ \A r \in 1 .. Len(resource) : resource'[r].freed = resource[r].freed
  BY <1>0, <1>2, UnchangedOwners DEF SameFreed
<1>6. givenUp \subseteq givenUp' /\ givenUp' \subseteq 1 .. Len(resource)
  BY <1>0, <1>1, <1>4 DEF GivenUpInv
<1>7. ASSUME NEW u \in Threads, NEW w \in Variable,
             w \in held'[u] \/ (Busy(u)' /\ w = counting'[u].var)
      PROVE  w \in held[u] \/ (Busy(u) /\ w = counting[u].var)
  BY <1>0, <1>1, <1>3, <1>7 DEF Busy, OwnerTypes
<1>8. resource'[counting'[t].var.has].owner = t =>
        /\ counting'[t].var.has \in givenUp'
        /\ resource'[counting'[t].var.has].freed = None
  BY <1>1, <1>2, <1>3
<1> QED
  BY <1>2, <1>3, <1>5, <1>6, <1>7, <1>8, PointerStep

\* A step after which its thread counts nothing, and which frees nothing.
LEMMA DonePointers ==
  ASSUME PointerInv, OwnerInv', SameFreed, NEW t \in Threads,
         UNCHANGED <<phase, taken, givenUp>>,
         counting' = [counting EXCEPT ![t] = Idle],
         \A u \in Threads : \A v \in held'[u] :
           v \in held[u] \/ (u = t /\ Busy(t) /\ v = counting[t].var)
  PROVE  PointerInv'
<1>0. OwnerTypes /\ GivenUpInv
  BY DEF PointerInv, OwnerInv
<1>1. /\ counting'[t] = Idle /\ Idle.op = "none"
      /\ \A u \in Threads : u # t => counting'[u] = counting[u]
  BY <1>0 DEF OwnerTypes, Idle
<1>2. \A u \in Threads, v \in Variable :
        v \in held'[u] \/ (Busy(u)' /\ v = counting'[u].var) =>
          v \in held[u] \/ (Busy(u) /\ v = counting[u].var)
  BY <1>1 DEF Busy
<1>3. /\ taken' \in 0 .. MaxTaken
      /\ phase'[Main] # "run" => \A u \in Threads : u # Main => phase'[u] = "gone"
  BY <1>0 DEF GivenUpInv
<1>4. counting'[t].op # "drop"
  BY <1>1
<1> QED
  BY <1>1, <1>2, <1>3, <1>4, QuietPointers

LEMMA CountPointers ==
  ASSUME PointerInv, OwnerInv', NEW t \in Threads,
         Close(t) \/ Unset(t) \/ Written(t) \/ HasRead(t)
  PROVE  PointerInv'
<1>0. OwnerInv /\ OwnerTypes
  BY DEF PointerInv, OwnerInv
<1>1. UNCHANGED <<phase, taken, givenUp>>
  BY DEF Close, Unset, Written, HasRead
<1>2. counting' = [counting EXCEPT ![t] = Idle]
  BY <1>0, IdleStays DEF Close, Unset, Written, HasRead
<1>3. ASSUME NEW u \in Threads, NEW v \in held'[u]
      PROVE  v \in held[u] \/ (u = t /\ Busy(t) /\ v = counting[t].var)
  <2>1. CASE HasRead(t)
    BY <2>1, <1>0 DEF HasRead, OwnerTypes, Busy
  <2>2. CASE Close(t) \/ Unset(t) \/ Written(t)
    BY <2>2 DEF Close, Unset, Written
  <2> QED
    BY <2>1, <2>2
<1>4. SameFreed
  <2>1. CASE Unset(t)
    BY <2>1, <1>0, UnchangedOwners DEF Unset
  <2>2. CASE Close(t)
    BY <2>2, <1>0, CloseFree
  <2>3. CASE Written(t) \/ HasRead(t)
    <3>1. PICK r, s : r = counting[t].var.has /\ s = counting[t].seen + 1
      OBVIOUS
    <3>2. resource' = [resource EXCEPT ![r].refs = s] /\ counting[t].op # "none"
      BY <2>3, <3>1 DEF Written, HasRead
    <3>3. r \in 1 .. Len(resource) /\ s \in Int
      BY <1>0, <3>1, <3>2, CountedFits
    <3> QED
      BY <1>0, <3>2, <3>3, RefsFree
  <2> QED
    BY <2>1, <2>2, <2>3
<1> QED
  BY <1>1, <1>2, <1>3, <1>4, DonePointers

\* The main thread frees by count only what it has given up.
LEMMA DroppedPointers ==
  ASSUME PointerInv, OwnerInv', NEW t \in Threads, Dropped(t)
  PROVE  PointerInv'
<1>0. OwnerInv /\ OwnerTypes /\ EntriesInv /\ VariablesInv /\ GivenUpInv
  BY DEF PointerInv, OwnerInv
<1>1. PICK r : r = counting[t].var.has
  OBVIOUS
<1>2. /\ counting[t].op = "drop" /\ counting' = [counting EXCEPT ![t] = Idle]
      /\ UNCHANGED <<phase, kept, held, taken, givenUp>>
  BY DEF Dropped
<1>3. r \in 1 .. Len(resource) /\ counting[t].seen \in Int
  BY <1>0, <1>1, <1>2, CountedFits
<1>4. CASE counting[t].seen # 1
  <2>1. PICK s : s = counting[t].seen - 1
    OBVIOUS
  <2>2. resource' = [resource EXCEPT ![r].refs = s] /\ s \in Int
    BY <1>1, <1>3, <1>4, <2>1 DEF Dropped
  <2>3. SameFreed
    BY <1>0, <1>3, <2>2, RefsFree
  <2> QED
    BY <1>2, <2>3, DonePointers
<1>5. CASE counting[t].seen = 1
  <2>1. ListFree(t, r)
    BY <1>1, <1>5 DEF Dropped
  <2>2. /\ SameOwners
        /\ \A q \in 1 .. Len(resource) : resource'[q].freed # resource[q].freed =>
             resource[q].owner = t /\ q = list[t][resource[r].handle]
    BY <2>1, <1>0, <1>2, <1>3, ListFreeOwners
  <2>3. /\ counting'[t] = Idle /\ Idle.op = "none"
        /\ \A u \in Threads : u # t => counting'[u] = counting[u]
    BY <1>0, <1>2 DEF OwnerTypes, Idle
  <2>4. ASSUME NEW q \in 1 .. Len(resource), resource'[q].freed # resource[q].freed, t = Main
        PROVE  q \in givenUp'
    <3>1. Fits(t, counting[t].var)
      BY <1>0, <1>2, HeldFits DEF Busy
    <3>2. resource[r].owner = t
      BY <1>1, <2>4, <3>1 DEF Fits
    <3>3. r \in givenUp /\ resource[r].freed = None
      BY <1>0, <1>1, <1>2, <3>2 DEF GivenUpInv
    <3>4. phase[t] # "gone"
      BY <1>0, <1>2 DEF VariablesInv, Busy
    <3>5. list[t][resource[r].handle] = r
      BY <1>0, <1>3, <3>2, <3>3, <3>4 DEF EntriesInv
    <3> QED
      BY <1>2, <2>2, <2>4, <3>3, <3>5
  <2>5. \A u \in Threads, v \in Variable :
          v \in held'[u] \/ (Busy(u)' /\ v = counting'[u].var) =>
            v \in held[u] \/ (Busy(u) /\ v = counting[u].var)
    BY <1>2, <2>3 DEF Busy
  <2>6. /\ taken' \in 0 .. MaxTaken
        /\ givenUp \subseteq givenUp' /\ givenUp' \subseteq 1 .. Len(resource)
        /\ phase'[Main] # "run" => \A u \in Threads : u # Main => phase'[u] = "gone"
    BY <1>0, <1>2 DEF GivenUpInv
  <2>7. counting'[t].op # "drop"
    BY <2>3
  <2> QED
    BY <1>2, <2>2, <2>3, <2>4, <2>5, <2>6, <2>7, PointerStep
<1> QED
  BY <1>4, <1>5

\* The ends of threads: the main thread's comes last.
LEMMA EndPointers ==
  ASSUME PointerInv, OwnerInv', NEW t \in Threads,
         Cleanup(t) \/ CloseList(t) \/ DestroyList(t) \/ (t = Main /\ MainEnds)
  PROVE  PointerInv'
<1>0. OwnerInv /\ OwnerTypes /\ GivenUpInv /\ Main \in Threads
  BY ThreadsAssumption DEF PointerInv, OwnerInv
<1>1. /\ counting[t] = Idle /\ UNCHANGED <<held, counting, taken, givenUp>>
      /\ phase[t] # "gone"
  BY DEF Cleanup, CloseList, DestroyList, MainEnds
<1>2. /\ \A u \in Threads : u # t => phase'[u] = phase[u]
      /\ phase'[t] \in {"shutdown", "deactivate", "gone"}
      /\ DestroyList(t) => phase'[t] = "gone"
  BY <1>0 DEF OwnerTypes, Cleanup, CloseList, DestroyList, MainEnds
<1>3. \A u \in Threads : phase[u] = "gone" => phase'[u] = "gone"
  BY <1>1, <1>2
<1>4. phase'[Main] # "run" => \A u \in Threads : u # Main => phase'[u] = "gone"
  <2>1. CASE t = Main /\ phase[Main] = "run"
    <3>1. MainEnds
      BY <2>1 DEF Cleanup, CloseList, DestroyList
    <3> QED
      BY <3>1, <1>3 DEF MainEnds
  <2>2. CASE t = Main /\ phase[Main] # "run"
    BY <2>2, <1>0, <1>3 DEF GivenUpInv
  <2>3. CASE t # Main
    BY <2>3, <1>0, <1>2, <1>3 DEF GivenUpInv
  <2> QED
    BY <2>1, <2>2, <2>3
<1>5. /\ SameOwners
      /\ \A r \in 1 .. Len(resource) : resource'[r].freed # resource[r].freed =>
           /\ resource[r].owner = t
           /\ t = Main => \A u \in Threads : phase'[u] = "gone"
  <2>1. CASE DestroyList(t)
    <3>1. /\ SameOwners
          /\ \A q \in 1 .. Len(resource) : resource[q].owner # t => resource'[q] = resource[q]
      BY <2>1, <1>0, DestroyListOwners
    <3>2. t = Main => \A u \in Threads : phase'[u] = "gone"
      BY <2>1, <1>2, <1>4
    <3> QED
      BY <3>1, <3>2
  <2>2. CASE ~DestroyList(t)
    <3>1. SameFreed
      <4>1. CASE Cleanup(t)
        BY <4>1, <1>0, CleanupOwners, UnchangedOwners
      <4>2. CASE CloseList(t)
        BY <4>2, <1>0, CloseListOwners
      <4>3. CASE MainEnds
        BY <4>3, <1>0, UnchangedOwners DEF MainEnds
      <4> QED
        BY <2>2, <4>1, <4>2, <4>3
    <3> QED
      BY <3>1 DEF SameFreed
  <2> QED
    BY <2>1, <2>2
<1>6. \A u \in Threads, v \in Variable :
        v \in held'[u] \/ (Busy(u)' /\ v = counting'[u].var) =>
          v \in held[u] \/ (Busy(u) /\ v = counting[u].var)
  BY <1>1 DEF Busy
<1>7. /\ taken' \in 0 .. MaxTaken
      /\ givenUp \subseteq givenUp' /\ givenUp' \subseteq 1 .. Len(resource)
  BY <1>0, <1>1 DEF GivenUpInv
<1>8. counting'[t].op # "drop" /\ \A u \in Threads : u # t => counting'[u] = counting[u]
  BY <1>1 DEF Idle
<1> QED
  BY <1>3, <1>4, <1>5, <1>6, <1>7, <1>8, PointerStep

LEMMA OpenPointers ==
  ASSUME PointerInv, OwnerInv', NEW t \in Threads, Open(t)
  PROVE  PointerInv'
<1>0. OwnerInv /\ OwnerTypes /\ GivenUpInv /\ FreedInv /\ MeantInv
  BY DEF PointerInv, OwnerInv
<1>1. PICK n : n = Len(resource) + 1
  OBVIOUS
<1>2. PICK e, v : /\ e = [owner |-> t, handle |-> Len(list[t]) + 1, refs |-> 1,
                          closed |-> None, freed |-> None]
                  /\ v = [meant |-> n, has |-> n]
  OBVIOUS
<1>3. /\ resource' = Append(resource, e) /\ held' = [held EXCEPT ![t] = @ \cup {v}]
      /\ UNCHANGED <<phase, counting, taken, givenUp>>
  BY <1>1, <1>2 DEF Open
<1>4. /\ Len(resource) \in Nat /\ Len(list[t]) \in Nat /\ resource \in Seq(Res)
  BY <1>0, ResourceFacts DEF OwnerTypes
<1>5. e \in Res /\ e.freed = None /\ v.meant = v.has
  BY <1>2, <1>4 DEF Res
<1>6. /\ Len(resource') = n /\ resource'[n] = e
      /\ \A r \in 1 .. Len(resource) : resource'[r] = resource[r]
  BY <1>1, <1>3, <1>4, <1>5, AppendProperties, LenProperties
<1>7. \A r \in 1 .. n : r \in 1 .. Len(resource) \/ r = n
  BY <1>1, <1>4
<1>8. GivenUpInv'
  <2>1. givenUp' \subseteq 1 .. Len(resource')
    BY <1>0, <1>1, <1>3, <1>4, <1>6 DEF GivenUpInv
  <2>2. ASSUME NEW u \in Threads, counting[u].op = "drop",
               resource'[counting[u].var.has].owner = u
        PROVE  /\ counting[u].var.has \in givenUp
               /\ resource'[counting[u].var.has].freed = None
    <3>1. counting[u].var.has \in 1 .. Len(resource)
      BY <1>0, <2>2, CountedFits
    <3> QED
      BY <1>0, <1>6, <2>2, <3>1 DEF GivenUpInv
  <2> QED
    BY <1>0, <1>3, <2>1, <2>2 DEF GivenUpInv
<1>9. FreedInv'
  <2>1. ASSUME NEW r \in 1 .. Len(resource'), resource'[r].owner = Main,
               resource'[r].freed # None
        PROVE  r \in givenUp' \/ \A u \in Threads : phase'[u] = "gone"
    <3>1. r \in 1 .. Len(resource) /\ resource'[r] = resource[r]
      BY <2>1, <1>5, <1>6, <1>7
    <3> QED
      BY <2>1, <3>1, <1>0, <1>3 DEF FreedInv
  <2> QED
    BY <2>1 DEF FreedInv
<1>10. MeantInv'
  <2> SUFFICES ASSUME NEW u \in Threads, NEW w \in Variable,
                      w \in held'[u] \/ (Busy(u)' /\ w = counting'[u].var),
                      resource'[w.meant].closed = None
               PROVE  w.has = w.meant
    BY Zenon DEF MeantInv
  <2>1. w = v \/ w \in held[u] \/ (Busy(u) /\ w = counting[u].var)
    BY <1>0, <1>3 DEF Busy, OwnerTypes
  <2>2. CASE w = v
    BY <2>2, <1>5
  <2>3. CASE w \in held[u] \/ (Busy(u) /\ w = counting[u].var)
    <3>1. w.meant \in 1 .. Len(resource)
      BY <2>3, <1>0, HeldFits
    <3> QED
      BY <2>3, <3>1, <1>0, <1>6 DEF MeantInv
  <2> QED
    BY <2>1, <2>2, <2>3
<1> QED
  BY <1>8, <1>9, <1>10 DEF PointerInv

LEMMA PointerInvInit == ResourcesInit => PointerInv
<1> SUFFICES ASSUME ResourcesInit PROVE PointerInv
  OBVIOUS
<1>1. OwnerInv
  BY OwnerInvInit
<1>2. Len(resource) = 0
  BY EmptySeq DEF ResourcesInit
<1>3. \A t \in Threads : ~Busy(t) /\ held[t] = {} /\ phase[t] = "run" /\ counting[t].op = "none"
  BY DEF ResourcesInit, Busy, Idle
<1>4. GivenUpInv
  BY <1>3, ThreadsAssumption, LimitAssumption DEF GivenUpInv, ResourcesInit
<1>5. FreedInv
  BY <1>2 DEF FreedInv
<1>6. MeantInv
  BY <1>3 DEF MeantInv
<1> QED
  BY <1>1, <1>4, <1>5, <1>6 DEF PointerInv

LEMMA PointerInvNext ==
  ASSUME OwnersOnly, PointerInv, [ResourcesNext]_resourceVars
  PROVE  PointerInv'
<1>0. OwnerInv'
  BY OwnerInvNext DEF PointerInv
<1>1. CASE UNCHANGED resourceVars
  <2>1. UNCHANGED <<phase, resource, held, counting, taken, givenUp>>
    BY <1>1 DEF resourceVars
  <2>2. GivenUpInv' /\ FreedInv' /\ MeantInv'
    BY <2>1 DEF PointerInv, GivenUpInv, FreedInv, MeantInv, Busy
  <2> QED
    BY <1>0, <2>2 DEF PointerInv
<1>2. CASE MainEnds
  BY <1>0, <1>2, EndPointers, ThreadsAssumption
<1>3. ASSUME NEW t \in Threads, Program(t)
      PROVE  PointerInv'
  BY <1>0, <1>3, OpenPointers, CountPointers, WritePointers, ReadPointers, DropPointers
     DEF Program
<1>4. ASSUME NEW t \in Threads, Count(t) \/ Ends(t)
      PROVE  PointerInv'
  BY <1>0, <1>4, CountPointers, DroppedPointers, EndPointers DEF Count, Ends
<1> QED
  BY <1>1, <1>2, <1>3, <1>4 DEF ResourcesNext

LEMMA PointerInvRight ==
  ASSUME OwnersOnly, PointerInv
  PROVE  PointersRight
<1>0. OwnerInv /\ OwnerTypes /\ GivenUpInv /\ FreedInv /\ MeantInv /\ StoredInv
  BY DEF PointerInv, OwnerInv
<1>1. Len(resource) \in Nat /\ DOMAIN resource = 1 .. Len(resource)
  BY <1>0, ResourceFacts
<1>2. ResourcesTypeOK
  BY <1>0, <1>1 DEF OwnerTypes, ResourcesTypeOK, Res, GivenUpInv
<1>3. ASSUME NEW r \in DOMAIN resource, resource[r].freed # None, r \notin givenUp,
             NEW t \in Threads, phase[t] # "gone",
             t # resource[r].owner \/ resource[r].owner \in Sharers,
             PointsTo(t, r)
      PROVE  FALSE
  <2>0. r \in 1 .. Len(resource) /\ r # 0
    BY <1>1
  <2>1. resource[r].owner # Main
    BY <1>0, <1>3, <2>0 DEF FreedInv
  <2>2. t # resource[r].owner
    BY <1>3, <2>1 DEF OwnersOnly
  <2>3. ASSUME NEW v \in held[t], v.has = r PROVE FALSE
    BY <1>0, <2>1, <2>2, <2>3, HeldFits DEF Fits
  <2>4. ASSUME counting[t] # Idle, counting[t].var.has = r PROVE FALSE
    <3>1. Busy(t)
      BY <1>0, <2>4 DEF OwnerInv, VariablesInv, Busy
    <3>2. Fits(t, counting[t].var)
      BY <1>0, <3>1, HeldFits
    <3> QED
      BY <2>1, <2>2, <2>4, <3>2 DEF Fits
  <2>5. ASSUME NEW i \in DOMAIN list[t], list[t][i] = r PROVE FALSE
    BY <1>0, <2>0, <2>1, <2>2, <2>5, FoundOwner
  <2>6. ASSUME stored.original = r PROVE FALSE
    BY <1>0, <2>0, <2>1, <2>6 DEF StoredInv
  <2> QED
    BY <1>3, <2>3, <2>4, <2>5, <2>6 DEF PointsTo
<1>4. ASSUME NEW t \in Threads, NEW v \in held[t], resource[v.meant].closed = None
      PROVE  v.has = v.meant
  <2>1. v \in Variable
    BY <1>0 DEF OwnerTypes
  <2> QED
    BY <1>0, <1>4, <2>1 DEF MeantInv
<1> QED
  BY <1>2, <1>3, <1>4 DEF PointersRight

\* pthreads_store_convert and src/resources.c: whatever reference counts come to
\* when threads update them at once, a shared resource is not freed while a thread
\* that has not ended points to it, unless its owner has dropped a variable with
\* it; and a thread that read an open resource has the one that was stored.  For
\* any number of threads, resources and references, under the conditions of
\* OnlyOwnerAlwaysDestroys.
THEOREM PointersAlwaysRight ==
  ASSUME Sharers \subseteq {Main}, ShutdownReads = FALSE
  PROVE  ResourcesSpec => []PointersRight
<1>0. OwnersOnly
  BY DEF OwnersOnly
<1>1. ResourcesInit => PointerInv
  BY PointerInvInit
<1>2. PointerInv /\ [ResourcesNext]_resourceVars => PointerInv'
  BY <1>0, PointerInvNext
<1>3. PointerInv => PointersRight
  BY <1>0, PointerInvRight
<1> QED
  BY <1>1, <1>2, <1>3, PTL DEF ResourcesSpec

=============================================================================
