-------------------------- MODULE Admission_proofs --------------------------
(***************************************************************************)
(* Theorems about the listener and the ways into a network, for every      *)
(* number of calls of server_connect and of con_ids.                       *)
(***************************************************************************)
EXTENDS Admission, FiniteSetTheorems, NaturalsInduction, TLAPS

-----------------------------------------------------------------------------
(* The listener, and the thread that owns it *)

\* How far the constructor and close_listener have come.
PhaseInv ==
  /\ l_pc \in {"null", "arm_v4"} => \A a \in Acceptors : accept_pc[a] = "off"
  /\ l_pc = "arm_v6" => accept_pc["v4"] # "off" /\ accept_pc["v6"] = "off"
  /\ l_pc \notin {"null", "arm_v4", "arm_v6"} =>
       \A a \in Acceptors : accept_pc[a] # "off"
  /\ l_pc \in Constructing \cup {"up", "clear", "close_v4"} =>
       \A a \in Acceptors : acceptor_open[a]
  /\ l_pc = "close_v6" => acceptor_open["v6"]
  /\ l_pc \in {"up", "clear"} => listener_open
  /\ l_pc \in {"close_v4", "close_v6", "closed", "gone"} => ~listener_open

\* Where ~network is, the listener has been closed or destroyed, and the io
\* threads stopped and joined.
ShutdownInv ==
  /\ l_pc \in Constructing <=> guard = Main
  /\ l_pc \in Constructing => m_pc = "up"
  /\ m_pc \in {"up", "d_guard"} => l_pc \in {"null", "up"} \cup Constructing
  /\ m_pc \in {"d_stop", "d_join"} => l_pc \in {"null", "closed"}
  /\ m_pc = "d_members" => l_pc \in {"null", "closed", "gone"}
  /\ m_pc = "end" => l_pc \in {"null", "gone"}
  /\ l_pc = "gone" => m_pc \in {"d_members", "end"}
  /\ m_pc \in {"d_join", "d_members", "end"} => stopped
  /\ m_pc \in {"d_members", "end"} =>
       \A a \in Acceptors : accept_pc[a] \notin Running

\* An accept handler adds its connection before it returns.
HandlerInv == \A a \in Acceptors : pc[a] # "idle" => accept_pc[a] = "callback"

-----------------------------------------------------------------------------
(* The threads that add connections *)

HoldsGuard(t) ==
  \/ pc[t] \in {"push", "unguard"}
  \/ t \in Acceptors /\ pc[t] \in {"id_load", "id_cas"}

GuardInv == \A t \in Adders : HoldsGuard(t) <=> guard = t

\* Between compare_exchange_weak and push_back.
HasId(t) == pc[t] = "push" \/ (t \in Connectors /\ pc[t] = "guard")

\* A con_id is the number of the connection, cut to the width of the id.
IdInv ==
  /\ next_id = made % IdCount
  /\ \A t \in Adders : HasId(t) => new_id[t] = new_nr[t] % IdCount
  /\ \A i \in 1..Len(connections) :
       connections[i].id = connections[i].nr % IdCount

ListedInv ==
  \A k \in Connectors :
    /\ pc[k] = "unguard" => k \in listed
    /\ pc[k] = "set_state" => k \in listed \/ refs = {}

\* The bound leaves a connection for every thread that may make one.
RoomInv == IsFiniteSet(Pending) /\ made + Cardinality(Pending) <= MaxCons

AdmissionInv ==
  /\ TypeOK /\ PhaseInv /\ ShutdownInv /\ HandlerInv
  /\ GuardInv /\ IdInv /\ ListedInv /\ RoomInv

-----------------------------------------------------------------------------
(* Arithmetic of con_ids *)

LEMMA ModUnique ==
  ASSUME NEW m \in Nat \ {0}, NEW q \in Nat, NEW r \in 0..m - 1
  PROVE  (m * q + r) % m = r
OBVIOUS

LEMMA ModSplit ==
  ASSUME NEW m \in Nat \ {0}, NEW n \in Nat
  PROVE  n % m \in 0..m - 1 /\ \E q \in Nat : n = m * q + (n % m)
<1>1. n % m \in 0..m - 1
  OBVIOUS
<1>2. n \div m \in Nat
  OBVIOUS
<1>3. n = m * (n \div m) + (n % m)
  OBVIOUS
<1> QED BY <1>1, <1>2, <1>3

LEMMA ModNext ==
  ASSUME NEW m \in Nat \ {0}, NEW n \in Nat
  PROVE  ((n % m) + 1) % m = (n + 1) % m
<1>1. PICK r \in 0..m - 1 : r = n % m
  BY ModSplit
<1>2. PICK q \in Nat : n = m * q + r
  BY <1>1, ModSplit
<1>3. CASE r + 1 < m
  <2>1. r + 1 \in 0..m - 1
    BY <1>3
  <2>2. (m * q + (r + 1)) % m = r + 1 /\ (m * 0 + (r + 1)) % m = r + 1
    BY <2>1, ModUnique
  <2>3. n + 1 = m * q + (r + 1) /\ r + 1 = m * 0 + (r + 1)
    BY <1>2
  <2> QED BY <1>1, <2>2, <2>3
<1>4. CASE r + 1 = m
  <2>1. (m * (q + 1) + 0) % m = 0 /\ (m * 1 + 0) % m = 0
    BY ModUnique
  <2>2. n + 1 = m * (q + 1) + 0 /\ r + 1 = m * 1 + 0
    BY <1>2, <1>4
  <2> QED BY <1>1, <2>1, <2>2
<1> QED BY <1>3, <1>4

\* Two numbers with one id are as far apart as there are ids.
LEMMA SameIdApart ==
  ASSUME NEW m \in Nat \ {0}, NEW a \in Nat, NEW b \in Nat,
         a % m = b % m, a < b
  PROVE  b - a >= m
<1>1. PICK r \in 0..m - 1 : r = a % m
  BY ModSplit
<1>2. PICK p \in Nat : a = m * p + r
  BY <1>1, ModSplit
<1>3. PICK q \in Nat : b = m * q + r
  BY <1>1, ModSplit
<1>4. p < q
  <2>1. ASSUME q <= p PROVE m * q <= m * p
    BY <2>1
  <2> QED BY <1>2, <1>3, <2>1
<1>5. m * q >= m * p + m
  BY <1>4
<1> QED BY <1>2, <1>3, <1>5

LEMMA Minimum ==
  ASSUME NEW T, T \subseteq Nat, T # {}
  PROVE  \E i \in T : \A j \in T : i <= j
<1>1. PICK i \in T : \A j \in T : <<j, i>> \notin OpToRel(<, Nat)
  BY NatLessThanWellFounded, WFMin
<1>2. ASSUME NEW j \in T PROVE ~(j < i)
  <2>1. <<j, i>> \in Nat \X Nat /\ <<j, i>>[1] = j /\ <<j, i>>[2] = i
    OBVIOUS
  <2> QED BY <1>1, <2>1, Zenon DEF OpToRel
<1> QED BY <1>2

-----------------------------------------------------------------------------
(* What each action leaves alone *)

USE DEF Acceptors, Adders

LEMMA AddLeaves ==
  ASSUME NEW t \in Adders, Add(t)
  PROVE  UNCHANGED <<listenerVars, m_pc, stopped, status>>
BY DEF Add, Step, lock_network, take_guard, id_load, id_cas_fails, id_cas,
       push_back, leave_block

LEMMA ConnectLeaves ==
  ASSUME NEW k \in Connectors, ConnectHandler(k) \/ server_connect(k)
  PROVE  UNCHANGED <<listenerVars, m_pc, stopped, networkVars, new_id,
                     historyVars>>
BY DEF ConnectHandler, server_connect, connect_fails, connect, resolve,
       set_connected, Step

LEMMA AcceptLeaves ==
  ASSUME NEW a \in Acceptors, AcceptHandler(a)
  PROVE  UNCHANGED <<l_pc, listener_open, acceptor_open, m_pc, stopped,
                     networkVars, new_id, status, historyVars>>
BY DEF AcceptHandler, accept_handler, accept_callback, accept_return,
       accept_arm, accept, accept_error, accept_new_connection,
       callback_return, accept_again, Loop, adderVars

LEMMA DtorLeaves ==
  ASSUME dtor
  PROVE  UNCHANGED <<accept_pc, refs, guard, next_id, adderVars, historyVars>>
BY DEF dtor, dtor_loop, dtor_no_listener, dtor_close_listener, dtor_stop,
       dtor_join, dtor_members, Dtor, close_listener, clear_open,
       close_acceptor, Owner, networkVars, listenerVars

LEMMA MakeLeaves ==
  ASSUME start_listening \/ construct \/ constructed
  PROVE  /\ UNCHANGED <<refs, next_id, connections, adderVars, historyVars,
                        m_pc, stopped>>
         /\ l_pc \in {"null"} \cup Constructing
BY DEF start_listening, construct, constructed, make_listener, first_accept,
       store_open, Owner, networkVars, Constructing

LEMMA DropLeaves ==
  ASSUME main_unref \/ erase
  PROVE  UNCHANGED <<listenerVars, guard, next_id, stopped, adderVars,
                     historyVars>>
BY DEF main_unref, erase, Dtor

-----------------------------------------------------------------------------
(* The listener's part of the invariant *)

LEMMA PhaseStep ==
  ASSUME AdmissionInv, [Next]_vars
  PROVE  PhaseInv'
<1> USE DEF AdmissionInv, PhaseInv, Constructing
<1>1. CASE UNCHANGED listenerVars
  BY <1>1 DEF listenerVars
<1>2. ASSUME NEW a \in Acceptors, AcceptHandler(a) PROVE PhaseInv'
  <2>1. UNCHANGED <<l_pc, listener_open, acceptor_open>>
    BY <1>2, AcceptLeaves
  <2>2. \/ UNCHANGED accept_pc
        \/ \E q \in AcceptPC \ {"off"} :
             accept_pc[a] # "off" /\ accept_pc' = [accept_pc EXCEPT ![a] = q]
    BY <1>2 DEF AcceptHandler, accept_handler, accept_callback, accept_return,
       accept_arm, accept, accept_error, accept_new_connection,
       callback_return, accept_again, Loop, AcceptPC
  <2> QED BY <2>1, <2>2 DEF TypeOK, ListenerTypeOK
<1>3. ASSUME start_listening PROVE PhaseInv'
  BY <1>3 DEF start_listening, make_listener, Owner
<1>4. ASSUME construct PROVE PhaseInv'
  BY <1>4 DEF construct, first_accept, Owner, TypeOK, ListenerTypeOK
<1>5. ASSUME constructed PROVE PhaseInv'
  BY <1>5 DEF constructed, store_open, Owner
<1>6. ASSUME dtor_close_listener PROVE PhaseInv'
  <2>1. CASE close_listener
    BY <1>6, <2>1 DEF close_listener
  <2>2. CASE clear_open
    BY <1>6, <2>2 DEF clear_open, Owner
  <2>3. CASE close_acceptor("v4", "close_v4", "close_v6")
    BY <1>6, <2>3 DEF close_acceptor, Owner, TypeOK, ListenerTypeOK
  <2>4. CASE close_acceptor("v6", "close_v6", "closed")
    BY <1>6, <2>4 DEF close_acceptor, Owner, TypeOK, ListenerTypeOK
  <2> QED BY <1>6, <2>1, <2>2, <2>3, <2>4 DEF dtor_close_listener
<1>7. ASSUME dtor PROVE dtor_close_listener \/ UNCHANGED listenerVars
  BY <1>7 DEF dtor, dtor_loop, dtor_no_listener, dtor_stop, dtor_join,
              dtor_members
<1> QED BY <1>1, <1>2, <1>3, <1>4, <1>5, <1>6, <1>7, AddLeaves, ConnectLeaves,
           DropLeaves
        DEF Next, Application, vars

LEMMA ShutdownStep ==
  ASSUME AdmissionInv, [Next]_vars
  PROVE  ShutdownInv'
<1> USE DEF AdmissionInv, ShutdownInv, Constructing
<1> USE AdmissionAssumption
<1>1. ASSUME UNCHANGED <<listenerVars, m_pc, stopped>>,
             guard' = Main <=> guard = Main
      PROVE  ShutdownInv'
  BY <1>1 DEF listenerVars
<1>2. ASSUME NEW t \in Adders, Add(t) PROVE ShutdownInv'
  <2>1. guard' = Main <=> guard = Main
    BY <1>2 DEF Add, Step, lock_network, take_guard, id_load, id_cas_fails,
       id_cas, push_back, leave_block, networkVars, GuardInv, HoldsGuard
  <2> QED BY <1>1, <1>2, <2>1, AddLeaves
<1>3. ASSUME NEW k \in Connectors, ConnectHandler(k) \/ server_connect(k)
      PROVE  ShutdownInv'
  BY <1>1, <1>3, ConnectLeaves DEF networkVars
<1>4. ASSUME NEW a \in Acceptors, AcceptHandler(a) PROVE ShutdownInv'
  <2>1. UNCHANGED <<l_pc, m_pc, stopped, guard>>
    BY <1>4, AcceptLeaves DEF networkVars
  <2>2. m_pc \in {"d_members", "end"} => accept_pc[a] \in {"off", "armed"}
    BY DEF TypeOK, ListenerTypeOK, AcceptPC, Running
  <2>3. m_pc \in {"d_members", "end"} => FALSE
    BY <1>4, <2>2 DEF AcceptHandler, accept_handler, accept_callback,
       accept_return, accept_arm, accept, accept_error, accept_new_connection,
       callback_return, accept_again, Loop
  <2> QED BY <2>1, <2>3
<1>5. ASSUME start_listening PROVE ShutdownInv'
  BY <1>5 DEF start_listening, make_listener, Owner
<1>6. ASSUME construct PROVE ShutdownInv'
  BY <1>6 DEF construct, first_accept, Owner, networkVars
<1>7. ASSUME constructed PROVE ShutdownInv'
  BY <1>7 DEF constructed, store_open, Owner
<1>8. ASSUME erase PROVE ShutdownInv'
  BY <1>1, <1>8 DEF erase
<1>9. ASSUME main_unref PROVE ShutdownInv'
  BY <1>9 DEF main_unref, Dtor, listenerVars
<1>10. ASSUME dtor_loop PROVE ShutdownInv'
  BY <1>10 DEF dtor_loop, Dtor, listenerVars, networkVars
<1>11. ASSUME dtor_no_listener PROVE ShutdownInv'
  BY <1>11 DEF dtor_no_listener, Dtor, listenerVars, networkVars
<1>12. ASSUME dtor_close_listener PROVE ShutdownInv'
  BY <1>12 DEF dtor_close_listener, close_listener, clear_open, PhaseInv,
     close_acceptor, Owner, networkVars
<1>13. ASSUME dtor_stop PROVE ShutdownInv'
  BY <1>13 DEF dtor_stop, Dtor, listenerVars, networkVars
<1>14. ASSUME dtor_join PROVE ShutdownInv'
  BY <1>14 DEF dtor_join, Dtor, listenerVars, networkVars
<1>15. ASSUME dtor_members PROVE ShutdownInv'
  BY <1>15 DEF dtor_members, Dtor, listenerVars
<1>16. CASE UNCHANGED vars
  BY <1>1, <1>16 DEF vars, networkVars
<1> QED BY <1>2, <1>3, <1>4, <1>5, <1>6, <1>7, <1>8, <1>9, <1>10, <1>11, <1>12,
           <1>13, <1>14, <1>15, <1>16
        DEF Next, Application, dtor

LEMMA HandlerStep ==
  ASSUME AdmissionInv, [Next]_vars
  PROVE  HandlerInv'
<1> USE AdmissionAssumption DEF AdmissionInv, HandlerInv
<1>1. ASSUME UNCHANGED <<pc, accept_pc>> PROVE HandlerInv'
  BY <1>1
<1>2. ASSUME NEW t \in Adders, Add(t) PROVE HandlerInv'
  <2>1. UNCHANGED accept_pc
    BY <1>2, AddLeaves DEF listenerVars
  <2>2. pc[t] # "idle" /\ \E q : pc' = [pc EXCEPT ![t] = q]
    BY <1>2 DEF Add, Step, lock_network, take_guard, id_load, id_cas_fails,
       id_cas, push_back, leave_block
  <2> QED BY <2>1, <2>2 DEF TypeOK
<1>3. ASSUME NEW k \in Connectors, ConnectHandler(k) \/ server_connect(k)
      PROVE  HandlerInv'
  <2>1. UNCHANGED accept_pc
    BY <1>3, ConnectLeaves DEF listenerVars
  <2>2. \E q : pc' = [pc EXCEPT ![k] = q]
    BY <1>3 DEF ConnectHandler, server_connect, connect_fails, connect, resolve,
       set_connected, Step
  <2> QED BY <2>1, <2>2 DEF TypeOK
<1>4. ASSUME NEW a \in Acceptors, AcceptHandler(a) PROVE HandlerInv'
  <2>1. CASE accept_handler(a)
    BY <2>1 DEF accept_handler, accept, accept_error, Loop, adderVars, TypeOK,
                ListenerTypeOK
  <2>2. CASE accept_callback(a)
    BY <2>2 DEF accept_callback, accept_new_connection, Loop, TypeOK,
                ListenerTypeOK
  <2>3. CASE accept_return(a)
    BY <2>3 DEF accept_return, callback_return, Loop, adderVars, TypeOK,
                ListenerTypeOK
  <2>4. CASE accept_arm(a)
    BY <2>4 DEF accept_arm, accept_again, Loop, adderVars, TypeOK,
                ListenerTypeOK
  <2> QED BY <1>4, <2>1, <2>2, <2>3, <2>4 DEF AcceptHandler
<1>5. ASSUME start_listening \/ construct \/ constructed PROVE HandlerInv'
  <2>1. UNCHANGED pc
    BY <1>5, MakeLeaves DEF adderVars
  <2>2. CASE start_listening \/ constructed
    BY <2>1, <2>2 DEF start_listening, constructed, make_listener, store_open
  <2>3. CASE construct
    BY <2>1, <2>3 DEF construct, first_accept, Owner, PhaseInv, TypeOK,
                      ListenerTypeOK
  <2> QED BY <1>5, <2>2, <2>3
<1>6. ASSUME main_unref \/ erase PROVE HandlerInv'
  BY <1>1, <1>6, DropLeaves DEF listenerVars, adderVars
<1>7. ASSUME dtor PROVE HandlerInv'
  BY <1>1, <1>7, DtorLeaves DEF adderVars
<1>8. CASE UNCHANGED vars
  BY <1>1, <1>8 DEF vars, listenerVars, adderVars
<1> QED BY <1>2, <1>3, <1>4, <1>5, <1>6, <1>7, <1>8 DEF Next, Application

-----------------------------------------------------------------------------
(* The adders' part of the invariant *)

LEMMA GuardStep ==
  ASSUME AdmissionInv, [Next]_vars
  PROVE  GuardInv'
<1> USE AdmissionAssumption DEF AdmissionInv, GuardInv, HoldsGuard
<1>1. ASSUME UNCHANGED <<pc, guard>> PROVE GuardInv'
  BY <1>1
<1>2. ASSUME NEW t \in Adders, Add(t) PROVE GuardInv'
  <2> USE DEF Step, TypeOK
  <2>1. CASE lock_network(t)
    BY <2>1 DEF lock_network, Left
  <2>2. CASE take_guard(t)
    BY <2>2 DEF take_guard
  <2>3. CASE id_load(t)
    BY <2>3 DEF id_load, networkVars
  <2>4. CASE id_cas_fails(t)
    BY <2>4 DEF id_cas_fails, networkVars
  <2>5. CASE id_cas(t)
    BY <2>5 DEF id_cas
  <2>6. CASE push_back(t)
    BY <2>6 DEF push_back
  <2>7. CASE leave_block(t)
    BY <2>7 DEF leave_block, Left
  <2> QED BY <1>2, <2>1, <2>2, <2>3, <2>4, <2>5, <2>6, <2>7 DEF Add
<1>3. ASSUME NEW k \in Connectors, ConnectHandler(k) \/ server_connect(k)
      PROVE  GuardInv'
  <2>1. UNCHANGED guard
    BY <1>3, ConnectLeaves DEF networkVars
  <2>2. \E p, q \in {"idle", "posted", "connecting", "lock", "set_state"} :
          pc[k] = p /\ pc' = [pc EXCEPT ![k] = q]
    BY <1>3 DEF ConnectHandler, server_connect, connect_fails, connect, resolve,
       set_connected, Step
  <2> QED BY <2>1, <2>2 DEF TypeOK
<1>4. ASSUME NEW a \in Acceptors, AcceptHandler(a) PROVE GuardInv'
  <2>1. UNCHANGED guard
    BY <1>4, AcceptLeaves DEF networkVars
  <2>2. UNCHANGED pc \/ (pc[a] = "idle" /\ pc' = [pc EXCEPT ![a] = "lock"])
    BY <1>4 DEF AcceptHandler, accept_handler, accept_callback, accept_return,
       accept_arm, accept_new_connection, Loop, adderVars, HandlerInv
  <2> QED BY <2>1, <2>2 DEF TypeOK
<1>5. ASSUME start_listening \/ construct \/ constructed PROVE GuardInv'
  <2>1. UNCHANGED pc
    BY <1>5, MakeLeaves DEF adderVars
  <2>2. guard \notin Adders /\ guard' \notin Adders
    BY <1>5 DEF start_listening, construct, constructed, ShutdownInv, Owner,
       first_accept, store_open, Constructing, networkVars
  <2> QED BY <2>1, <2>2
<1>6. ASSUME main_unref \/ erase PROVE GuardInv'
  BY <1>1, <1>6, DropLeaves DEF adderVars
<1>7. ASSUME dtor PROVE GuardInv'
  BY <1>1, <1>7, DtorLeaves DEF adderVars
<1>8. CASE UNCHANGED vars
  BY <1>1, <1>8 DEF vars, networkVars, adderVars
<1> QED BY <1>2, <1>3, <1>4, <1>5, <1>6, <1>7, <1>8 DEF Next, Application

LEMMA ListedStep ==
  ASSUME AdmissionInv, [Next]_vars
  PROVE  ListedInv'
<1> USE AdmissionAssumption DEF AdmissionInv, ListedInv
<1>1. ASSUME UNCHANGED <<pc, refs, listed>> PROVE ListedInv'
  BY <1>1
<1>2. ASSUME NEW t \in Adders, Add(t) PROVE ListedInv'
  <2> USE DEF Step, TypeOK
  <2>1. CASE lock_network(t)
    BY <2>1 DEF lock_network, Left, historyVars
  <2>2. CASE take_guard(t)
    BY <2>2 DEF take_guard, historyVars
  <2>3. CASE id_load(t)
    BY <2>3 DEF id_load, networkVars, historyVars
  <2>4. CASE id_cas_fails(t)
    BY <2>4 DEF id_cas_fails, networkVars, historyVars
  <2>5. CASE id_cas(t)
    BY <2>5 DEF id_cas
  <2>6. CASE push_back(t)
    BY <2>6 DEF push_back
  <2>7. CASE leave_block(t)
    BY <2>7 DEF leave_block, Left, historyVars
  <2> QED BY <1>2, <2>1, <2>2, <2>3, <2>4, <2>5, <2>6, <2>7 DEF Add
<1>3. ASSUME NEW k \in Connectors, ConnectHandler(k) \/ server_connect(k)
      PROVE  ListedInv'
  <2>1. UNCHANGED <<refs, listed>>
    BY <1>3, ConnectLeaves DEF networkVars, historyVars
  <2>2. \E q \in {"idle", "posted", "connecting", "lock"} :
          pc' = [pc EXCEPT ![k] = q]
    BY <1>3 DEF ConnectHandler, server_connect, connect_fails, connect, resolve,
       set_connected, Step
  <2> QED BY <2>1, <2>2 DEF TypeOK
<1>4. ASSUME NEW a \in Acceptors, AcceptHandler(a) PROVE ListedInv'
  <2>1. UNCHANGED <<refs, listed>>
    BY <1>4, AcceptLeaves DEF networkVars, historyVars
  <2>2. UNCHANGED pc \/ pc' = [pc EXCEPT ![a] = "lock"]
    BY <1>4 DEF AcceptHandler, accept_handler, accept_callback, accept_return,
       accept_arm, adderVars
  <2> QED BY <2>1, <2>2 DEF TypeOK
<1>5. ASSUME start_listening \/ construct \/ constructed PROVE ListedInv'
  BY <1>1, <1>5, MakeLeaves DEF adderVars, historyVars
<1>6. ASSUME main_unref \/ erase PROVE ListedInv'
  <2>1. UNCHANGED <<pc, listed>> /\ (refs' = refs \/ refs' = {})
    BY <1>6, DropLeaves DEF adderVars, historyVars, main_unref, erase
  <2> QED BY <2>1
<1>7. ASSUME dtor PROVE ListedInv'
  BY <1>1, <1>7, DtorLeaves DEF adderVars, historyVars
<1>8. CASE UNCHANGED vars
  BY <1>1, <1>8 DEF vars, networkVars, adderVars, historyVars
<1> QED BY <1>2, <1>3, <1>4, <1>5, <1>6, <1>7, <1>8 DEF Next, Application

LEMMA IdStep ==
  ASSUME AdmissionInv, [Next]_vars
  PROVE  IdInv'
<1> USE AdmissionAssumption DEF AdmissionInv, IdInv
<1>1. ASSUME UNCHANGED <<next_id, made, new_id, new_nr>>,
             \A t \in Adders : HasId(t)' => HasId(t),
             \A i \in 1..Len(connections') :
               \/ i \in 1..Len(connections) /\ connections'[i] = connections[i]
               \/ connections'[i].id = connections'[i].nr % IdCount
      PROVE  IdInv'
  BY <1>1
<1>2. ASSUME UNCHANGED <<pc, connections, next_id, made, new_id, new_nr>>
      PROVE  IdInv'
  BY <1>2 DEF HasId
<1>3. ASSUME NEW t \in Adders, Add(t) PROVE IdInv'
  <2> USE DEF Step, TypeOK
  <2>1. CASE lock_network(t)
    BY <1>1, <2>1 DEF lock_network, Left, HasId, historyVars
  <2>2. CASE take_guard(t)
    BY <1>1, <2>2 DEF take_guard, HasId, historyVars
  <2>3. CASE id_load(t)
    <3>1. ~HasId(t)' /\ \A u \in Adders : HasId(u)' => HasId(u)
      BY <2>3 DEF id_load, HasId
    <3> QED BY <2>3, <3>1 DEF id_load, networkVars, historyVars
  <2>4. CASE id_cas_fails(t)
    BY <1>1, <2>4 DEF id_cas_fails, HasId, networkVars, historyVars
  <2>5. CASE id_cas(t)
    <3>1. /\ next_id = new_id[t] /\ next_id' = (new_id[t] + 1) % IdCount
          /\ made' = made + 1 /\ new_nr' = [new_nr EXCEPT ![t] = made]
          /\ UNCHANGED <<connections, new_id>>
          /\ \A u \in Adders : u # t => pc'[u] = pc[u]
      BY <2>5 DEF id_cas
    <3>2. next_id' = made' % IdCount
      BY <3>1, ModNext
    <3>3. \A u \in Adders : HasId(u)' => new_id'[u] = new_nr'[u] % IdCount
      BY <3>1 DEF HasId
    <3> QED BY <3>1, <3>2, <3>3
  <2>6. CASE push_back(t)
    <3>1. /\ connections' = Append(connections,
                                   [id |-> new_id[t], nr |-> new_nr[t]])
          /\ UNCHANGED <<next_id, made, new_id, new_nr>>
          /\ HasId(t) /\ \A u \in Adders : HasId(u)' => HasId(u)
      BY <2>6 DEF push_back, HasId
    <3>2. /\ Len(connections') = Len(connections) + 1
          /\ connections'[Len(connections) + 1] =
               [id |-> new_id[t], nr |-> new_nr[t]]
          /\ \A i \in 1..Len(connections) : connections'[i] = connections[i]
          /\ Len(connections) \in Nat
      BY <3>1
    <3>3. \A i \in 1..Len(connections') :
            i \in 1..Len(connections) \/ i = Len(connections) + 1
      BY <3>2
    <3> QED BY <1>1, <3>1, <3>2, <3>3
  <2>7. CASE leave_block(t)
    BY <1>1, <2>7 DEF leave_block, Left, HasId, historyVars
  <2> QED BY <1>3, <2>1, <2>2, <2>3, <2>4, <2>5, <2>6, <2>7 DEF Add
<1>4. ASSUME NEW k \in Connectors, ConnectHandler(k) \/ server_connect(k)
      PROVE  IdInv'
  <2>1. UNCHANGED <<connections, next_id, made, new_id, new_nr>>
    BY <1>4, ConnectLeaves DEF networkVars, historyVars
  <2>2. \E q \in {"idle", "posted", "connecting", "lock"} :
          pc' = [pc EXCEPT ![k] = q]
    BY <1>4 DEF ConnectHandler, server_connect, connect_fails, connect, resolve,
       set_connected, Step
  <2>3. \A t \in Adders : HasId(t)' => HasId(t)
    BY <2>2 DEF TypeOK, HasId
  <2> QED BY <1>1, <2>1, <2>3
<1>5. ASSUME NEW a \in Acceptors, AcceptHandler(a) PROVE IdInv'
  <2>1. UNCHANGED <<connections, next_id, made, new_id, new_nr>>
    BY <1>5, AcceptLeaves DEF networkVars, historyVars
  <2>2. UNCHANGED pc \/ pc' = [pc EXCEPT ![a] = "lock"]
    BY <1>5 DEF AcceptHandler, accept_handler, accept_callback, accept_return,
       accept_arm, adderVars
  <2>3. \A t \in Adders : HasId(t)' => HasId(t)
    BY <2>2 DEF TypeOK, HasId
  <2> QED BY <1>1, <2>1, <2>3
<1>6. ASSUME start_listening \/ construct \/ constructed PROVE IdInv'
  BY <1>2, <1>6, MakeLeaves DEF adderVars, historyVars
<1>7. ASSUME erase PROVE IdInv'
  <2>1. /\ connections # <<>> /\ connections' = Tail(connections)
        /\ UNCHANGED <<pc, next_id, made, new_id, new_nr>>
    BY <1>7 DEF erase, adderVars, historyVars
  <2>2. /\ Len(connections') = Len(connections) - 1
        /\ \A i \in 1..Len(connections') : connections'[i] = connections[i + 1]
        /\ Len(connections) \in Nat
    BY <2>1 DEF TypeOK
  <2>3. \A i \in 1..Len(connections') : i + 1 \in 1..Len(connections)
    BY <2>2
  <2>4. \A i \in 1..Len(connections') :
          connections'[i].id = connections'[i].nr % IdCount
    BY <2>2, <2>3
  <2> QED BY <2>1, <2>4 DEF HasId
<1>8. ASSUME main_unref PROVE IdInv'
  BY <1>2, <1>8 DEF main_unref, Dtor, adderVars, historyVars
<1>9. ASSUME dtor PROVE IdInv'
  <2>1. UNCHANGED <<pc, next_id, made, new_id, new_nr>>
    BY <1>9, DtorLeaves DEF adderVars, historyVars
  <2>2. connections' = connections \/ connections' = <<>>
    BY <1>9 DEF dtor, dtor_loop, dtor_no_listener, dtor_close_listener,
       dtor_stop, dtor_join, dtor_members, networkVars
  <2>3. CASE connections' = connections
    BY <1>2, <2>1, <2>3
  <2>4. CASE connections' = <<>>
    <3>1. \A i \in 1..Len(connections') : FALSE
      BY <2>4
    <3> QED BY <2>1, <3>1 DEF HasId
  <2> QED BY <2>2, <2>3, <2>4
<1>10. CASE UNCHANGED vars
  BY <1>2, <1>10 DEF vars, networkVars, adderVars, historyVars
<1> QED BY <1>3, <1>4, <1>5, <1>6, <1>7, <1>8, <1>9, <1>10
        DEF Next, Application

LEMMA RoomStep ==
  ASSUME AdmissionInv, [Next]_vars
  PROVE  RoomInv'
<1> USE AdmissionAssumption DEF AdmissionInv, RoomInv
<1>0. made \in Nat /\ Cardinality(Pending) \in Nat
  BY FS_CardinalityType DEF TypeOK
<1>1. ASSUME Pending' \subseteq Pending, UNCHANGED made PROVE RoomInv'
  <2>1. /\ IsFiniteSet(Pending') /\ Cardinality(Pending') \in Nat
        /\ Cardinality(Pending') <= Cardinality(Pending)
    BY <1>1, FS_Subset, FS_CardinalityType
  <2> QED BY <1>0, <1>1, <2>1
<1>2. ASSUME Room, NEW t, Pending' \subseteq Pending \cup {t}, UNCHANGED made
      PROVE  RoomInv'
  <2>1. /\ IsFiniteSet(Pending \cup {t})
        /\ Cardinality(Pending \cup {t}) <= Cardinality(Pending) + 1
    BY <1>0, FS_AddElement
  <2>2. /\ IsFiniteSet(Pending') /\ Cardinality(Pending') \in Nat
        /\ Cardinality(Pending') <= Cardinality(Pending \cup {t})
        /\ Cardinality(Pending \cup {t}) \in Nat
    BY <1>2, <2>1, FS_Subset, FS_CardinalityType
  <2> QED BY <1>0, <1>2, <2>1, <2>2 DEF Room
<1>3. ASSUME NEW t \in Pending, Pending' \subseteq Pending \ {t},
             made' = made + 1
      PROVE  RoomInv'
  <2>1. /\ IsFiniteSet(Pending \ {t})
        /\ Cardinality(Pending \ {t}) = Cardinality(Pending) - 1
    BY FS_RemoveElement
  <2>2. /\ IsFiniteSet(Pending') /\ Cardinality(Pending') \in Nat
        /\ Cardinality(Pending') <= Cardinality(Pending \ {t})
    BY <1>3, <2>1, FS_Subset, FS_CardinalityType
  <2> QED BY <1>0, <1>3, <2>1, <2>2
<1>4. ASSUME NEW t \in Adders, Add(t) PROVE RoomInv'
  <2> USE DEF Step, TypeOK, Pending
  <2>0. UNCHANGED accept_pc
    BY <1>4, AddLeaves DEF listenerVars
  <2>1. CASE lock_network(t)
    BY <1>1, <2>0, <2>1 DEF lock_network, Left, historyVars
  <2>2. CASE take_guard(t)
    BY <1>1, <2>0, <2>2 DEF take_guard, historyVars
  <2>3. CASE id_load(t)
    BY <1>1, <2>0, <2>3 DEF id_load, historyVars
  <2>4. CASE id_cas_fails(t)
    BY <1>1, <2>0, <2>4 DEF id_cas_fails, historyVars
  <2>5. CASE id_cas(t)
    <3>1. /\ pc[t] = "id_cas" /\ made' = made + 1
          /\ pc' = [pc EXCEPT ![t] =
                      IF t \in Acceptors THEN "push" ELSE "guard"]
      BY <2>5 DEF id_cas
    <3>2. t \in Acceptors => accept_pc[t] = "callback"
      BY <3>1 DEF HandlerInv
    <3>3. t \in Pending
      BY <3>1
    <3>4. Pending' \subseteq Pending \ {t}
      BY <2>0, <3>1, <3>2
    <3> QED BY <1>3, <3>1, <3>3, <3>4
  <2>6. CASE push_back(t)
    BY <1>1, <2>0, <2>6 DEF push_back
  <2>7. CASE leave_block(t)
    BY <1>1, <2>0, <2>7 DEF leave_block, Left, historyVars
  <2> QED BY <1>4, <2>1, <2>2, <2>3, <2>4, <2>5, <2>6, <2>7 DEF Add
<1>5. ASSUME NEW k \in Connectors, ConnectHandler(k) PROVE RoomInv'
  <2>1. UNCHANGED <<accept_pc, made>>
    BY <1>5, ConnectLeaves DEF listenerVars, historyVars
  <2>2. \/ /\ pc[k] \in {"posted", "connecting"}
           /\ \E q \in {"connecting", "lock"} : pc' = [pc EXCEPT ![k] = q]
        \/ pc' = [pc EXCEPT ![k] = "idle"]
    BY <1>5 DEF ConnectHandler, connect_fails, connect, resolve,
       set_connected, Step
  <2>3. Pending' \subseteq Pending
    BY <2>1, <2>2 DEF TypeOK, Pending
  <2> QED BY <1>1, <2>1, <2>3
<1>6. ASSUME NEW k \in Connectors, server_connect(k) PROVE RoomInv'
  <2>1. /\ Room /\ UNCHANGED <<accept_pc, made>>
        /\ pc' = [pc EXCEPT ![k] = "posted"]
    BY <1>6, ConnectLeaves DEF listenerVars, historyVars, server_connect, Step
  <2>2. Pending' \subseteq Pending \cup {k}
    BY <2>1 DEF TypeOK, Pending
  <2> QED BY <1>2, <2>1, <2>2
<1>7. ASSUME NEW a \in Acceptors, AcceptHandler(a) PROVE RoomInv'
  <2> USE DEF Loop, TypeOK, ListenerTypeOK, Pending
  <2>0. UNCHANGED made
    BY <1>7, AcceptLeaves DEF historyVars
  <2>1. CASE accept_handler(a)
    <3>1. CASE Room /\ accept(a)
      <4>1. Pending' \subseteq Pending \cup {a}
        BY <2>1, <3>1 DEF accept_handler, accept, adderVars
      <4> QED BY <1>2, <2>0, <3>1, <4>1
    <3>2. CASE accept_error(a)
      BY <1>1, <2>0, <2>1, <3>2 DEF accept_handler, accept_error, adderVars
    <3> QED BY <2>1, <3>1, <3>2 DEF accept_handler
  <2>2. CASE accept_callback(a)
    BY <1>1, <2>0, <2>2 DEF accept_callback, accept_new_connection
  <2>3. CASE accept_return(a)
    BY <1>1, <2>0, <2>3 DEF accept_return, callback_return, adderVars
  <2>4. CASE accept_arm(a)
    BY <1>1, <2>0, <2>4 DEF accept_arm, accept_again, adderVars
  <2> QED BY <1>7, <2>1, <2>2, <2>3, <2>4 DEF AcceptHandler
<1>8. ASSUME start_listening \/ construct \/ constructed PROVE RoomInv'
  <2>1. UNCHANGED <<pc, made>>
    BY <1>8, MakeLeaves DEF adderVars, historyVars
  <2>2. \/ UNCHANGED accept_pc
        \/ \E a \in Acceptors : accept_pc' = [accept_pc EXCEPT ![a] = "armed"]
    BY <1>8 DEF start_listening, construct, constructed, make_listener,
       first_accept, store_open
  <2>3. Pending' \subseteq Pending
    BY <2>1, <2>2 DEF Pending, TypeOK, ListenerTypeOK
  <2> QED BY <1>1, <2>1, <2>3
<1>9. ASSUME main_unref \/ erase PROVE RoomInv'
  BY <1>1, <1>9, DropLeaves DEF Pending, listenerVars, adderVars, historyVars
<1>10. ASSUME dtor PROVE RoomInv'
  BY <1>1, <1>10, DtorLeaves DEF Pending, adderVars, historyVars
<1>11. CASE UNCHANGED vars
  BY <1>1, <1>11 DEF Pending, vars, listenerVars, adderVars, historyVars
<1> QED BY <1>4, <1>5, <1>6, <1>7, <1>8, <1>9, <1>10, <1>11
        DEF Next, Application

-----------------------------------------------------------------------------
(* Types *)

LEMMA TypeStep ==
  ASSUME AdmissionInv, RoomInv', [Next]_vars
  PROVE  TypeOK'
<1> USE AdmissionAssumption DEF AdmissionInv, TypeOK
<1>0. made \in Nat /\ MaxCons \in Nat
  OBVIOUS
<1>1. ASSUME ListenerTypeOK',
             UNCHANGED <<networkVars, adderVars, historyVars, m_pc, stopped>>
      PROVE  TypeOK'
  BY <1>1 DEF networkVars, adderVars, historyVars
<1>2. ASSUME NEW t \in Adders, Add(t) PROVE TypeOK'
  <2> USE DEF Step, AdderPC
  <2>0. ListenerTypeOK' /\ UNCHANGED <<m_pc, stopped, status>>
    BY <1>2, AddLeaves DEF listenerVars, ListenerTypeOK
  <2>1. CASE lock_network(t)
    <3>1. refs' \subseteq Adders \cup {Main}
      BY <2>1 DEF lock_network
    <3>2. \E q \in AdderPC : pc' = [pc EXCEPT ![t] = q]
      BY <2>1 DEF lock_network, Left
    <3> QED BY <2>0, <2>1, <3>1, <3>2 DEF lock_network, historyVars
  <2>2. CASE take_guard(t)
    BY <2>0, <2>2 DEF take_guard, historyVars
  <2>3. CASE id_load(t)
    BY <2>0, <2>3 DEF id_load, networkVars, historyVars
  <2>4. CASE id_cas_fails(t)
    BY <2>0, <2>4 DEF id_cas_fails, networkVars, historyVars
  <2>5. CASE id_cas(t)
    <3>1. t \in Pending
      BY <2>5 DEF id_cas, Pending
    <3>2. Cardinality(Pending) >= 1 /\ Cardinality(Pending) \in Nat
      BY <3>1, FS_CardinalityType, FS_EmptySet DEF RoomInv
    <3>3. made \in 0..MaxCons - 1
      BY <1>0, <3>2 DEF RoomInv
    <3>4. (new_id[t] + 1) % IdCount \in 0..IdCount - 1
      <4>1. new_id[t] + 1 \in Nat
        OBVIOUS
      <4> QED BY <4>1, ModSplit
    <3> QED BY <2>0, <2>5, <3>3, <3>4 DEF id_cas
  <2>6. CASE push_back(t)
    <3>1. [id |-> new_id[t], nr |-> new_nr[t]] \in Con
      BY DEF Con
    <3> QED BY <2>0, <2>6, <3>1 DEF push_back
  <2>7. CASE leave_block(t)
    BY <2>0, <2>7 DEF leave_block, Left, historyVars
  <2> QED BY <1>2, <2>1, <2>2, <2>3, <2>4, <2>5, <2>6, <2>7 DEF Add
<1>3. ASSUME NEW k \in Connectors, ConnectHandler(k) \/ server_connect(k)
      PROVE  TypeOK'
  <2>1. /\ ListenerTypeOK'
        /\ UNCHANGED <<m_pc, stopped, networkVars, new_id, historyVars>>
    BY <1>3, ConnectLeaves DEF listenerVars, ListenerTypeOK
  <2>2. pc' \in [Adders -> AdderPC] /\ status' \in [Connectors -> Status]
    BY <1>3 DEF ConnectHandler, server_connect, connect_fails, connect, resolve,
       set_connected, Step, AdderPC, Status
  <2> QED BY <2>1, <2>2 DEF networkVars, historyVars
<1>4. ASSUME NEW a \in Acceptors, AcceptHandler(a) PROVE TypeOK'
  <2>1. UNCHANGED <<l_pc, listener_open, acceptor_open, m_pc, stopped,
                    networkVars, new_id, status, historyVars>>
    BY <1>4, AcceptLeaves
  <2>2. accept_pc' \in [Acceptors -> AcceptPC]
    BY <1>4 DEF AcceptHandler, accept_handler, accept_callback, accept_return,
       accept_arm, accept, accept_error, accept_new_connection,
       callback_return, accept_again, Loop, AcceptPC, ListenerTypeOK
  <2>3. pc' \in [Adders -> AdderPC]
    BY <1>4 DEF AcceptHandler, accept_handler, accept_callback, accept_return,
       accept_arm, adderVars, AdderPC
  <2> QED BY <2>1, <2>2, <2>3 DEF networkVars, historyVars, ListenerTypeOK
<1>5. ASSUME start_listening \/ construct \/ constructed PROVE TypeOK'
  <2>1. /\ UNCHANGED <<refs, next_id, connections, adderVars, historyVars,
                       m_pc, stopped>>
        /\ guard' \in {guard, Main, Free}
    BY <1>5, MakeLeaves
       DEF start_listening, construct, constructed, networkVars
  <2>2. ListenerTypeOK'
    BY <1>5 DEF start_listening, construct, constructed, make_listener,
       first_accept, store_open, Owner, ListenerTypeOK, ListenerPC, AcceptPC
  <2> QED BY <2>1, <2>2 DEF adderVars, historyVars
<1>6. ASSUME erase PROVE TypeOK'
  <2>1. Tail(connections) \in Seq(Con)
    BY <1>6 DEF erase
  <2> QED BY <1>6, <2>1, DropLeaves
          DEF erase, listenerVars, ListenerTypeOK, adderVars, historyVars
<1>7. ASSUME main_unref PROVE TypeOK'
  BY <1>7, DropLeaves DEF main_unref, Dtor, MainPC, listenerVars,
     ListenerTypeOK, adderVars, historyVars
<1>8. ASSUME dtor PROVE TypeOK'
  <2>1. UNCHANGED <<accept_pc, refs, guard, next_id, adderVars, historyVars>>
    BY <1>8, DtorLeaves
  <2>2. m_pc' \in MainPC /\ stopped' \in BOOLEAN
        /\ connections' \in {connections, <<>>}
    BY <1>8 DEF dtor, dtor_loop, dtor_no_listener, dtor_close_listener,
       dtor_stop, dtor_join, dtor_members, Dtor, MainPC, networkVars
  <2>3. ListenerTypeOK'
    BY <1>8 DEF dtor, dtor_loop, dtor_no_listener, dtor_close_listener,
       dtor_stop, dtor_join, dtor_members, Dtor, close_listener, clear_open,
       close_acceptor, Owner, listenerVars, ListenerTypeOK, ListenerPC
  <2>4. connections' \in Seq(Con)
    <3>1. <<>> \in Seq(Con)
      OBVIOUS
    <3> QED BY <2>2, <3>1
  <2> QED BY <2>1, <2>2, <2>3, <2>4 DEF adderVars, historyVars
<1>9. CASE UNCHANGED vars
  BY <1>1, <1>9 DEF vars, listenerVars, ListenerTypeOK
<1> QED BY <1>2, <1>3, <1>4, <1>5, <1>6, <1>7, <1>8, <1>9 DEF Next, Application

-----------------------------------------------------------------------------
(* The invariant *)

LEMMA AdmissionInit == Init => AdmissionInv
<1> SUFFICES ASSUME Init PROVE AdmissionInv
  OBVIOUS
<1> USE AdmissionAssumption DEF Init, ListenerInit
<1>1. TypeOK
  <2>1. <<>> \in Seq(Con)
    OBVIOUS
  <2>2. ListenerTypeOK
    BY DEF ListenerTypeOK, ListenerPC, AcceptPC
  <2>3. 0 \in 0..IdCount - 1 /\ 0 \in 0..MaxCons - 1 /\ 0 \in 0..MaxCons
    OBVIOUS
  <2>4. /\ pc \in [Adders -> AdderPC] /\ status \in [Connectors -> Status]
        /\ new_id \in [Adders -> 0..IdCount - 1]
        /\ new_nr \in [Adders -> 0..MaxCons - 1]
    BY <2>3 DEF AdderPC, Status
  <2> QED BY <2>1, <2>2, <2>3, <2>4 DEF TypeOK, MainPC
<1>2. PhaseInv /\ ShutdownInv /\ HandlerInv
  BY DEF PhaseInv, ShutdownInv, HandlerInv, Constructing, Running
<1>3. GuardInv /\ ListedInv
  BY DEF GuardInv, HoldsGuard, ListedInv
<1>4. IdInv
  <2>1. 0 % IdCount = 0
    <3>1. (IdCount * 0 + 0) % IdCount = 0
      BY ModUnique
    <3> QED BY <3>1
  <2>2. \A i \in 1..Len(connections) : FALSE
    OBVIOUS
  <2> QED BY <2>1, <2>2 DEF IdInv, HasId
<1>5. RoomInv
  <2>1. Pending = {}
    BY DEF Pending
  <2> QED BY <2>1, FS_EmptySet DEF RoomInv
<1> QED BY <1>1, <1>2, <1>3, <1>4, <1>5 DEF AdmissionInv

LEMMA AdmissionAlways == Spec => []AdmissionInv
<1>1. Init => AdmissionInv
  BY AdmissionInit
<1>2. AdmissionInv /\ [Next]_vars => AdmissionInv'
  <2> SUFFICES ASSUME AdmissionInv, [Next]_vars PROVE AdmissionInv'
    OBVIOUS
  <2> QED BY PhaseStep, ShutdownStep, HandlerStep, GuardStep, IdStep,
             ListedStep, RoomStep, TypeStep
          DEF AdmissionInv
<1> QED BY <1>1, <1>2, PTL DEF Spec

-----------------------------------------------------------------------------
(* The theorems *)

\* Every variable has its type: the bound of the model leaves a number for
\* every connection that is being made.
THEOREM AdmissionTypeCorrect == Spec => []TypeOK
<1>1. AdmissionInv => TypeOK
  BY DEF AdmissionInv
<1> QED BY <1>1, AdmissionAlways, PTL

\* From the end of the listener's constructor to close_listener both acceptors
\* are open and both accept loops go on.
THEOREM ListeningLasts == Spec => []OpenMeansListening
<1>1. AdmissionInv => OpenMeansListening
  BY DEF AdmissionInv, PhaseInv, OpenMeansListening, TypeOK, ListenerTypeOK,
         ListenerPC, Constructing
<1> QED BY <1>1, AdmissionAlways, PTL

\* close_listener, called by ~network and by ~listener, cancels and closes an
\* acceptor only while it is open.
THEOREM AcceptorsCloseOnce == Spec => []ClosedOnce
<1>1. AdmissionInv => ClosedOnce
  BY DEF AdmissionInv, PhaseInv, ClosedOnce, Acceptors
<1> QED BY <1>1, AdmissionAlways, PTL

\* ~network destroys the listener when no accept handler runs, and none starts
\* after that.
THEOREM HandlersEndFirst == Spec => []ListenerOutlivesHandlers
<1>1. AdmissionInv => ListenerOutlivesHandlers
  BY DEF AdmissionInv, ShutdownInv, ListenerOutlivesHandlers
<1> QED BY <1>1, AdmissionAlways, PTL

\* get_con finds the listed connection with an id, whatever threads took their
\* ids at once, until the ids have gone round.
THEOREM IdsFindConnections == Spec => []GetConFinds
<1>1. AdmissionInv => GetConFinds
  <2> SUFFICES ASSUME AdmissionInv, NEW i \in 1..Len(connections)
               PROVE  LET con == connections[i]
                          found == get_con(con.id)
                      IN  found = con \/ con.nr - found.nr >= IdCount
                                      \/ found.nr - con.nr >= IdCount
    BY DEF GetConFinds
  <2> USE AdmissionAssumption DEF AdmissionInv
  <2> DEFINE id == connections[i].id
             hits == {j \in 1..Len(connections) : connections[j].id = id}
             least(j) == \A h \in hits : j <= h
  <2>1. i \in hits /\ hits \subseteq Nat
    OBVIOUS
  <2>2. \E j \in hits : least(j)
    BY <2>1, Minimum
  <2>3. PICK f \in hits : f = CHOOSE j \in hits : least(j)
    BY <2>2
  <2>4. get_con(id) = connections[f]
    BY <2>1, <2>3 DEF get_con
  <2>5. connections[f].id = id /\ f \in 1..Len(connections)
    OBVIOUS
  <2>6. connections[i] \in Con /\ connections[f] \in Con
    BY <2>5 DEF TypeOK
  <2>7. connections[f].nr % IdCount = connections[i].nr % IdCount
    BY <2>5 DEF IdInv
  <2>8. connections[f].nr \in Nat /\ connections[i].nr \in Nat
    BY <2>6 DEF Con
  <2>9. CASE connections[f].nr = connections[i].nr
    BY <2>4, <2>5, <2>6, <2>9 DEF Con
  <2>10. CASE connections[f].nr < connections[i].nr
    BY <2>4, <2>7, <2>8, <2>10, SameIdApart
  <2>11. CASE connections[i].nr < connections[f].nr
    BY <2>4, <2>7, <2>8, <2>11, SameIdApart
  <2> QED BY <2>8, <2>9, <2>10, <2>11
<1> QED BY <1>1, AdmissionAlways, PTL

\* A server_connect that becomes Connected has listed its connection, or there
\* was no network left to list it in.
THEOREM ConnectedAfterListed == Spec => ConnectedIsListed
<1>1. ASSUME AdmissionInv, [Next]_vars
      PROVE  \A k \in Connectors :
               status'[k] = "Connected" /\ status[k] # "Connected" =>
                 k \in listed \/ refs = {}
  <2> USE DEF AdmissionInv
  <2> SUFFICES ASSUME NEW k \in Connectors, status'[k] = "Connected",
                      status[k] # "Connected"
               PROVE  k \in listed \/ refs = {}
    OBVIOUS
  <2>1. PICK c \in Connectors : ConnectHandler(c) \/ server_connect(c)
    BY <1>1, AddLeaves, AcceptLeaves, MakeLeaves, DropLeaves, DtorLeaves
       DEF Next, Application, vars, adderVars
  <2>2. c = k /\ set_connected(k)
    <3>1. status \in [Connectors -> Status]
      BY <1>1 DEF TypeOK
    <3>2. CASE connect_fails(c) \/ server_connect(c) \/ connect(c) \/ resolve(c)
      BY <3>1, <3>2 DEF connect_fails, server_connect, connect, resolve
    <3>3. CASE set_connected(c)
      BY <3>1, <3>3 DEF set_connected
    <3> QED BY <2>1, <3>2, <3>3 DEF ConnectHandler
  <2>3. pc[k] = "set_state"
    BY <2>2 DEF set_connected, Step
  <2>4. ListedInv
    BY <1>1
  <2> QED BY <2>3, <2>4 DEF ListedInv
<1> QED BY <1>1, AdmissionAlways, PTL DEF Spec, ConnectedIsListed
=============================================================================
