---------------------------- MODULE XmlRpcHandler ----------------------------
(***************************************************************************)
(* The methods of an XmlRpcHandler (XmlRpcHandler.qm): a plain list that   *)
(* addMethod() extends and that every call walks, without a lock.          *)
(***************************************************************************)
EXTENDS Naturals, Sequences

CONSTANTS
  Adder,      \* threads that call addMethod()
  Installed,  \* the list after the constructor
  NewMethod   \* methods to add

\* names: what the regular expression of a method matches
ASSUME HandlerAssumption ==
  LET Method == [text : STRING, names : SUBSET STRING, code : STRING]
  IN  Installed \in Seq(Method) /\ NewMethod \subseteq Method

VARIABLES
  methods,  \* XmlRpcHandler::methods
  adding,   \* per thread: the method it adds, if any
  index,    \* per thread: i of addMethodInternal()
  added     \* methods whose addMethod() has returned

hvars == <<methods, adding, index, added>>

HandlerInit ==
  /\ methods = Installed
  /\ adding = [a \in Adder |-> {}]
  /\ index = [a \in Adder |-> 0]
  /\ added = {}

\* addMethodInternal() looks for the text in mi, which stays empty, and takes
\* the next index ...
AddIndex(a, m) ==
  /\ adding[a] = {}
  /\ m \notin added /\ \A b \in Adder : m \notin adding[b]
  /\ adding' = [adding EXCEPT ![a] = {m}]
  /\ index' = [index EXCEPT ![a] = Len(methods) + 1]
  /\ UNCHANGED <<methods, added>>

\* ... and stores the method there.
AddStore(a, m) ==
  /\ adding[a] = {m}
  /\ methods' = IF index[a] \in DOMAIN methods THEN [methods EXCEPT ![index[a]] = m]
                ELSE Append(methods, m)
  /\ adding' = [adding EXCEPT ![a] = {}]
  /\ added' = added \cup {m}
  /\ UNCHANGED index

AddMethod == \E a \in Adder, m \in NewMethod : AddIndex(a, m) \/ AddStore(a, m)

\* callMethod() takes the first method that matches.
Matching(name) == {i \in DOMAIN methods : name \in methods[i].names}

\* Slip: the last one.
Found_Last(name) == CHOOSE i \in Matching(name) : \A j \in Matching(name) : j <= i

Found(name) == CHOOSE i \in Matching(name) : \A j \in Matching(name) : i <= j

listMethods == [i \in DOMAIN methods |-> methods[i].text]

HandlerSpec == HandlerInit /\ [][AddMethod]_hvars

-----------------------------------------------------------------------------
(* Properties *)

\* A name that is served is served by the same method from then on, whatever is
\* added; and what was added is there.
SteadyDispatch ==
  [][/\ \A m \in NewMethod : \A name \in m.names :
          Matching(name) # {} => Matching(name)' # {} /\ methods'[Found(name)'] = methods[Found(name)]
     /\ \A m \in added' : \E i \in DOMAIN methods' : methods'[i] = m]_hvars
=============================================================================
