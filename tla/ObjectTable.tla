----------------------------- MODULE ObjectTable -----------------------------
(***************************************************************************)
(* The object table of a Device (server/object/device.go) under the        *)
(* requests that change it: CreateObject and DeleteObject of the server    *)
(* (server/handlers_object.go), which look at the table and change it      *)
(* under separate holds of the table lock, and Rename of the application.  *)
(*                                                                         *)
(* Every request runs on a worker of its own.  heap holds the object each  *)
(* CreateObject builds (Held is the application's own object), objects is  *)
(* the table from identifier to heap object, names the index from          *)
(* Object_Name to identifier.  An identifier is <<type, instance>>; the    *)
(* automatic name of instance i is <<i, 0>>, then <<i, 1>>, ...            *)
(***************************************************************************)
EXTENDS Absent, Integers, FiniteSets

CONSTANTS Requests,     \* concurrent requests, one worker each
          Creatable,    \* the object type that has a factory
          Fixed,        \* an object type the device holds but cannot create
          Instances,    \* instance numbers a request may name
          Names,        \* Object_Name values a request may carry
          MaxObjects    \* DeviceConfig.MaxObjects, the Device not counted

Held == "application"
Owners == Requests \cup {Held}
HeldId == <<Fixed, 0>>
HeldName == <<-1, 0>>

\* The application's object is not a request's, and it fits the table.
ASSUME TableAssumption == Held \notin Requests /\ MaxObjects \in Nat \ {0}

VARIABLES objects, names, revision, heap, listed, request, at

tableVars == <<objects, names, revision, heap, listed, request, at>>

\* What a worker may be asked to do; initial is the outcome its initial
\* values will have when they are written one by one.
CreateRequest == [op : {"create"}, type : {Creatable, Fixed}, instance : Instances \cup {None},
                  name : Names \cup {None}, initial : {"none", "good", "bad"}]
DeleteRequest == [op : {"delete"}, id : {Creatable, Fixed} \X Instances]
RenameRequest == [op : {"rename"}, id : {Creatable, Fixed} \X Instances, name : Names]

Goto(w, step) == at' = [at EXCEPT ![w].pc = step]
Answer(w, outcome) == at' = [at EXCEPT ![w].pc = "done", ![w].outcome = outcome]

TableInit(asked) ==
    /\ request = asked
    /\ objects = [id \in {HeldId} |-> Held]
    /\ heap = [o \in Owners |-> [id |-> HeldId, name |-> HeldName, notify |-> o = Held,
                                 deletable |-> FALSE]]
    /\ names = [n \in {HeldName} |-> HeldId]
    /\ revision = 1
    /\ listed = {HeldId}
    /\ at = [w \in Requests |-> [pc |-> "start", instance |-> None, name |-> None,
                                 removed |-> None, outcome |-> None]]

\* createObject up to Create: the name the initial values carry is looked up
\* before anything is created.
createObject(w) ==
    LET r == request[w] IN
    /\ at[w].pc = "start" /\ r.op = "create"
    /\ IF r.name \in DOMAIN names
         THEN Answer(w, "duplicate-name")
         ELSE at' = [at EXCEPT ![w].pc = "create", ![w].name = r.name]
    /\ UNCHANGED <<objects, names, revision, heap, listed, request>>

\* The lowest instance of a type that the table does not hold.
freeInstance(t) ==
    CHOOSE i \in 0 .. Cardinality(DOMAIN objects) :
        /\ <<t, i>> \notin DOMAIN objects
        /\ \A j \in 0 .. i - 1 : <<t, j>> \in DOMAIN objects

hasType(t) == \E id \in DOMAIN objects : id[1] = t

\* Device.Create: factory lookup and the choice of the instance.
Create(w) ==
    LET r == request[w] IN
    /\ at[w].pc = "create"
    /\ CASE r.type # Creatable ->
                Answer(w, IF hasType(r.type) THEN "not-creatable" ELSE "unsupported-type")
         [] r.type = Creatable /\ r.instance # None /\ <<r.type, r.instance>> \in DOMAIN objects ->
                Answer(w, "object-exists")
         [] OTHER ->
                at' = [at EXCEPT ![w].pc = "name",
                                 ![w].instance = IF r.instance # None THEN r.instance
                                                 ELSE freeInstance(r.type)]
    /\ UNCHANGED <<objects, names, revision, heap, listed, request>>

\* The automatic name: one lookup per candidate, each under its own hold of
\* the lock; then the factory builds the object, marked deletable.
pickName(w) ==
    LET i == at[w].instance
        n == at[w].name
    IN
    /\ at[w].pc = "name"
    /\ \/ /\ n = None
          /\ at' = [at EXCEPT ![w].name = <<i, 0>>]
          /\ UNCHANGED heap
       \/ /\ n # None /\ request[w].name = None /\ n \in DOMAIN names
          /\ at' = [at EXCEPT ![w].name = <<i, n[2] + 1>>]
          /\ UNCHANGED heap
       \/ /\ n # None /\ (request[w].name # None \/ n \notin DOMAIN names)
          /\ heap' = [heap EXCEPT ![w] = [id |-> <<Creatable, i>>, name |-> n,
                                          notify |-> FALSE, deletable |-> TRUE]]
          /\ Goto(w, "add")
    /\ UNCHANGED <<objects, names, revision, listed, request>>

Put(f, x, y) == [z \in DOMAIN f \cup {x} |-> IF z = x THEN y ELSE f[z]]
Drop(f, x) == [z \in DOMAIN f \ {x} |-> f[z]]

\* A slip Add's recheck rules out: trusting the name lookup made before.
AddTrusting(w) ==
    LET o == heap[w] IN
    /\ at[w].pc = "add"
    /\ IF o.id \in DOMAIN objects
         THEN Answer(w, "object-exists") /\ UNCHANGED <<objects, names, revision>>
         ELSE /\ objects' = Put(objects, o.id, w)
              /\ names' = Put(names, o.name, o.id)
              /\ revision' = revision + 1
              /\ Goto(w, "notifier")
    /\ UNCHANGED <<heap, listed, request>>

\* Device.Add: everything looked up before is checked again under the lock.
Add(w) ==
    LET o == heap[w]
        refusal == CASE o.id \in DOMAIN objects -> "object-exists"
                     [] o.id \notin DOMAIN objects /\ o.name \in DOMAIN names -> "duplicate-name"
                     [] OTHER -> "no-space"
    IN
    /\ at[w].pc = "add"
    /\ IF \/ o.id \in DOMAIN objects
          \/ o.name \in DOMAIN names
          \/ Cardinality(DOMAIN objects) >= MaxObjects
         THEN Answer(w, refusal) /\ UNCHANGED <<objects, names, revision>>
         ELSE /\ objects' = Put(objects, o.id, w)
              /\ names' = Put(names, o.name, o.id)
              /\ revision' = revision + 1
              /\ Goto(w, "notifier")
    /\ UNCHANGED <<heap, listed, request>>

\* The end of Add: SetNotifier on the object, then Object_List is reported.
SetNotifier(w) ==
    /\ at[w].pc = "notifier"
    /\ heap' = [heap EXCEPT ![w].notify = TRUE]
    /\ Goto(w, "added")
    /\ UNCHANGED <<objects, names, revision, listed, request>>

\* dispatch of Object_List and Database_Revision: the observers read the
\* list as it is when they are called.
dispatch(w) ==
    /\ at[w].pc \in {"added", "dropped"}
    /\ listed' = DOMAIN objects
    /\ IF at[w].pc = "added" THEN Goto(w, "initial")
       ELSE Answer(w, IF request[w].op = "delete" THEN "ack" ELSE "initial-value-refused")
    /\ UNCHANGED <<objects, names, revision, heap, request>>

\* The initial values: the first refused one has the object removed again.
initialValues(w) ==
    /\ at[w].pc = "initial"
    /\ IF request[w].initial = "bad" THEN Goto(w, "remove") ELSE Answer(w, "ack")
    /\ UNCHANGED <<objects, names, revision, heap, listed, request>>

\* deleteObject up to Remove: the lookup and the deletable check.
deleteObject(w) ==
    LET r == request[w] IN
    /\ at[w].pc = "start" /\ r.op = "delete"
    /\ CASE r.id \notin DOMAIN objects -> Answer(w, "unknown-object")
         [] r.id \in DOMAIN objects /\ ~heap[objects[r.id]].deletable -> Answer(w, "not-deletable")
         [] OTHER -> Goto(w, "remove")
    /\ UNCHANGED <<objects, names, revision, heap, listed, request>>

removing(w) == IF request[w].op = "delete" THEN request[w].id ELSE heap[w].id

\* Device.Remove under the lock: whichever object has the identifier now.
Remove(w) ==
    LET id == removing(w) IN
    /\ at[w].pc = "remove"
    /\ IF id \notin DOMAIN objects
         THEN /\ Answer(w, IF request[w].op = "delete" THEN "unknown-object"
                           ELSE "initial-value-refused")
              /\ UNCHANGED <<objects, names, revision>>
         ELSE /\ objects' = Drop(objects, id)
              /\ names' = Drop(names, heap[objects[id]].name)
              /\ revision' = revision + 1
              /\ at' = [at EXCEPT ![w].pc = "unnotify", ![w].removed = objects[id]]
    /\ UNCHANGED <<heap, listed, request>>

\* The end of Remove: the removed object stops reporting.
ClearNotifier(w) ==
    /\ at[w].pc = "unnotify"
    /\ heap' = [heap EXCEPT ![at[w].removed].notify = FALSE]
    /\ Goto(w, "dropped")
    /\ UNCHANGED <<objects, names, revision, listed, request>>

\* Device.Rename, in one hold of the lock.
Rename(w) ==
    LET r == request[w]
        o == objects[r.id]
    IN
    /\ at[w].pc = "start" /\ r.op = "rename"
    /\ CASE r.id \notin DOMAIN objects ->
                Answer(w, "unknown-object") /\ UNCHANGED <<names, heap, revision>>
         [] r.id \in DOMAIN objects /\ r.name \in DOMAIN names ->
                /\ Answer(w, IF names[r.name] = r.id THEN "ack" ELSE "duplicate-name")
                /\ UNCHANGED <<names, heap, revision>>
         [] OTHER ->
                /\ names' = Put(Drop(names, heap[o].name), r.name, r.id)
                /\ heap' = [heap EXCEPT ![o].name = r.name]
                /\ revision' = revision + 1
                /\ Answer(w, "ack")
    /\ UNCHANGED <<objects, listed, request>>

Work(w) ==
    \/ createObject(w) \/ Create(w) \/ pickName(w) \/ Add(w) \/ SetNotifier(w) \/ dispatch(w)
    \/ initialValues(w) \/ deleteObject(w) \/ Remove(w) \/ ClearNotifier(w) \/ Rename(w)

-----------------------------------------------------------------------------
\* The name index is exactly the inverse of the table's names and the table
\* keeps its limit, although every request looked at both before it changed
\* them; an object whose Add has returned reports its changes for as long as
\* it is in the table; a CreateObject that was refused leaves no object of
\* its own behind; and when no report is outstanding the observers have seen
\* the Object_List the device now has (Device.Add, Remove, Rename).
TableConsistent ==
    /\ \A id \in DOMAIN objects :
         /\ heap[objects[id]].id = id
         /\ heap[objects[id]].name \in DOMAIN names
         /\ names[heap[objects[id]].name] = id
    /\ \A n \in DOMAIN names : names[n] \in DOMAIN objects /\ heap[objects[names[n]]].name = n
    /\ Cardinality(DOMAIN objects) <= MaxObjects
    /\ \A id \in DOMAIN objects :
         objects[id] # Held /\ at[objects[id]].pc # "notifier" => heap[objects[id]].notify
    /\ \A w \in Requests :
         at[w].pc = "done" /\ request[w].op = "create" /\ at[w].outcome # "ack"
           => \A id \in DOMAIN objects : objects[id] # w
    /\ (\A w \in Requests : at[w].pc \notin {"notifier", "added", "unnotify", "dropped"})
         => listed = DOMAIN objects
=============================================================================
