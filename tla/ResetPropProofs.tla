---------------------------- MODULE ResetPropProofs ----------------------------
EXTENDS ResetProp, WellFoundedInduction, SequenceTheorems, TLAPS

-----------------------------------------------------------------------------
(* The inductive invariant *)

Told == Seq(Int) \cup {Undefined}    \* what a reader is told
Opt == Told \cup {None}
Shown == [ReadCallback : Opt, Read : Opt]
Texts == Seq(Nat)

\* The areas are sound, and hold what the history says of every property.
Areas ==
    /\ world \in DOMAIN Worlds /\ serial_ \in Nat /\ crashed \in BOOLEAN
    /\ None \notin DOMAIN area /\ contextOf \in [Names -> {None} \cup DOMAIN area]
    /\ area = [c \in DOMAIN area |-> area[c]]
    /\ \A c \in DOMAIN area : AreaOK(area[c])
    /\ value \in [Names -> Shown]

Agree ==
    \A n \in Names :
        IF GetPropAreaForName(n) = None THEN value[n] = Gone
        ELSE Holds(area[GetPropAreaForName(n)], n, value[n])

\* A serial is odd while its property is written, or because the writer was killed.
Written(n) == mut.pc \in {"copy", "clean"} /\ mut.name = n
Odd(n) ==
    /\ GetPropAreaForName(n) # None /\ find(n) # 0
    /\ area[GetPropAreaForName(n)].info[find(n)].serial % 2 = 1
OddIsWritten == \A n \in Names : Odd(n) => Written(n) \/ crashed

Mutations ==
    [pc : {"return", "find", "link", "unlink", "dirty", "copy", "clean", "wake", "bump", "wakeall"},
     op : {"delete", "add", "update"}, name : Names, v : Texts, pi : Nat, new : Nat, i : Nat,
     ret : {0, -1}]

\* The object that waits to be linked is the one the search asks for.
ToLink(m, a) ==
    LET at == find_prop_bt(a.bt, m.name)
    IN  IF at.link = "none"
        THEN m.new \in DOMAIN a.info /\ a.info[m.new] = prop_info(m.name, m.v)
        ELSE /\ m.new \in DOMAIN a.bt /\ m.new > at.node /\ ~Linked(a.bt, m.new)
             /\ a.bt[m.new] = prop_bt(SubSeq(m.name, 1, at.depth))

\* The characters that an update has copied.
Copied(m, info) ==
    /\ info.serial % 2 = 1
    /\ m.pc = "copy" => /\ m.i \in 1 .. Len(m.v) + 1
                        /\ \A j \in 1 .. m.i - 1 : info.value[j] = m.v[j]
    /\ m.pc = "clean" => /\ \A j \in 1 .. Len(m.v) : info.value[j] = m.v[j]
                         /\ info.value[Len(m.v) + 1] = NUL

\* What has come of a mutation that is past its last store.
Outcome(m, here, a, shown) ==
    /\ m.op = "delete" /\ m.pc # "unlink" /\ here => PropIn(a.bt, m.name) = 0
    /\ m.op = "add" /\ m.pc \notin {"find", "link"} /\ m.ret = 0 => shown = Shows(m.v)
    /\ m.op = "update" /\ m.pc \notin {"dirty", "copy", "clean"} /\ m.ret = 0
         => a.info[m.pi].is_long \/ shown = Shows(m.v)

\* A mutation m, the area of its property (if it opens), and what is shown of it.
MutationOK(m, here, a, shown) ==
    /\ m \in Mutations
    /\ m.pc \in {"find", "link"} => m.op = "add"
    /\ m.pc = "unlink" => m.op = "delete"
    /\ m.pc \in {"dirty", "copy", "clean", "wake"} => m.op = "update"
    /\ m.pc # "return" => m.ret = 0
    /\ m.ret = 0 => here
    /\ m.op = "add" /\ m.ret = 0 /\ Len(m.v) >= PROP_VALUE_MAX => is_read_only(m.name)
    /\ m.op = "update" /\ m.ret = 0 =>
         Len(m.v) < PROP_VALUE_MAX /\ m.pi # 0 /\ m.pi = PropIn(a.bt, m.name)
    /\ m.pc \in {"find", "link"} => PropIn(a.bt, m.name) = 0
    /\ m.pc = "link" => ToLink(m, a)
    /\ m.pc = "dirty" => m.i = 1
    /\ m.pc \in {"copy", "clean"} => Copied(m, a.info[m.pi])
    /\ Outcome(m, here, a, shown)

MutOK == mut # Idle => MutationOK(mut, Context # None, Area, value[mut.name])

Finding == {"children", "sibling", "prop", "reload"}
Reading == {"serial", "dirty", "asleep", "copy", "check"}
ReaderRecords ==
    [pc : {"start", "denied", "wait", "waiting", "load"} \cup Finding \cup Reading,
     api : {"Read", "ReadCallback"}, name : Names, old : Nat, at : Nat, i : Nat, pi : Nat,
     serial : Nat, len : Nat, got : Seq(Int), seen : Told, could : SUBSET Opt,
     inPlace : BOOLEAN]

\* A lookup is at a node from which the search ends where it would from the root.
Looks(rd, bt) ==
    LET from(i) == /\ rd.at \in DOMAIN bt /\ rd.i \in 1 .. Len(rd.name)
                   /\ Search(bt, rd.name)[<<rd.at, i>>] = find_prop_bt(bt, rd.name)
    IN  /\ rd.pc = "children" => from(rd.i - 1) /\ LinkTaken(bt, rd.name, rd.at, rd.i - 1) = "children"
        /\ rd.pc = "sibling" => from(rd.i)
        /\ rd.pc \in {"prop", "reload"} => /\ find_prop_bt(bt, rd.name).link = "none"
                                           /\ find_prop_bt(bt, rd.name).node = rd.at

\* What stands behind the offset could be read; what has been copied of it is what stands
\* there unless the serial has moved, and without a write in place it has not.
Reads(rd, a) ==
    IF rd.pi = 0
    THEN /\ None \in rd.could
         /\ rd.pc \in {"copy", "check"} => rd.serial = 0 /\ rd.len = 0 /\ rd.got = <<>>
    ELSE LET info == a.info[rd.pi]
         IN  /\ rd.pi \in DOMAIN a.info /\ info.name = rd.name
             /\ info.is_long /\ rd.api = "ReadCallback" => info.long_value \in rd.could
             /\ info.serial % 2 = 0 => ValueOf(info)[rd.api] \in rd.could
             /\ rd.pc \in {"copy", "check"} =>
                  /\ rd.serial % 2 = 0 /\ rd.serial <= info.serial
                  /\ rd.inPlace \/ rd.serial = info.serial
                  /\ Len(rd.got) < PROP_VALUE_MAX /\ rd.len < PROP_VALUE_MAX
                  /\ rd.api = "Read" \/ ~is_read_only(rd.name) => Len(rd.got) <= rd.len
                  /\ rd.pc = "check" => /\ Len(rd.got) = rd.len
                                        /\ rd.api = "Read" \/ ~is_read_only(rd.name)
                  /\ rd.serial = info.serial =>
                       /\ rd.len = info.len
                       /\ Len(rd.got) <= info.len
                       /\ \A j \in 1 .. Len(rd.got) : rd.got[j] = info.value[j]

Current(rd) ==
    rd.pc \in {"wait", "waiting", "load"} =>
        \/ rd.seen \in {Text(v) : v \in rd.could}
        \/ rd.api = "ReadCallback" /\ is_read_only(rd.name) /\ rd.inPlace

\* A reader, what is shown of its property, whether that is being written in place,
\* and its area, if it opens.
ReaderOK(rd, shown, written, here, a) ==
    /\ rd.pc # "start" => shown[rd.api] \in rd.could
    /\ written => rd.inPlace
    /\ rd.pc = "denied" => ~here
    /\ rd.pc \in Finding \cup Reading => here
    /\ rd.pc \in Finding => Looks(rd, a.bt)
    /\ rd.pc \in Reading => Reads(rd, a)
    /\ Current(rd)

ReadersOK ==
    /\ reads \in [Readers -> ReaderRecords]
    /\ \A r \in Readers : ReaderOK(reads[r], value[reads[r].name], Written(reads[r].name),
                                    GetPropAreaForName(reads[r].name) # None, TheArea(r))

ToolRecords ==
    [pc : {"set", "update", "add", "reset", "request", "answer", "delete", "collect", "encode",
           "rename", "unlink", "del", "deleted"},
     op : {"set", "delete"}, sets : Seq([name : Names, value : Texts]), trigger : BOOLEAN,
     persist : BOOLEAN, asked : BOOLEAN, name : Names, list : {None} \cup [Names -> Opt],
     was : Shown, late : BOOLEAN, failed : BOOLEAN]
Deleting == {"delete", "collect", "encode", "rename", "unlink", "del", "deleted"}
Own == {"update", "add", "reset", "deleted"}

\* The persisted properties while one of them is deleted.
Persisting ==
    /\ ~tool.late => requests = <<>>
    /\ tool.pc \in {"encode", "rename"} =>
         /\ tool.list \in [Names -> Opt] /\ tool.list[Name] = None
         /\ ~tool.late => \A n \in Names \ {Name} : tool.list[n] = disk[n]
    /\ tool.pc = "encode" =>
         tmp \in [Names -> Opt] /\ \A n \in Names : tmp[n] \in {None, tool.list[n]}
    /\ tool.pc = "rename" => tmp \in {None, tool.list}
    /\ tool.pc = "delete" => tool.asked = tool.persist
    /\ tool.pc \in {"del", "deleted"} /\ tool.asked /\ IsPersist(Name)
         => tool.late \/ tool.failed \/ disk[Name] = None

\* Whose mutation it is that runs: the tool's, or init's for the next request.
Owner ==
    /\ tool.pc \in {"update", "add"} =>
         mut # Idle /\ mut.op = tool.pc /\ mut.name = Name /\ mut.v = Value
    /\ tool.pc \in {"reset", "deleted"} => mut # Idle /\ mut.op = "delete" /\ mut.name = Name
    /\ mut # Idle /\ tool.pc \notin Own =>
         /\ requests # <<>> /\ mut.name = Head(requests).name /\ mut.v = Head(requests).value
         /\ mut.op \in {"update", "add"}
         /\ mut.op = "update" => ~is_read_only(mut.name)

\* Only the last request may be waited for, by the tool that sent it.
Requests ==
    /\ requests \in Seq([name : Names, value : Texts, waits : BOOLEAN])
    /\ answer \in {"none", "success", "refused"}
    /\ \A i \in DOMAIN requests : requests[i].waits =>
         /\ i = Len(requests) /\ tool.pc = "answer" /\ answer = "none"
         /\ requests[i].name = Name /\ requests[i].value = Value
    /\ tool.pc = "answer" /\ answer = "success" =>
         requests = <<>> /\ mut = Idle /\ value[Name] = Shows(Value)

ToolOK ==
    /\ disk \in [Names -> Opt] /\ Requests /\ Owner
    /\ tool # Resting =>
         /\ tool \in ToolRecords
         /\ tool.op = "set" => tool.sets # <<>> /\ tool.pc \notin Deleting
         /\ tool.op = "delete" => tool.pc \in Deleting /\ Persisting
         /\ tool.pc \in {"reset", "request", "answer"} => tool.trigger

\* After a call that returned 0 everything is at rest, and as it should be.
Lasting ==
    (tool = Resting /\ last.op # "none" /\ last.ret = 0 /\ ~crashed) =>
        \/ last.late \/ last.failed \/ last.long
        \/ last.trigger /\ last.op = "set" /\ detect_protocol_version = 1
        \/ /\ mut = Idle /\ requests = <<>>
           /\ stored(last.name, last.persist) = last.value

\* A temporary file is only left with protobuf; it has nothing that the file has not, and
\* lacks a record of the file.
Files ==
    /\ tmp # None =>
         /\ World.use_pb /\ tmp \in [Names -> Opt]
         /\ \E m \in Names : /\ disk[m] # None
                             /\ \A n \in Names : tmp[n] # None => n # m /\ disk[n] # None
    /\ tool.pc \in {"collect", "encode", "rename"} => World.use_pb
    /\ tool.pc = "unlink" => ~World.use_pb
    /\ tool.pc \in {"encode", "rename"} =>
         disk[Name] # None /\ \A n \in Names : tool.list[n] # None => disk[n] # None

Inv == Areas /\ Agree /\ OddIsWritten /\ MutOK /\ ReadersOK /\ ToolOK /\ Lasting

-----------------------------------------------------------------------------
(* Induction over sets of numbers, and functions that refer to larger numbers *)

\* A non-empty set of naturals has a least element.
LEMMA LeastNumber ==
    ASSUME NEW T, T \subseteq Nat, T # {}
    PROVE  \E c \in T : \A d \in T : c <= d
<1>1. PICK c \in T : \A d \in T : ~ (<<d, c>> \in OpToRel(<, Nat))
  BY WFMin, NatLessThanWellFounded, ZenonT(30)
<1>2. ASSUME NEW d \in T PROVE c <= d
  <2>1. c \in Nat /\ d \in Nat
    OBVIOUS
  <2>2. ~ (d < c)
    BY <1>1, <2>1 DEF OpToRel
  <2> QED
    BY <2>1, <2>2
<1> QED
  BY <1>2

\* Downward induction: a set that holds a number of 0 .. B whenever it holds the
\* larger ones holds them all.
LEMMA Downward ==
    ASSUME NEW B \in Nat, NEW T,
           \A n \in 0 .. B : (\A k \in n + 1 .. B : k \in T) => n \in T
    PROVE  \A n \in 0 .. B : n \in T
<1> SUFFICES ASSUME NEW n \in 0 .. B, n \notin T PROVE FALSE
  OBVIOUS
<1> DEFINE U == {B - k : k \in {j \in 0 .. B : j \notin T}}
<1>1. U \subseteq Nat /\ B - n \in U
  OBVIOUS
<1>2. PICK c \in U : \A d \in U : c <= d
  <2> HIDE DEF U
  <2> QED
    BY <1>1, LeastNumber
<1>3. PICK j \in 0 .. B : j \notin T /\ c = B - j
  OBVIOUS
<1>4. ASSUME NEW k \in j + 1 .. B PROVE k \in T
  <2> SUFFICES ASSUME k \notin T PROVE FALSE
    OBVIOUS
  <2>1. k \in 0 .. B
    BY <1>3
  <2>2. B - k \in U
    BY <2>1
  <2>3. c <= B - k
    BY <1>2, <2>2
  <2> QED
    BY <1>3, <2>1, <2>3
<1> QED
  BY <1>3, <1>4

IsChain(f, P, Go, next, res) == f = [p \in P |-> IF p \in Go THEN f[next[p]] ELSE res[p]]

\* A function may be defined by following a step that increases a bounded measure.
LEMMA ChainExists ==
    ASSUME NEW B \in Nat, NEW P, NEW m \in [P -> 0 .. B], NEW Go \in SUBSET P, NEW next, NEW res,
           \A p \in Go : next[p] \in P /\ m[next[p]] > m[p]
    PROVE  \E f : IsChain(f, P, Go, next, res)
<1> DEFINE Q(k) == {p \in P : m[p] >= k}
           Has(k) == \E f : f = [p \in Q(k) |-> IF p \in Go THEN f[next[p]] ELSE res[p]]
           T == {k \in 0 .. B + 1 : Has(k)}
<1>1. \A k \in 0 .. B + 1 : (\A j \in k + 1 .. B + 1 : j \in T) => k \in T
  <2> SUFFICES ASSUME NEW k \in 0 .. B + 1, \A j \in k + 1 .. B + 1 : j \in T PROVE Has(k)
    OBVIOUS
  <2>1. CASE k = B + 1
    <3>1. Q(k) = {}
      BY <2>1
    <3>2. [p \in {} |-> 0] = [p \in Q(k) |-> IF p \in Go THEN [q \in {} |-> 0][next[p]] ELSE res[p]]
      BY <3>1
    <3> QED
      BY <3>2
  <2>2. CASE k # B + 1
    <3>1. k + 1 \in T
      BY <2>2
    <3>2. PICK f : f = [p \in Q(k + 1) |-> IF p \in Go THEN f[next[p]] ELSE res[p]]
      BY <3>1
    <3> DEFINE g == [p \in Q(k) |-> IF p \in Go THEN f[next[p]] ELSE res[p]]
    <3>3. ASSUME NEW p \in Q(k), p \in Go PROVE g[next[p]] = f[next[p]]
      <4>1. next[p] \in P /\ m[next[p]] > m[p] /\ m[p] \in 0 .. B /\ m[next[p]] \in 0 .. B
        BY <3>3
      <4>2. next[p] \in Q(k + 1) /\ next[p] \in Q(k)
        BY <4>1
      <4>3. f[next[p]] = IF next[p] \in Go THEN f[next[next[p]]] ELSE res[next[p]]
        BY <3>2, <4>2
      <4>4. g[next[p]] = IF next[p] \in Go THEN f[next[next[p]]] ELSE res[next[p]]
        BY <4>2
      <4> QED
        BY <4>3, <4>4
    <3>4. g = [p \in Q(k) |-> IF p \in Go THEN g[next[p]] ELSE res[p]]
      BY <3>3
    <3> QED
      BY <3>4
  <2> QED
    BY <2>1, <2>2
<1>2. 0 \in T
  <2> HIDE DEF T
  <2>1. B + 1 \in Nat
    OBVIOUS
  <2>2. \A k \in 0 .. B + 1 : k \in T
    BY <1>1, <2>1, Downward
  <2> QED
    BY <2>2
<1>3. PICK f : f = [p \in Q(0) |-> IF p \in Go THEN f[next[p]] ELSE res[p]]
  BY <1>2
<1>4. Q(0) = P
  OBVIOUS
<1>5. f = [p \in P |-> IF p \in Go THEN f[next[p]] ELSE res[p]]
  <2> HIDE DEF Q
  <2> QED BY <1>3, <1>4
<1> QED
  BY <1>5 DEF IsChain

-----------------------------------------------------------------------------
(* The search *)

Names_ == Seq(Seq(Int)) \ {<<>>}

Depth(bt, name, o, i) ==
    IF LinkTaken(bt, name, o, i) = "children" THEN i + 1 ELSE i
Follows(bt, name, o, i) ==
    IF LinkTaken(bt, name, o, i) = "none" THEN 0 ELSE bt[o].link[LinkTaken(bt, name, o, i)]
EndsAt(bt, name, o, i) ==
    [node |-> o, link |-> LinkTaken(bt, name, o, i), depth |-> Depth(bt, name, o, i)]

\* A step of the search takes one of the links and stays within the name.
LEMMA StepOK ==
    ASSUME NEW bt, LinksOK(bt), NEW name \in Names_, NEW o \in DOMAIN bt, NEW i \in 0 .. Len(name)
    PROVE  /\ LinkTaken(bt, name, o, i) \in Links \cup {"none"}
           /\ Depth(bt, name, o, i) \in 0 .. Len(name)
           /\ Follows(bt, name, o, i) # 0 => /\ Follows(bt, name, o, i) \in DOMAIN bt
                                             /\ Follows(bt, name, o, i) > o
<1>1. Len(name) \in Nat /\ Len(name) > 0
  BY DEF Names_
<1>2. LinkTaken(bt, name, o, i) \in Links \cup {"none"}
  BY <1>1 DEF LinkTaken, Side, Links
<1>3. LinkTaken(bt, name, o, i) = "children" => i < Len(name)
  <2> DEFINE t == bt[o].token  n == name[i]
  <2>1. Side(name[i], bt[o]) # "children"
    BY DEF Side
  <2> QED
    BY <1>1, <2>1 DEF LinkTaken
<1>4. Follows(bt, name, o, i) # 0 => Follows(bt, name, o, i) \in DOMAIN bt /\ Follows(bt, name, o, i) > o
  BY <1>2 DEF Follows, LinksOK, LinkOK
<1> QED
  BY <1>1, <1>2, <1>3, <1>4 DEF Depth

\* Search is the function that its recursive definition says it is.
LEMMA SearchUnfolds ==
    ASSUME NEW bt, LinksOK(bt), NEW name \in Names_, NEW o \in DOMAIN bt, NEW i \in 0 .. Len(name)
    PROVE  Search(bt, name)[<<o, i>>] =
             IF Follows(bt, name, o, i) = 0 THEN EndsAt(bt, name, o, i)
             ELSE Search(bt, name)[<<Follows(bt, name, o, i), Depth(bt, name, o, i)>>]
<1> DEFINE P == (DOMAIN bt) \X (0 .. Len(name))
           m == [p \in P |-> p[1]]
           Go == {p \in P : Follows(bt, name, p[1], p[2]) # 0}
           next == [p \in P |-> <<Follows(bt, name, p[1], p[2]), Depth(bt, name, p[1], p[2])>>]
           res == [p \in P |-> EndsAt(bt, name, p[1], p[2])]
<1>1. AreaSize \in Nat /\ m \in [P -> 0 .. AreaSize] /\ Go \in SUBSET P
  BY AreaAssumption DEF LinksOK
<1>2. \A p \in Go : next[p] \in P /\ m[next[p]] > m[p]
  <2> SUFFICES ASSUME NEW p \in Go PROVE next[p] \in P /\ m[next[p]] > m[p]
    OBVIOUS
  <2>1. p \in P /\ p[1] \in DOMAIN bt /\ p[2] \in 0 .. Len(name) /\ Follows(bt, name, p[1], p[2]) # 0
    OBVIOUS
  <2>2. /\ Depth(bt, name, p[1], p[2]) \in 0 .. Len(name)
        /\ Follows(bt, name, p[1], p[2]) \in DOMAIN bt
        /\ Follows(bt, name, p[1], p[2]) > p[1]
    BY <2>1, StepOK
  <2> QED
    BY <2>1, <2>2
<1>3. \E f : IsChain(f, P, Go, next, res)
  <2> HIDE DEF P, m, Go, next, res
  <2> QED
    BY <1>1, <1>2, ChainExists
<1> DEFINE Is(f) == f = [p \in P |->
             IF Follows(bt, name, p[1], p[2]) = 0 THEN EndsAt(bt, name, p[1], p[2])
             ELSE f[<<Follows(bt, name, p[1], p[2]), Depth(bt, name, p[1], p[2])>>]]
<1>4. \E f : Is(f)
  <2>1. PICK f : f = [p \in P |-> IF p \in Go THEN f[next[p]] ELSE res[p]]
    BY <1>3 DEF IsChain
  <2>2. [p \in P |-> IF p \in Go THEN f[next[p]] ELSE res[p]] =
        [p \in P |->
             IF Follows(bt, name, p[1], p[2]) = 0 THEN EndsAt(bt, name, p[1], p[2])
             ELSE f[<<Follows(bt, name, p[1], p[2]), Depth(bt, name, p[1], p[2])>>]]
    OBVIOUS
  <2> QED
    BY <2>1, <2>2
<1>5. Search(bt, name) = CHOOSE f : Is(f)
  BY DEF Search, Follows, EndsAt, Depth
<1>6. Is(Search(bt, name))
  BY <1>4, <1>5
<1>7. <<o, i>> \in P
  OBVIOUS
<1> QED
  BY <1>6, <1>7

\* A search that has no link to follow is at its end.
LEMMA SearchStops ==
    ASSUME NEW bt, LinksOK(bt), NEW name \in Names_, NEW o \in DOMAIN bt, NEW i \in 0 .. Len(name),
           Follows(bt, name, o, i) = 0
    PROVE  Search(bt, name)[<<o, i>>] =
             [node |-> o, link |-> LinkTaken(bt, name, o, i), depth |-> Depth(bt, name, o, i)]
<1>1. Search(bt, name)[<<o, i>>] = EndsAt(bt, name, o, i)
  BY SearchUnfolds
<1> QED
  BY <1>1 DEF EndsAt

\* The search has come to a node for the i-th token by way of the tokens before it.
Fits(bt, name, o, i) ==
    /\ o \in DOMAIN bt /\ i \in 0 .. Len(name)
    /\ Len(bt[o].path) = i
    /\ \A j \in 1 .. i - 1 : bt[o].path[j] = name[j]

\* What the end of a search says: the node of the name, or the node and the link where
\* its next token is missing.
Ends(bt, name, r) ==
    /\ r = [node |-> r.node, link |-> r.link, depth |-> r.depth]
    /\ r.node \in DOMAIN bt /\ r.depth \in 1 .. Len(name)
    /\ Linked(bt, r.node)
    /\ \/ r.link = "none" /\ r.depth = Len(name) /\ bt[r.node].path = name /\ r.node # 0
       \/ /\ r.link \in Links /\ bt[r.node].link[r.link] = 0
          /\ Len(bt[r.node].path) = IF r.link = "children" THEN r.depth - 1 ELSE r.depth
          /\ r.link # "children" => r.node # 0
          /\ \A j \in 1 .. r.depth - 1 : bt[r.node].path[j] = name[j]

\* A step of the search leads to a node that fits.
LEMMA StepFits ==
    ASSUME NEW bt, LinksOK(bt), NEW name \in Names_, NEW o, NEW i, Fits(bt, name, o, i),
           Follows(bt, name, o, i) # 0
    PROVE  Fits(bt, name, Follows(bt, name, o, i), Depth(bt, name, o, i))
<1> DEFINE l == LinkTaken(bt, name, o, i)
           to == bt[o].link[l]
<1>1. o \in DOMAIN bt /\ i \in 0 .. Len(name) /\ Len(name) \in Nat /\ Len(name) > 0
  BY DEF Fits, Names_
<1>2. l \in Links \cup {"none"} /\ Depth(bt, name, o, i) \in 0 .. Len(name)
  BY <1>1, StepOK
<1>3. l \in Links /\ Follows(bt, name, o, i) = to /\ to # 0
  BY <1>2 DEF Follows
<1>4. LinkOK(bt, o, l) /\ bt[o].path \in Seq(Seq(Int))
  BY <1>1, <1>3 DEF LinksOK, Node
<1>5. to \in DOMAIN bt
  BY <1>4 DEF LinkOK
<1>6. CASE l = "children"
  <2>1. Depth(bt, name, o, i) = i + 1
    BY <1>6 DEF Depth
  <2>2. Len(bt[to].path) = i + 1 /\ \A j \in 1 .. i : bt[to].path[j] = bt[o].path[j]
    BY <1>4, <1>6 DEF LinkOK, Fits
  <2>3. i # 0 => bt[o].path[i] = name[i]
    <3> SUFFICES ASSUME i # 0 PROVE bt[o].path[i] = name[i]
      OBVIOUS
    <3>1. o # 0
      BY <1>1 DEF Fits, LinksOK
    <3>2. bt[o].token = bt[o].path[i]
      BY <3>1, <1>1 DEF Fits, LinksOK
    <3>3. Side(name[i], bt[o]) # "children"
      BY DEF Side
    <3> QED
      BY <1>1, <1>6, <3>2, <3>3 DEF LinkTaken
  <2>4. \A j \in 1 .. i : bt[o].path[j] = name[j]
    BY <1>1, <2>3 DEF Fits
  <2> QED
    BY <1>1, <1>2, <1>3, <1>5, <2>1, <2>2, <2>4 DEF Fits
<1>7. CASE l # "children"
  <2>1. Depth(bt, name, o, i) = i
    BY <1>7 DEF Depth
  <2>2. Len(bt[to].path) = i - 1 + 1 /\ \A j \in 1 .. i - 1 : bt[to].path[j] = bt[o].path[j]
    BY <1>4, <1>7 DEF LinkOK, Fits
  <2> QED
    BY <1>1, <1>2, <1>3, <1>5, <2>1, <2>2 DEF Fits
<1> QED
  BY <1>6, <1>7

\* Wherever a search is continued from, it ends as Ends says.
LEMMA SearchEnds ==
    ASSUME NEW bt, LinksOK(bt), NEW name \in Names_, NEW o, NEW i, Fits(bt, name, o, i), Linked(bt, o)
    PROVE  Ends(bt, name, Search(bt, name)[<<o, i>>])
<1> DEFINE T == {q \in 0 .. AreaSize : \A k \in 0 .. Len(name) :
                   Fits(bt, name, q, k) /\ Linked(bt, q) => Ends(bt, name, Search(bt, name)[<<q, k>>])}
<1>1. \A n \in 0 .. AreaSize : (\A k \in n + 1 .. AreaSize : k \in T) => n \in T
  <2> SUFFICES ASSUME NEW n \in 0 .. AreaSize, \A k \in n + 1 .. AreaSize : k \in T,
                      NEW k \in 0 .. Len(name), Fits(bt, name, n, k), Linked(bt, n)
               PROVE  Ends(bt, name, Search(bt, name)[<<n, k>>])
    OBVIOUS
  <2> DEFINE to == Follows(bt, name, n, k)
             d == Depth(bt, name, n, k)
             l == LinkTaken(bt, name, n, k)
  <2>1. n \in DOMAIN bt /\ Len(name) \in Nat /\ Len(name) > 0
    BY DEF Fits, Names_
  <2>2. /\ l \in Links \cup {"none"} /\ d \in 0 .. Len(name)
        /\ to # 0 => to \in DOMAIN bt /\ to > n
    BY <2>1, StepOK
  <2>3. CASE to # 0
    <3>1. Fits(bt, name, to, d)
      BY <2>3, StepFits
    <3>2. to \in n + 1 .. AreaSize
      BY <2>2, <2>3, AreaAssumption DEF LinksOK
    <3>3. Linked(bt, to)
      BY <2>1, <2>2, <2>3 DEF Linked, Follows
    <3>4. Ends(bt, name, Search(bt, name)[<<to, d>>])
      BY <2>2, <3>1, <3>2, <3>3
    <3> QED
      BY <2>1, <2>3, <3>4, SearchUnfolds
  <2>4. CASE to = 0
    <3> DEFINE r == [node |-> n, link |-> l, depth |-> d]
    <3>1. Search(bt, name)[<<n, k>>] = r
      BY <2>1, <2>4, SearchStops
    <3>2. Len(bt[n].path) = k /\ bt[n].path \in Seq(Seq(Int)) /\ \A j \in 1 .. k - 1 : bt[n].path[j] = name[j]
      BY <2>1 DEF Fits, LinksOK, Node
    <3>3. /\ n # 0 => k > 0 /\ bt[n].token = bt[n].path[k]
          /\ n = 0 => k = 0
      BY <2>1, <3>2 DEF LinksOK
    <3>4. Side(name[k], bt[n]) # "children" /\ Side(name[k], bt[n]) # "none"
      BY DEF Side
    <3>5. CASE l = "none"
      <4>1. k > 0 /\ bt[n].token = name[k] /\ k = Len(name)
        BY <2>1, <3>4, <3>5 DEF LinkTaken
      <4>2. \A j \in 1 .. k : bt[n].path[j] = name[j]
        BY <3>2, <3>3, <4>1
      <4>3. bt[n].path = name
        BY <3>2, <4>1, <4>2, SeqEqual DEF Names_
      <4> QED
        BY <2>1, <3>1, <3>3, <3>5, <4>1, <4>3 DEF Ends, Depth
    <3>6. CASE l # "none"
      <4>1. l \in Links /\ bt[n].link[l] = 0
        BY <2>2, <2>4, <3>6 DEF Follows
      <4>2. l = "children" /\ k > 0 => bt[n].path[k] = name[k]
        BY <3>3, <3>4 DEF LinkTaken
      <4>3. l # "children" => k > 0
        BY DEF LinkTaken
      <4>4. d = IF l = "children" THEN k + 1 ELSE k
        BY DEF Depth
      <4>5. \A j \in 1 .. d - 1 : bt[n].path[j] = name[j]
        BY <3>2, <4>2, <4>4
      <4> QED
        BY <2>1, <2>2, <3>1, <3>2, <3>3, <4>1, <4>3, <4>4, <4>5 DEF Ends
    <3> QED
      BY <3>5, <3>6
  <2> QED
    BY <2>3, <2>4
<1>2. \A n \in 0 .. AreaSize : n \in T
  <2> HIDE DEF T
  <2> QED
    BY <1>1, AreaAssumption, Downward
<1> QED
  BY <1>2 DEF Fits, LinksOK

\* The search of a name from the root.
LEMMA FindEnds ==
    ASSUME NEW bt, LinksOK(bt), NEW name \in Names_
    PROVE  Ends(bt, name, find_prop_bt(bt, name))
<1>1. Fits(bt, name, 0, 0) /\ Linked(bt, 0)
  BY DEF Fits, Linked, LinksOK, Names_
<1> QED
  BY <1>1, SearchEnds DEF find_prop_bt

\* One link that was missing may be set, and nodes that no link leads to may be there:
\* a search ends where it ended, or goes on behind the new link.
LEMMA SearchGrows ==
    ASSUME NEW bt, LinksOK(bt), NEW new, LinksOK(new), NEW name \in Names_,
           NEW at \in DOMAIN bt, NEW l \in Links, bt[at].link[l] = 0,
           DOMAIN bt \subseteq DOMAIN new,
           \A o \in DOMAIN bt : new[o].token = bt[o].token,
           \A o \in DOMAIN bt, k \in Links : <<o, k>> # <<at, l>> => new[o].link[k] = bt[o].link[k],
           NEW o \in DOMAIN bt, NEW i \in 0 .. Len(name)
    PROVE  LET r == Search(bt, name)[<<o, i>>]
           IN  Search(new, name)[<<o, i>>] =
                 IF r.node = at /\ r.link = l /\ new[at].link[l] # 0
                 THEN Search(new, name)[<<new[at].link[l], r.depth>>] ELSE r
<1> DEFINE R(n, k) == Search(bt, name)[<<n, k>>]
           G(n, k) == IF R(n, k).node = at /\ R(n, k).link = l /\ new[at].link[l] # 0
                      THEN Search(new, name)[<<new[at].link[l], R(n, k).depth>>] ELSE R(n, k)
           T == {n \in 0 .. AreaSize : n \in DOMAIN bt =>
                   \A k \in 0 .. Len(name) : Search(new, name)[<<n, k>>] = G(n, k)}
<1>1. \A n \in 0 .. AreaSize : (\A k \in n + 1 .. AreaSize : k \in T) => n \in T
  <2> SUFFICES ASSUME NEW n \in 0 .. AreaSize, \A k \in n + 1 .. AreaSize : k \in T,
                      n \in DOMAIN bt, NEW k \in 0 .. Len(name)
               PROVE  Search(new, name)[<<n, k>>] = G(n, k)
    OBVIOUS
  <2> DEFINE to == Follows(bt, name, n, k)
             d == Depth(bt, name, n, k)
             t == LinkTaken(bt, name, n, k)
  <2>1. n \in DOMAIN new /\ Len(name) \in Nat
    BY DEF Names_
  <2>2. LinkTaken(new, name, n, k) = t
    BY DEF LinkTaken, Side
  <2>3. Depth(new, name, n, k) = d
    BY <2>2 DEF Depth
  <2>4. /\ t \in Links \cup {"none"} /\ d \in 0 .. Len(name)
        /\ to # 0 => to \in DOMAIN bt /\ to > n
    BY StepOK
  <2>5. CASE to # 0
    <3>1. t \in Links /\ to = bt[n].link[t]
      BY <2>4, <2>5 DEF Follows
    <3>2. Follows(new, name, n, k) = to
      BY <2>2, <2>5, <3>1 DEF Follows, Links
    <3>3. to \in n + 1 .. AreaSize
      BY <2>4, <2>5, AreaAssumption DEF LinksOK
    <3>4. Search(new, name)[<<to, d>>] = G(to, d)
      BY <2>4, <2>5, <3>3
    <3>5. R(n, k) = R(to, d)
      BY <2>5, SearchUnfolds
    <3>6. Search(new, name)[<<n, k>>] = Search(new, name)[<<to, d>>]
      BY <2>1, <2>3, <2>5, <3>2, SearchUnfolds
    <3> QED
      BY <3>4, <3>5, <3>6
  <2>6. CASE to = 0
    <3>1. R(n, k) = [node |-> n, link |-> t, depth |-> d]
      BY <2>6, SearchStops
    <3>2. CASE n = at /\ t = l /\ new[at].link[l] # 0
      <4>1. Follows(new, name, n, k) = new[at].link[l]
        BY <2>2, <3>2 DEF Follows, Links
      <4>2. Search(new, name)[<<n, k>>] = Search(new, name)[<<new[at].link[l], d>>]
        BY <2>1, <2>3, <3>2, <4>1, SearchUnfolds
      <4> QED
        BY <3>1, <3>2, <4>2
    <3>3. CASE ~ (n = at /\ t = l /\ new[at].link[l] # 0)
      <4>1. Follows(new, name, n, k) = 0
        BY <2>2, <2>4, <2>6, <3>3 DEF Follows
      <4>2. Search(new, name)[<<n, k>>] = [node |-> n, link |-> t, depth |-> d]
        BY <2>1, <2>2, <2>3, <4>1, SearchStops
      <4> QED
        BY <3>1, <3>3, <4>2
    <3> QED
      BY <3>2, <3>3
  <2> QED
    BY <2>5, <2>6
<1>2. \A n \in 0 .. AreaSize : n \in T
  <2> HIDE DEF T
  <2> QED
    BY <1>1, AreaAssumption, Downward
<1>3. o \in T
  BY <1>2 DEF LinksOK
<1> QED
  BY <1>3

\* A search does not go back to an earlier token.
LEMMA SearchDeeper ==
    ASSUME NEW bt, LinksOK(bt), NEW name \in Names_, NEW o \in DOMAIN bt, NEW i \in 0 .. Len(name)
    PROVE  Search(bt, name)[<<o, i>>].depth \in Nat /\ Search(bt, name)[<<o, i>>].depth >= i
<1> DEFINE D(n, k) == Search(bt, name)[<<n, k>>].depth
           T == {n \in 0 .. AreaSize : n \in DOMAIN bt =>
                   \A k \in 0 .. Len(name) : D(n, k) \in Nat /\ D(n, k) >= k}
<1>1. \A n \in 0 .. AreaSize : (\A k \in n + 1 .. AreaSize : k \in T) => n \in T
  <2> SUFFICES ASSUME NEW n \in 0 .. AreaSize, \A k \in n + 1 .. AreaSize : k \in T,
                      n \in DOMAIN bt, NEW k \in 0 .. Len(name)
               PROVE  D(n, k) \in Nat /\ D(n, k) >= k
    OBVIOUS
  <2> DEFINE to == Follows(bt, name, n, k)
             d == Depth(bt, name, n, k)
  <2>1. d \in 0 .. Len(name) /\ (to # 0 => to \in DOMAIN bt /\ to > n) /\ Len(name) \in Nat
    BY StepOK DEF Names_
  <2>2. d >= k
    BY <2>1 DEF Depth
  <2>3. CASE to # 0
    <3>1. to \in n + 1 .. AreaSize
      BY <2>1, <2>3, AreaAssumption DEF LinksOK
    <3>2. D(to, d) \in Nat /\ D(to, d) >= d
      BY <2>1, <2>3, <3>1
    <3>3. D(n, k) = D(to, d)
      BY <2>3, SearchUnfolds
    <3> QED
      BY <2>1, <2>2, <3>2, <3>3
  <2>4. CASE to = 0
    <3>1. Search(bt, name)[<<n, k>>] = [node |-> n, link |-> LinkTaken(bt, name, n, k), depth |-> d]
      BY <2>4, SearchStops
    <3>2. D(n, k) = d
      BY <3>1
    <3> QED
      BY <2>1, <2>2, <3>2
  <2> QED
    BY <2>3, <2>4
<1>2. \A n \in 0 .. AreaSize : n \in T
  <2> HIDE DEF T
  <2> QED
    BY <1>1, AreaAssumption, Downward
<1>3. o \in T
  BY <1>2 DEF LinksOK
<1> QED
  BY <1>3

\* The search for the first tokens of a name stops where the search for the name does,
\* if that is at the last of them.
LEMMA SearchPrefix ==
    ASSUME NEW bt, LinksOK(bt), NEW name \in Names_, NEW m \in Names_, Len(m) <= Len(name),
           \A j \in 1 .. Len(m) : m[j] = name[j],
           NEW o \in DOMAIN bt, NEW i \in 0 .. Len(m),
           Search(bt, name)[<<o, i>>].link # "none", Search(bt, name)[<<o, i>>].depth = Len(m)
    PROVE  Search(bt, m)[<<o, i>>] = Search(bt, name)[<<o, i>>]
<1> DEFINE R(n, k) == Search(bt, name)[<<n, k>>]
           T == {n \in 0 .. AreaSize : n \in DOMAIN bt =>
                   \A k \in 0 .. Len(m) : R(n, k).link # "none" /\ R(n, k).depth = Len(m)
                                          => Search(bt, m)[<<n, k>>] = R(n, k)}
<1>1. \A n \in 0 .. AreaSize : (\A k \in n + 1 .. AreaSize : k \in T) => n \in T
  <2> SUFFICES ASSUME NEW n \in 0 .. AreaSize, \A k \in n + 1 .. AreaSize : k \in T,
                      n \in DOMAIN bt, NEW k \in 0 .. Len(m),
                      R(n, k).link # "none", R(n, k).depth = Len(m)
               PROVE  Search(bt, m)[<<n, k>>] = R(n, k)
    OBVIOUS
  <2> DEFINE to == Follows(bt, name, n, k)
             d == Depth(bt, name, n, k)
             t == LinkTaken(bt, name, n, k)
  <2>1. Len(name) \in Nat /\ Len(m) \in Nat /\ k \in 0 .. Len(name) /\ Len(m) > 0
    BY DEF Names_
  <2>2. d \in 0 .. Len(name) /\ t \in Links \cup {"none"} /\ (to # 0 => to \in DOMAIN bt /\ to > n)
    BY <2>1, StepOK
  <2>3. d <= Len(m)
    <3>1. CASE to = 0
      <4>1. R(n, k) = [node |-> n, link |-> t, depth |-> d]
        BY <3>1, <2>1, SearchStops
      <4> QED
        BY <4>1, <2>1
    <3>2. CASE to # 0
      <4>1. R(n, k) = R(to, d)
        BY <3>2, <2>1, SearchUnfolds
      <4>2. R(to, d).depth >= d
        BY <3>2, <2>2, SearchDeeper
      <4> QED
        BY <4>1, <4>2
    <3> QED
      BY <3>1, <3>2
  <2>4. t # "none"
    <3> SUFFICES ASSUME t = "none" PROVE FALSE
      OBVIOUS
    <3>1. to = 0
      BY DEF Follows
    <3>2. R(n, k) = [node |-> n, link |-> t, depth |-> d]
      BY <3>1, <2>1, SearchStops
    <3> QED
      BY <3>2
  <2>5. LinkTaken(bt, m, n, k) = t
    <3>1. k > 0 => m[k] = name[k]
      BY <2>1
    <3>2. k > 0 /\ bt[n].token = name[k] => k < Len(m)
      <4> SUFFICES ASSUME k > 0, bt[n].token = name[k] PROVE k < Len(m)
        OBVIOUS
      <4>1. t = "children"
        BY <2>1, <2>4 DEF LinkTaken
      <4>2. d = k + 1
        BY <4>1 DEF Depth
      <4> QED
        BY <2>1, <2>3, <4>2
    <3>3. k = 0 => t = "children" /\ LinkTaken(bt, m, n, k) = "children"
      BY DEF LinkTaken
    <3>4. k > 0 /\ bt[n].token # name[k] => t = Side(name[k], bt[n]) /\ LinkTaken(bt, m, n, k) = Side(name[k], bt[n])
      BY <3>1, <2>1 DEF LinkTaken
    <3>5. k > 0 /\ bt[n].token = name[k] => t = "children" /\ LinkTaken(bt, m, n, k) = "children"
      BY <3>1, <3>2, <2>1 DEF LinkTaken
    <3> QED
      BY <3>3, <3>4, <3>5, <2>1
  <2>6. Depth(bt, m, n, k) = d /\ Follows(bt, m, n, k) = to
    BY <2>5 DEF Depth, Follows
  <2>7. CASE to # 0
    <3>1. to \in n + 1 .. AreaSize
      BY <2>2, <2>7, AreaAssumption DEF LinksOK
    <3>2. R(n, k) = R(to, d)
      BY <2>1, <2>7, SearchUnfolds
    <3>3. Search(bt, m)[<<to, d>>] = R(to, d)
      BY <2>1, <2>2, <2>3, <2>7, <3>1, <3>2
    <3>4. Search(bt, m)[<<n, k>>] = Search(bt, m)[<<to, d>>]
      BY <2>6, <2>7, SearchUnfolds
    <3> QED
      BY <3>2, <3>3, <3>4
  <2>8. CASE to = 0
    <3>1. R(n, k) = [node |-> n, link |-> t, depth |-> d]
      BY <2>1, <2>8, SearchStops
    <3>2. Search(bt, m)[<<n, k>>] = [node |-> n, link |-> t, depth |-> d]
      BY <2>5, <2>6, <2>8, SearchStops
    <3> QED
      BY <3>1, <3>2
  <2> QED
    BY <2>7, <2>8
<1>2. \A n \in 0 .. AreaSize : n \in T
  <2> HIDE DEF T
  <2> QED
    BY <1>1, AreaAssumption, Downward
<1>3. o \in T
  BY <1>2 DEF LinksOK
<1> QED
  BY <1>3

-----------------------------------------------------------------------------
(* The stores into the trie *)

\* The old nodes, with the tokens and the links they had.
SameLinks(bt, new) ==
    /\ DOMAIN bt \subseteq DOMAIN new
    /\ \A o \in DOMAIN bt : new[o].token = bt[o].token /\ new[o].link = bt[o].link

\* Where no link has changed, no search has.
LEMMA SameSearch ==
    ASSUME NEW bt, LinksOK(bt), NEW new, LinksOK(new), SameLinks(bt, new), NEW name \in Names_,
           NEW o \in DOMAIN bt, NEW i \in 0 .. Len(name)
    PROVE  Search(new, name)[<<o, i>>] = Search(bt, name)[<<o, i>>]
<1>1. 0 \in DOMAIN bt /\ "left" \in Links
  BY DEF LinksOK, Links
<1>2. bt[0].link["left"] = 0
  BY <1>1 DEF LinksOK, LinkOK
<1>3. \A q \in DOMAIN bt, k \in Links : <<q, k>> # <<0, "left">> => new[q].link[k] = bt[q].link[k]
  BY DEF SameLinks
<1>4. DOMAIN bt \subseteq DOMAIN new /\ \A q \in DOMAIN bt : new[q].token = bt[q].token
  BY DEF SameLinks
<1>5. new[0].link["left"] = 0
  BY <1>1, <1>2 DEF SameLinks
<1> DEFINE r == Search(bt, name)[<<o, i>>]
<1>6. Search(new, name)[<<o, i>>] =
        IF r.node = 0 /\ r.link = "left" /\ new[0].link["left"] # 0
        THEN Search(new, name)[<<new[0].link["left"], r.depth>>] ELSE r
  BY <1>1, <1>2, <1>3, <1>4, SearchGrows
<1> QED
  BY <1>5, <1>6

\* A name is found at one node only, and no other name is found there.
LEMMA FoundIsPath ==
    ASSUME NEW bt, LinksOK(bt), NEW name \in Names_, find_prop_bt(bt, name).link = "none"
    PROVE  LET at == find_prop_bt(bt, name)
           IN  /\ at = [node |-> at.node, link |-> "none", depth |-> Len(name)]
               /\ at.node \in DOMAIN bt \ {0} /\ Linked(bt, at.node)
               /\ bt[at.node].path = name
BY FindEnds DEF Ends, Links

\* A search that is under way goes on as if it had begun after the store.
KeepsSearches(bt, new) ==
    /\ DOMAIN bt \subseteq DOMAIN new
    /\ \A o \in DOMAIN bt : new[o].token = bt[o].token /\ new[o].path = bt[o].path
    /\ \A m \in Names_ :
         /\ find_prop_bt(bt, m).link = "none" => find_prop_bt(new, m) = find_prop_bt(bt, m)
         /\ \A o \in DOMAIN bt, i \in 0 .. Len(m) :
              Search(bt, m)[<<o, i>>] = find_prop_bt(bt, m)
                => Search(new, m)[<<o, i>>] = find_prop_bt(new, m)

\* Where no link has changed, no search is disturbed.
LEMMA SameLinksKeep ==
    ASSUME NEW bt, LinksOK(bt), NEW new, LinksOK(new), SameLinks(bt, new),
           \A o \in DOMAIN bt : new[o].path = bt[o].path
    PROVE  /\ KeepsSearches(bt, new)
           /\ \A m \in Names_ : find_prop_bt(new, m) = find_prop_bt(bt, m)
<1>1. ASSUME NEW m \in Names_ PROVE find_prop_bt(new, m) = find_prop_bt(bt, m)
  <2>1. 0 \in DOMAIN bt /\ 0 \in 0 .. Len(m)
    BY DEF LinksOK, Names_
  <2> QED
    BY <2>1, SameSearch DEF find_prop_bt
<1>2. ASSUME NEW m \in Names_, NEW o \in DOMAIN bt, NEW i \in 0 .. Len(m)
      PROVE  Search(new, m)[<<o, i>>] = Search(bt, m)[<<o, i>>]
  BY SameSearch
<1> QED
  BY <1>1, <1>2 DEF KeepsSearches, SameLinks

StoresProp(bt, node, p, new) ==
    node \in DOMAIN bt /\ Linked(bt, node) /\ p \in Nat /\ new = [bt EXCEPT ![node].prop = p]
MakesNode(bt, off, path, new) ==
    /\ off \in 1 .. AreaSize /\ off \notin DOMAIN bt /\ path \in Names_
    /\ new = Put(bt, off, prop_bt(path))

PropStored(bt, node, p, new) ==
    /\ DOMAIN new = DOMAIN bt
    /\ \A o \in DOMAIN bt : /\ new[o].path = bt[o].path
                            /\ new[o].prop = IF o = node THEN p ELSE bt[o].prop
    /\ \A name \in Names_ : find_prop_bt(new, name) = find_prop_bt(bt, name)

\* A store into prop changes no search, and keeps the trie.
LEMMA StoreProp ==
    ASSUME NEW bt, TrieOK(bt), NEW node, NEW p, NEW new, StoresProp(bt, node, p, new)
    PROVE  TrieOK(new) /\ KeepsSearches(bt, new) /\ PropStored(bt, node, p, new)
<1>a. node \in DOMAIN bt /\ Linked(bt, node) /\ p \in Nat /\ new = [bt EXCEPT ![node].prop = p]
  BY DEF StoresProp
<1>1. LinksOK(bt) /\ bt = [o \in DOMAIN bt |-> bt[o]] /\ \A o \in DOMAIN bt : bt[o] \in Node
  BY DEF TrieOK, LinksOK
<1>2. DOMAIN new = DOMAIN bt /\ new = [o \in DOMAIN new |-> new[o]]
  BY <1>1, <1>a
<1>3. \A o \in DOMAIN bt : new[o] = IF o = node THEN [bt[o] EXCEPT !.prop = p] ELSE bt[o]
  BY <1>1, <1>a
<1>b. p \in Nat /\ Linked(bt, node)
  BY <1>a
<1>4. \A o \in DOMAIN bt :
        /\ new[o] \in Node /\ new[o].token = bt[o].token /\ new[o].path = bt[o].path
        /\ new[o].link = bt[o].link
        /\ new[o].prop = IF o = node THEN p ELSE bt[o].prop
  BY <1>1, <1>b, <1>3 DEF Node
<1>5. SameLinks(bt, new)
  BY <1>2, <1>4 DEF SameLinks
<1>c. \A o \in DOMAIN bt : new[o].path = bt[o].path /\ new[o].link = bt[o].link
  BY <1>4
<1>6. ASSUME NEW o \in DOMAIN bt, NEW l \in Links, LinkOK(bt, o, l) PROVE LinkOK(new, o, l)
  <2> DEFINE to == bt[o].link[l]
  <2>1. /\ new[o].link[l] = to /\ new[o].path = bt[o].path
        /\ to \in DOMAIN bt => new[to].path = bt[to].path
    BY <1>c, Zenon
  <2>2. to \in DOMAIN bt
    BY <1>6, Zenon DEF LinkOK
  <2> QED
    BY <1>2, <1>6, <2>1, <2>2, Zenon DEF LinkOK
<1>7. LinksOK(new)
  BY <1>1, <1>2, <1>4, <1>6 DEF LinksOK
<1>8. \A o \in DOMAIN bt : Linked(new, o) <=> Linked(bt, o)
  BY <1>2, <1>4 DEF Linked
<1>9. KeepsSearches(bt, new) /\ \A name \in Names_ : find_prop_bt(new, name) = find_prop_bt(bt, name)
  BY <1>1, <1>4, <1>5, <1>7, SameLinksKeep
<1>10. \A o, q \in DOMAIN new, l, k \in Links :
         new[o].link[l] = new[q].link[k] /\ new[o].link[l] # 0 => o = q /\ l = k
  BY <1>2, <1>4 DEF TrieOK
<1>11. ASSUME NEW o \in DOMAIN new
       PROVE  IF ~Linked(new, o) THEN new[o].prop = 0 /\ \A l \in Links : new[o].link[l] = 0
              ELSE o # 0 => find_prop_bt(new, new[o].path) =
                              [node |-> o, link |-> "none", depth |-> Len(new[o].path)]
  <2>1. o # 0 => bt[o].path \in Names_
    BY <1>1, <1>2 DEF LinksOK, Names_, Node
  <2>2. CASE ~Linked(new, o)
    <3>1. o \in DOMAIN bt /\ ~Linked(bt, o)
      BY <2>2, <1>2, <1>8
    <3>2. bt[o].prop = 0 /\ \A l \in Links : bt[o].link[l] = 0
      BY <3>1 DEF TrieOK
    <3>3. o # node
      BY <3>1, <1>b
    <3> QED
      BY <2>2, <3>1, <3>2, <3>3, <1>4
  <2>3. CASE Linked(new, o) /\ o # 0
    <3>1. find_prop_bt(bt, bt[o].path) = [node |-> o, link |-> "none", depth |-> Len(bt[o].path)]
      BY <2>3, <1>2, <1>8 DEF TrieOK
    <3> QED
      BY <2>1, <2>3, <3>1, <1>2, <1>4, <1>9
  <2> QED
    BY <2>2, <2>3
<1>12. TrieOK(new)
  BY <1>7, <1>10, <1>11 DEF TrieOK
<1> QED
  BY <1>2, <1>4, <1>9, <1>12 DEF PropStored

NodeMade(bt, off, path, new) ==
    /\ DOMAIN new = DOMAIN bt \cup {off} /\ \A o \in DOMAIN bt : new[o] = bt[o]
    /\ new[off] = prop_bt(path) /\ ~Linked(new, off)
    /\ \A name \in Names_ : find_prop_bt(new, name) = find_prop_bt(bt, name)

\* A node that is made changes no search before it is linked.
LEMMA MakeNode ==
    ASSUME NEW bt, TrieOK(bt), NEW off, NEW path, NEW new, MakesNode(bt, off, path, new)
    PROVE  TrieOK(new) /\ KeepsSearches(bt, new) /\ NodeMade(bt, off, path, new)
<1>a. off \in 1 .. AreaSize /\ off \notin DOMAIN bt /\ path \in Names_
  BY DEF MakesNode
<1>b. new = Put(bt, off, prop_bt(path))
  BY DEF MakesNode
<1>1. LinksOK(bt) /\ \A o \in DOMAIN bt : bt[o] \in Node
  BY DEF TrieOK, LinksOK
<1>2. DOMAIN new = DOMAIN bt \cup {off} /\ new = [o \in DOMAIN new |-> new[o]]
  BY <1>a, <1>b DEF Put
<1>3. new[off] = prop_bt(path) /\ \A o \in DOMAIN bt : new[o] = bt[o]
  BY <1>a, <1>b DEF Put
<1>4. Len(path) \in Nat \ {0} /\ path \in Seq(Seq(Int)) /\ path # <<>>
  BY <1>a DEF Names_
<1>5. /\ prop_bt(path) \in Node /\ prop_bt(path).path = path /\ prop_bt(path).token = path[Len(path)]
      /\ prop_bt(path).prop = 0 /\ \A l \in Links : prop_bt(path).link[l] = 0
  BY <1>4 DEF prop_bt, Node, Links
<1>6. SameLinks(bt, new)
  BY <1>2, <1>3 DEF SameLinks
<1>7. \A o \in DOMAIN bt, l \in Links : LinkOK(bt, o, l) => LinkOK(new, o, l)
  BY <1>2, <1>3 DEF LinkOK
<1>8. LinksOK(new)
  <2>1. /\ 0 \in DOMAIN new /\ DOMAIN new \subseteq 0 .. AreaSize
        /\ new[0].path = <<>>
    BY <1>a, <1>1, <1>2, <1>3 DEF LinksOK
  <2>2. ASSUME NEW o \in DOMAIN new
        PROVE  /\ new[o] \in Node
               /\ o # 0 => Len(new[o].path) > 0 /\ new[o].token = new[o].path[Len(new[o].path)]
               /\ \A l \in Links : new[o].link[l] # 0 => LinkOK(new, o, l)
    <3>1. CASE o = off
      BY <3>1, <1>3, <1>4, <1>5
    <3>2. CASE o \in DOMAIN bt
      BY <3>2, <1>1, <1>3, <1>7 DEF LinksOK
    <3> QED
      BY <3>1, <3>2, <1>2
  <2> QED
    BY <2>1, <2>2, <1>2 DEF LinksOK
<1>9. \A o \in DOMAIN bt, l \in Links : bt[o].link[l] # off
  BY <1>a, <1>1 DEF LinksOK, LinkOK
<1>10. \A o \in DOMAIN new, l \in Links : new[o].link[l] # off
  BY <1>2, <1>3, <1>5, <1>9, SMTT(30)
<1>11. ~Linked(new, off)
  BY <1>a, <1>10 DEF Linked
<1>12. \A o \in DOMAIN bt : Linked(new, o) <=> Linked(bt, o)
  BY <1>2, <1>3, <1>5 DEF Linked
<1>13. KeepsSearches(bt, new) /\ \A name \in Names_ : find_prop_bt(new, name) = find_prop_bt(bt, name)
  BY <1>1, <1>3, <1>6, <1>8, SameLinksKeep
<1>14. \A o, q \in DOMAIN new, l, k \in Links :
         new[o].link[l] = new[q].link[k] /\ new[o].link[l] # 0 => o = q /\ l = k
  BY <1>2, <1>3, <1>5 DEF TrieOK
<1>15. ASSUME NEW o \in DOMAIN new
       PROVE  IF ~Linked(new, o) THEN new[o].prop = 0 /\ \A l \in Links : new[o].link[l] = 0
              ELSE o # 0 => find_prop_bt(new, new[o].path) =
                              [node |-> o, link |-> "none", depth |-> Len(new[o].path)]
  <2>1. CASE o = off
    BY <2>1, <1>3, <1>5, <1>11
  <2>2. CASE o \in DOMAIN bt
    <3>1. o # 0 => bt[o].path \in Names_
      BY <2>2, <1>1 DEF LinksOK, Names_, Node
    <3> QED
      BY <2>2, <3>1, <1>3, <1>12, <1>13 DEF TrieOK
  <2> QED
    BY <2>1, <2>2, <1>2
<1>16. TrieOK(new)
  BY <1>8, <1>14, <1>15 DEF TrieOK
<1> QED
  BY <1>2, <1>3, <1>11, <1>13, <1>16 DEF NodeMade

\* What the store of a link meets: a node that was made for the next token of a name, at
\* the place where the search for the name ends.
Publishes(bt, name, off, new) ==
    LET at == find_prop_bt(bt, name)
    IN  /\ name \in Names_ /\ at.link \in Links
        /\ off \in DOMAIN bt \ {0} /\ off > at.node /\ ~Linked(bt, off)
        /\ bt[off] = prop_bt(SubSeq(name, 1, at.depth))
        /\ new = [bt EXCEPT ![at.node].link[at.link] = off]

SameProps(bt, new) ==
    /\ DOMAIN new = DOMAIN bt
    /\ \A o \in DOMAIN bt : new[o].path = bt[o].path /\ new[o].prop = bt[o].prop
    /\ \A m \in Names_ : PropIn(new, m) = PropIn(bt, m)

\* The shape of the trie after the store of a link.
LEMMA StoreLinkShape ==
    ASSUME NEW bt, TrieOK(bt), NEW name, NEW off, NEW new, Publishes(bt, name, off, new)
    PROVE  LET at == find_prop_bt(bt, name)
           IN  /\ LinksOK(new) /\ DOMAIN new = DOMAIN bt
               /\ Ends(bt, name, at) /\ bt[at.node].link[at.link] = 0 /\ at.node \in DOMAIN bt
               /\ bt[off].path \in Names_ /\ Len(bt[off].path) = at.depth
               /\ \A j \in 1 .. at.depth : bt[off].path[j] = name[j]
               /\ \A o \in DOMAIN bt : /\ new[o].token = bt[o].token /\ new[o].path = bt[o].path
                                       /\ new[o].prop = bt[o].prop
               /\ new[at.node].link[at.link] = off
               /\ \A o \in DOMAIN bt, l \in Links :
                    <<o, l>> # <<at.node, at.link>> => new[o].link[l] = bt[o].link[l]
               /\ new[off].prop = 0 /\ \A l \in Links : new[off].link[l] = 0
               /\ new[off].token = name[at.depth]
<1> DEFINE at == find_prop_bt(bt, name)
           path == SubSeq(name, 1, at.depth)
<1>1. LinksOK(bt) /\ bt = [o \in DOMAIN bt |-> bt[o]] /\ \A o \in DOMAIN bt : bt[o] \in Node
  BY DEF TrieOK, LinksOK
<1>2. /\ name \in Names_ /\ at.link \in Links
      /\ off \in DOMAIN bt \ {0} /\ off > at.node /\ ~Linked(bt, off)
      /\ bt[off] = prop_bt(path)
      /\ new = [bt EXCEPT ![at.node].link[at.link] = off]
  BY DEF Publishes
<1>3. Ends(bt, name, at)
  BY <1>1, <1>2, FindEnds
<1>4. /\ at.node \in DOMAIN bt /\ at.depth \in 1 .. Len(name) /\ bt[at.node].link[at.link] = 0
      /\ Len(bt[at.node].path) = IF at.link = "children" THEN at.depth - 1 ELSE at.depth
      /\ at.link # "children" => at.node # 0
      /\ \A j \in 1 .. at.depth - 1 : bt[at.node].path[j] = name[j]
  BY <1>2, <1>3 DEF Ends, Links
<1>5. /\ path \in Seq(Seq(Int)) /\ Len(path) = at.depth
      /\ \A j \in 1 .. at.depth : path[j] = name[j]
  <2>1. name \in Seq(Seq(Int)) /\ Len(name) \in Nat
    BY <1>2 DEF Names_
  <2>2. \A j \in 1 .. at.depth : name[j] \in Seq(Int)
    BY <2>1, <1>4
  <2>3. /\ path \in Seq(Seq(Int)) /\ Len(path) = IF 1 <= at.depth THEN at.depth - 1 + 1 ELSE 0
        /\ \A j \in 1 .. at.depth - 1 + 1 : path[j] = name[1 + j - 1]
    BY <2>1, <2>2, <1>4, SubSeqProperties
  <2> QED
    BY <2>1, <2>3, <1>4
<1> HIDE DEF at, path
<1>a. at.link \in Links /\ off \in DOMAIN bt
  BY <1>2
<1>b. off \in Nat
  BY <1>1, <1>a DEF LinksOK
<1>6. path # <<>> /\ path \in Names_
  BY <1>4, <1>5 DEF Names_
<1>7. /\ bt[off].path = path /\ bt[off].token = path[Len(path)]
      /\ bt[off].prop = 0 /\ \A l \in Links : bt[off].link[l] = 0
  BY <1>2, <1>6 DEF prop_bt
<1>8. DOMAIN new = DOMAIN bt /\ new = [o \in DOMAIN new |-> new[o]]
  BY <1>1, <1>2
<1>9. \A o \in DOMAIN bt : new[o] = IF o = at.node THEN [bt[o] EXCEPT !.link[at.link] = off] ELSE bt[o]
  BY <1>1, <1>2, <1>4
<1>10. ASSUME NEW o \in DOMAIN bt
       PROVE  /\ new[o] \in Node /\ new[o].token = bt[o].token /\ new[o].path = bt[o].path
              /\ new[o].prop = bt[o].prop
              /\ \A l \in Links : new[o].link[l] = IF o = at.node /\ l = at.link THEN off ELSE bt[o].link[l]
  <2>1. CASE o # at.node
    BY <2>1, <1>1, <1>9
  <2>2. CASE o = at.node
    <3>1. new[o] = [bt[o] EXCEPT !.link = [bt[o].link EXCEPT ![at.link] = off]]
      BY <2>2, <1>9
    <3>2. bt[o] \in Node /\ bt[o].link \in [Links -> Nat] /\ off \in Nat
      BY <1>1, <1>b DEF Node
    <3>3. [bt[o].link EXCEPT ![at.link] = off] \in [Links -> Nat]
      BY <3>2
    <3>4. new[o] \in Node /\ new[o].token = bt[o].token /\ new[o].path = bt[o].path
          /\ new[o].prop = bt[o].prop /\ new[o].link = [bt[o].link EXCEPT ![at.link] = off]
      BY <3>1, <3>2, <3>3 DEF Node
    <3> QED
      BY <2>2, <3>2, <3>4, <1>2
  <2> QED
    BY <2>1, <2>2
<1>11. off # at.node
  BY <1>2, <1>4, <1>1 DEF LinksOK
<1>12. ASSUME NEW o \in DOMAIN bt, NEW l \in Links, new[o].link[l] # 0
       PROVE  LinkOK(new, o, l)
  <2>1. CASE o = at.node /\ l = at.link
    <3>1. new[o].link[l] = off /\ new[off].path = path /\ new[o].path = bt[o].path
      BY <2>1, <1>a, <1>7, <1>10
    <3> DEFINE common == IF l = "children" THEN Len(bt[o].path) ELSE Len(bt[o].path) - 1
    <3>2. common = at.depth - 1
      BY <2>1, <1>4
    <3>3. Len(path) = common + 1 /\ \A j \in 1 .. common : path[j] = bt[o].path[j]
      BY <2>1, <3>2, <1>4, <1>5
    <3>4. off \in DOMAIN new /\ off > o /\ (l # "children" => o # 0)
      BY <2>1, <1>2, <1>4, <1>8
    <3> QED
      BY <3>1, <3>3, <3>4 DEF LinkOK
  <2>2. CASE ~ (o = at.node /\ l = at.link)
    <3>1. new[o].link[l] = bt[o].link[l]
      BY <2>2, <1>10
    <3>2. LinkOK(bt, o, l)
      BY <3>1, <1>1, <1>12 DEF LinksOK
    <3> QED
      BY <3>1, <3>2, <1>8, <1>10, SMTT(30) DEF LinkOK
  <2> QED
    BY <2>1, <2>2
<1>13. LinksOK(new)
  <2>1. 0 \in DOMAIN new /\ DOMAIN new \subseteq 0 .. AreaSize /\ new[0].path = <<>>
    BY <1>1, <1>8, <1>10 DEF LinksOK
  <2>2. \A o \in DOMAIN new : o # 0 => Len(new[o].path) > 0 /\ new[o].token = new[o].path[Len(new[o].path)]
    BY <1>1, <1>8, <1>10 DEF LinksOK
  <2> QED
    BY <2>1, <2>2, <1>8, <1>10, <1>12 DEF LinksOK
<1>14. new[off].token = name[at.depth]
  BY <1>2, <1>4, <1>5, <1>7, <1>10
<1>15. /\ new[at.node].link[at.link] = off
       /\ \A o \in DOMAIN bt, l \in Links :
            <<o, l>> # <<at.node, at.link>> => new[o].link[l] = bt[o].link[l]
  BY <1>a, <1>4, <1>10
<1>16. new[off].prop = 0 /\ \A l \in Links : new[off].link[l] = 0
  BY <1>2, <1>7, <1>10, <1>11
<1> QED
  BY <1>3, <1>4, <1>5, <1>6, <1>7, <1>8, <1>10, <1>13, <1>14, <1>15, <1>16 DEF at

\* The store of a link keeps the trie, changes what is found of no name, and no search.
LEMMA StoreLink ==
    ASSUME NEW bt, TrieOK(bt), NEW name, NEW off, NEW new, Publishes(bt, name, off, new)
    PROVE  TrieOK(new) /\ KeepsSearches(bt, new) /\ SameProps(bt, new)
<1> DEFINE at == find_prop_bt(bt, name)
<1>1. /\ LinksOK(bt) /\ LinksOK(new) /\ DOMAIN new = DOMAIN bt
      /\ name \in Names_ /\ at.link \in Links /\ at.link # "none"
      /\ off \in DOMAIN bt \ {0} /\ ~Linked(bt, off)
  BY StoreLinkShape DEF TrieOK, Publishes, Links
<1>2. /\ Ends(bt, name, at) /\ bt[at.node].link[at.link] = 0 /\ at.node \in DOMAIN bt
      /\ bt[off].path \in Names_ /\ Len(bt[off].path) = at.depth
      /\ \A j \in 1 .. at.depth : bt[off].path[j] = name[j]
      /\ new[at.node].link[at.link] = off
      /\ new[off].prop = 0 /\ \A l \in Links : new[off].link[l] = 0
      /\ new[off].token = name[at.depth]
  BY StoreLinkShape
<1>3. \A o \in DOMAIN bt : /\ new[o].token = bt[o].token /\ new[o].path = bt[o].path
                           /\ new[o].prop = bt[o].prop
  BY StoreLinkShape
<1>4. \A o \in DOMAIN bt, l \in Links :
        <<o, l>> # <<at.node, at.link>> => new[o].link[l] = bt[o].link[l]
  BY StoreLinkShape
<1> HIDE DEF at
<1>5. ASSUME NEW m \in Names_, NEW o \in DOMAIN bt, NEW i \in 0 .. Len(m)
      PROVE  LET r == Search(bt, m)[<<o, i>>]
             IN  Search(new, m)[<<o, i>>] =
                   IF r.node = at.node /\ r.link = at.link THEN Search(new, m)[<<off, r.depth>>] ELSE r
  <2> DEFINE r == Search(bt, m)[<<o, i>>]
  <2>1. Search(new, m)[<<o, i>>] =
          IF r.node = at.node /\ r.link = at.link /\ new[at.node].link[at.link] # 0
          THEN Search(new, m)[<<new[at.node].link[at.link], r.depth>>] ELSE r
    <3>1. /\ DOMAIN bt \subseteq DOMAIN new /\ at.node \in DOMAIN bt /\ at.link \in Links
          /\ bt[at.node].link[at.link] = 0 /\ LinksOK(bt) /\ LinksOK(new)
          /\ \A q \in DOMAIN bt : new[q].token = bt[q].token
      BY <1>1, <1>2, <1>3
    <3> QED
      BY <3>1, <1>4, SearchGrows, SMTT(30)
  <2>2. new[at.node].link[at.link] = off /\ off # 0
    BY <1>1, <1>2
  <2> QED
    BY <2>1, <2>2
<1>6. \A m \in Names_ : 0 \in DOMAIN bt /\ 0 \in 0 .. Len(m)
  BY <1>1 DEF LinksOK, Names_
<1>7. ASSUME NEW m \in Names_
      PROVE  LET r == find_prop_bt(bt, m)
             IN  find_prop_bt(new, m) =
                   IF r.node = at.node /\ r.link = at.link THEN Search(new, m)[<<off, r.depth>>] ELSE r
  BY <1>5, <1>6 DEF find_prop_bt
<1>8. KeepsSearches(bt, new)
  <2>1. ASSUME NEW m \in Names_, find_prop_bt(bt, m).link = "none"
        PROVE  find_prop_bt(new, m) = find_prop_bt(bt, m)
    BY <2>1, <1>1, <1>7
  <2>2. ASSUME NEW m \in Names_, NEW o \in DOMAIN bt, NEW i \in 0 .. Len(m),
               Search(bt, m)[<<o, i>>] = find_prop_bt(bt, m)
        PROVE  Search(new, m)[<<o, i>>] = find_prop_bt(new, m)
    BY <2>2, <1>5, <1>7
  <2> QED
    BY <2>1, <2>2, <1>1, <1>3 DEF KeepsSearches
<1>9. ASSUME NEW m \in Names_ PROVE PropIn(new, m) = PropIn(bt, m)
  <2> DEFINE r == find_prop_bt(bt, m)
  <2>1. Ends(bt, m, r)
    BY <1>1, FindEnds
  <2>2. CASE ~ (r.node = at.node /\ r.link = at.link)
    <3>1. find_prop_bt(new, m) = r
      BY <2>2, <1>7
    <3> QED
      BY <2>1, <3>1, <1>3 DEF PropIn, Ends
  <2>3. CASE r.node = at.node /\ r.link = at.link
    <3>1. find_prop_bt(new, m) = Search(new, m)[<<off, r.depth>>]
      BY <2>3, <1>7
    <3>2. r.depth \in 0 .. Len(m) /\ off \in DOMAIN new
      BY <2>1, <1>1 DEF Ends, Names_
    <3>3. LinkTaken(new, m, off, r.depth) \in Links \cup {"none"}
      BY <3>2, <1>1, StepOK
    <3>4. Follows(new, m, off, r.depth) = 0
      BY <3>3, <1>2 DEF Follows
    <3>5. find_prop_bt(new, m) = [node |-> off, link |-> LinkTaken(new, m, off, r.depth),
                                  depth |-> Depth(new, m, off, r.depth)]
      BY <3>1, <3>2, <3>4, <1>1, SearchStops
    <3>6. PropIn(new, m) = 0
      BY <3>5, <1>2 DEF PropIn
    <3>7. PropIn(bt, m) = 0
      BY <2>3, <1>1 DEF PropIn
    <3> QED
      BY <3>6, <3>7
  <2> QED
    BY <2>2, <2>3
<1>10. \A o \in DOMAIN bt : Linked(new, o) <=> Linked(bt, o) \/ o = off
  <2>1. ASSUME NEW o \in DOMAIN bt, Linked(new, o), o # off PROVE Linked(bt, o)
    BY <2>1, <1>1, <1>2, <1>4 DEF Linked
  <2>2. Linked(new, off)
    BY <1>1, <1>2 DEF Linked
  <2>3. ASSUME NEW o \in DOMAIN bt, Linked(bt, o), o # 0 PROVE Linked(new, o)
    <3>1. PICK q \in DOMAIN bt, l \in Links : bt[q].link[l] = o
      BY <2>3 DEF Linked
    <3>2. <<q, l>> # <<at.node, at.link>>
      BY <2>3, <3>1, <1>2
    <3>3. new[q].link[l] = o
      BY <3>1, <3>2, <1>4
    <3> QED
      BY <3>3, <1>1 DEF Linked
  <2> QED
    BY <2>1, <2>2, <2>3 DEF Linked
<1>11. ASSUME NEW o \in DOMAIN new, NEW q \in DOMAIN new, NEW l \in Links, NEW k \in Links,
              new[o].link[l] = new[q].link[k], new[o].link[l] # 0
       PROVE  o = q /\ l = k
  <2>1. \A p \in DOMAIN bt, j \in Links : bt[p].link[j] # off
    BY <1>1 DEF Linked
  <2>2. CASE <<o, l>> = <<at.node, at.link>>
    BY <2>1, <2>2, <1>1, <1>2, <1>4, <1>11
  <2>3. CASE <<q, k>> = <<at.node, at.link>>
    BY <2>1, <2>3, <1>1, <1>2, <1>4, <1>11
  <2>4. CASE <<o, l>> # <<at.node, at.link>> /\ <<q, k>> # <<at.node, at.link>>
    BY <2>4, <1>1, <1>4, <1>11 DEF TrieOK
  <2> QED
    BY <2>2, <2>3, <2>4
<1>12. find_prop_bt(new, bt[off].path) = [node |-> off, link |-> "none", depth |-> Len(bt[off].path)]
  <2> DEFINE m == bt[off].path
  <2>1. /\ m \in Names_ /\ Len(m) = at.depth /\ Len(m) \in 1 .. Len(name)
        /\ \A j \in 1 .. Len(m) : m[j] = name[j]
    BY <1>2 DEF Ends
  <2>2. find_prop_bt(bt, m) = at
    <3>1. Search(bt, name)[<<0, 0>>] = at
      BY DEF at, find_prop_bt
    <3>2. 0 \in DOMAIN bt /\ 0 \in 0 .. Len(m) /\ Len(m) <= Len(name)
      BY <2>1, <1>6, <1>1 DEF Names_
    <3>3. Search(bt, m)[<<0, 0>>] = Search(bt, name)[<<0, 0>>]
      <4> HIDE DEF m
      <4> QED
        BY <2>1, <3>1, <3>2, <1>1, SearchPrefix
    <3> QED
      BY <3>1, <3>3 DEF find_prop_bt
  <2>3. find_prop_bt(new, m) = Search(new, m)[<<off, Len(m)>>]
    BY <2>1, <2>2, <1>7
  <2>4. Len(m) \in Nat \ {0} /\ Len(m) \in 0 .. Len(m) /\ off \in DOMAIN new
    BY <2>1, <1>1 DEF Names_
  <2>5. LinkTaken(new, m, off, Len(m)) = "none"
    <3>1. new[off].token = m[Len(m)]
      BY <2>1, <2>4, <1>2
    <3> QED
      BY <3>1, <2>4 DEF LinkTaken
  <2>6. Follows(new, m, off, Len(m)) = 0 /\ Depth(new, m, off, Len(m)) = Len(m)
    BY <2>5 DEF Follows, Depth
  <2>7. Search(new, m)[<<off, Len(m)>>] = [node |-> off, link |-> "none", depth |-> Len(m)]
    <3> HIDE DEF m
    <3> QED
      BY <2>1, <2>4, <2>5, <2>6, <1>1, SearchStops
  <2> QED
    BY <2>3, <2>7
<1>13. ASSUME NEW o \in DOMAIN new
       PROVE  IF ~Linked(new, o) THEN new[o].prop = 0 /\ \A l \in Links : new[o].link[l] = 0
              ELSE o # 0 => find_prop_bt(new, new[o].path) =
                              [node |-> o, link |-> "none", depth |-> Len(new[o].path)]
  <2>1. CASE ~Linked(new, o)
    <3>1. ~Linked(bt, o) /\ o \in DOMAIN bt
      BY <2>1, <1>1, <1>10
    <3>2. bt[o].prop = 0 /\ \A l \in Links : bt[o].link[l] = 0
      BY <3>1 DEF TrieOK
    <3>3. o # at.node
      BY <3>1, <1>2 DEF Ends
    <3> QED
      BY <2>1, <3>1, <3>2, <3>3, <1>3, <1>4
  <2>2. CASE o = off
    <3>1. new[o].path = bt[off].path
      BY <2>2, <1>1, <1>3
    <3>2. Linked(new, o)
      BY <2>2, <1>1, <1>10
    <3> QED
      BY <2>2, <3>1, <3>2, <1>12
  <2>3. CASE Linked(new, o) /\ o # off /\ o # 0
    <3>1. Linked(bt, o) /\ o \in DOMAIN bt /\ new[o].path = bt[o].path
      BY <2>3, <1>1, <1>3, <1>10
    <3>2. find_prop_bt(bt, bt[o].path) = [node |-> o, link |-> "none", depth |-> Len(bt[o].path)]
      BY <2>3, <3>1 DEF TrieOK
    <3>3. bt[o].path \in Names_
      BY <2>3, <3>1, <1>1, SMTT(30) DEF LinksOK, Node, Names_
    <3>4. find_prop_bt(new, bt[o].path) = find_prop_bt(bt, bt[o].path)
      BY <3>2, <3>3, <1>8 DEF KeepsSearches
    <3> QED
      BY <2>3, <3>1, <3>2, <3>4
  <2> QED
    BY <2>1, <2>2, <2>3
<1>14. TrieOK(new)
  BY <1>1, <1>11, <1>13 DEF TrieOK
<1> QED
  BY <1>1, <1>3, <1>8, <1>9, <1>14 DEF SameProps

-----------------------------------------------------------------------------
(* The stores into an area *)

\* What is found of a name is an info of that name.
LEMMA PropIsInfo ==
    ASSUME NEW a, AreaOK(a), NEW name \in Names_, PropIn(a.bt, name) # 0
    PROVE  /\ PropIn(a.bt, name) \in DOMAIN a.info /\ a.info[PropIn(a.bt, name)].name = name
           /\ find_prop_bt(a.bt, name).link = "none"
           /\ find_prop_bt(a.bt, name).node \in DOMAIN a.bt
<1>1. LinksOK(a.bt)
  BY DEF AreaOK, TrieOK
<1> DEFINE at == find_prop_bt(a.bt, name)
<1>2. at.link = "none" /\ PropIn(a.bt, name) = a.bt[at.node].prop
  BY DEF PropIn
<1>3. at.node \in DOMAIN a.bt /\ a.bt[at.node].path = name
  BY <1>1, <1>2, FoundIsPath
<1> QED
  BY <1>2, <1>3 DEF AreaOK

\* A new node.
LEMMA AreaMakeNode ==
    ASSUME NEW a, AreaOK(a), NEW path \in Names_, a.bytes_used_ + 1 <= AreaSize,
           NEW b, b = new_prop_bt(a, path)
    PROVE  /\ AreaOK(b) /\ KeepsSearches(a.bt, b.bt) /\ b.info = a.info
           /\ a.bytes_used_ \in DOMAIN b.bt /\ ~Linked(b.bt, a.bytes_used_)
           /\ b.bt[a.bytes_used_] = prop_bt(path)
           /\ \A o \in DOMAIN a.bt : o < a.bytes_used_
           /\ \A n \in Names_ : /\ find_prop_bt(b.bt, n) = find_prop_bt(a.bt, n)
                                /\ PropIn(b.bt, n) = PropIn(a.bt, n)
<1>1. /\ a = [bt |-> a.bt, info |-> a.info, bytes_used_ |-> a.bytes_used_]
      /\ TrieOK(a.bt) /\ LinksOK(a.bt) /\ a.bytes_used_ \in Nat /\ AreaSize \in Nat
      /\ \A o \in DOMAIN a.bt \cup DOMAIN a.info : o < a.bytes_used_
  BY AreaAssumption DEF AreaOK, TrieOK
<1> DEFINE off == a.bytes_used_
           bt == Put(a.bt, off, prop_bt(path))
<1>2. b = [bt |-> bt, info |-> a.info, bytes_used_ |-> off + 1]
  BY <1>1 DEF new_prop_bt
<1>3. b.bt = bt /\ b.info = a.info /\ b.bytes_used_ = off + 1
      /\ b = [bt |-> b.bt, info |-> b.info, bytes_used_ |-> b.bytes_used_]
  BY <1>2
<1>4. 0 \in DOMAIN a.bt /\ DOMAIN a.bt \subseteq 0 .. AreaSize
  BY <1>1 DEF LinksOK
<1>5. off \in 1 .. AreaSize /\ off \notin DOMAIN a.bt
  BY <1>1, <1>4
<1>6. /\ TrieOK(b.bt) /\ KeepsSearches(a.bt, b.bt) /\ DOMAIN b.bt = DOMAIN a.bt \cup {off}
      /\ \A o \in DOMAIN a.bt : b.bt[o] = a.bt[o]
      /\ b.bt[off] = prop_bt(path) /\ ~Linked(b.bt, off)
      /\ \A n \in Names_ : find_prop_bt(b.bt, n) = find_prop_bt(a.bt, n)
  <2>1. TrieOK(a.bt) /\ MakesNode(a.bt, off, path, b.bt)
    BY <1>1, <1>3, <1>5 DEF MakesNode
  <2> HIDE DEF off, bt
  <2>2. TrieOK(b.bt) /\ KeepsSearches(a.bt, b.bt)
    BY <2>1, MakeNode, Zenon
  <2>3. NodeMade(a.bt, off, path, b.bt)
    BY <2>1, MakeNode
  <2> QED
    BY <2>2, <2>3 DEF NodeMade
<1>7. ASSUME NEW n \in Names_ PROVE PropIn(b.bt, n) = PropIn(a.bt, n)
  <2>1. find_prop_bt(b.bt, n) = find_prop_bt(a.bt, n) /\ Ends(a.bt, n, find_prop_bt(a.bt, n))
    BY <1>1, <1>6, FindEnds
  <2>2. find_prop_bt(a.bt, n).node \in DOMAIN a.bt
    BY <2>1 DEF Ends
  <2> QED
    BY <2>1, <2>2, <1>6 DEF PropIn
<1>8. prop_bt(path).prop = 0
  BY DEF prop_bt
<1>9. AreaOK(b)
  <2>1. \A o \in DOMAIN b.bt : b.bt[o].prop # 0 => /\ b.bt[o].prop \in DOMAIN b.info
                                                   /\ b.info[b.bt[o].prop].name = b.bt[o].path
    BY <1>3, <1>6, <1>8 DEF AreaOK
  <2>2. \A o \in DOMAIN b.bt \cup DOMAIN b.info : o < b.bytes_used_
    BY <1>1, <1>3, <1>4, <1>6 DEF AreaOK
  <2> QED
    BY <2>1, <2>2, <1>1, <1>3, <1>6 DEF AreaOK
<1> QED
  BY <1>1, <1>3, <1>6, <1>7, <1>9

\* The constructors make a sound info, which shows its value.
LEMMA NewInfo ==
    ASSUME NEW name \in Names_, NEW v \in Texts, Len(v) >= PROP_VALUE_MAX => is_read_only(name)
    PROVE  LET info == prop_info(name, v)
           IN  /\ InfoOK(info) /\ info.name = name /\ info.serial = 0
               /\ ValueOf(info) = Shows(v) /\ info.long_value = v
<1> DEFINE short == IF Len(v) >= PROP_VALUE_MAX THEN kLongLegacyError ELSE v
           info == prop_info(name, v)
<1>1. /\ Len(v) \in Nat /\ PROP_VALUE_MAX \in Nat \ {0} /\ v \in Seq(Int)
      /\ short \in Seq(Nat) /\ Len(short) \in Nat /\ Len(short) < PROP_VALUE_MAX
  <2>1. Len(v) \in Nat /\ PROP_VALUE_MAX \in Nat \ {0} /\ kLongLegacyError \in Seq(Nat)
        /\ Len(kLongLegacyError) < PROP_VALUE_MAX
    BY AreaAssumption DEF Texts
  <2>2. v \in Seq(Int)
    BY DEF Texts
  <2> QED
    BY <2>1, <2>2 DEF Texts
<1>2. info = [name |-> name, serial |-> 0, len |-> Len(short), is_long |-> Len(v) >= PROP_VALUE_MAX,
              long_value |-> v,
              value |-> [i \in 1 .. PROP_VALUE_MAX |-> IF i <= Len(short) THEN short[i] ELSE NUL]]
  BY DEF prop_info
<1> HIDE DEF info
<1>3. \A i \in 1 .. Len(short) : short[i] \in Nat /\ short[i] # NUL
  BY <1>1 DEF NUL
<1>4. [i \in 1 .. PROP_VALUE_MAX |-> IF i <= Len(short) THEN short[i] ELSE NUL]
         \in [1 .. PROP_VALUE_MAX -> Int]
  BY <1>1, <1>3 DEF NUL
<1>5. info \in Info
  BY <1>1, <1>2, <1>4 DEF Info, Names_
<1>6. /\ \A i \in 1 .. info.len : info.value[i] = short[i] /\ info.value[i] # NUL
      /\ info.value[info.len + 1] = NUL /\ info.value[PROP_VALUE_MAX] = NUL
  BY <1>1, <1>2, <1>3
<1>7. InfoOK(info)
  BY <1>1, <1>2, <1>5, <1>6 DEF InfoOK
<1>8. [i \in 1 .. info.len |-> info.value[i]] = short
  <2>1. info.len = Len(short) /\ short \in Seq(Nat)
    BY <1>1, <1>2
  <2> HIDE DEF short
  <2>2. short = [i \in 1 .. Len(short) |-> short[i]]
    BY <2>1
  <2> QED
    BY <2>1, <2>2, <1>6
<1>9. ValueOf(info) = [ReadCallback |-> v, Read |-> short]
  <2>1. ValueOf(info) = [ReadCallback |-> IF info.is_long THEN info.long_value ELSE short, Read |-> short]
    BY <1>8 DEF ValueOf
  <2>2. (IF info.is_long THEN info.long_value ELSE short) = v
    BY <1>1, <1>2
  <2> QED
    BY <2>1, <2>2
<1>10. Shows(v) = [ReadCallback |-> v, Read |-> short]
  BY DEF Shows
<1> QED
  BY <1>2, <1>7, <1>9, <1>10 DEF info

\* A store for a property: no other property changes, no search goes astray.
Stored(a, b, name) ==
    /\ AreaOK(b) /\ KeepsSearches(a.bt, b.bt)
    /\ DOMAIN a.info \subseteq DOMAIN b.info
    /\ \A o \in DOMAIN a.info : a.info[o].name # name => b.info[o] = a.info[o]
    /\ \A n \in Names_ : n # name => PropIn(b.bt, n) = PropIn(a.bt, n)

\* A store that no reader can see the effect of.
Quiet(a, b) ==
    /\ AreaOK(b) /\ KeepsSearches(a.bt, b.bt)
    /\ DOMAIN a.info \subseteq DOMAIN b.info
    /\ \A o \in DOMAIN a.info : b.info[o] = a.info[o]
    /\ \A n \in Names_ : PropIn(b.bt, n) = PropIn(a.bt, n)

\* A trie keeps the searches in itself.
LEMMA KeepsItself == \A bt : KeepsSearches(bt, bt)
BY DEF KeepsSearches

\* A new node is a quiet store.
LEMMA NodeIsQuiet ==
    ASSUME NEW a, AreaOK(a), NEW path \in Names_, a.bytes_used_ + 1 <= AreaSize,
           NEW b, b = new_prop_bt(a, path)
    PROVE  Quiet(a, b)
<1>1. AreaOK(b) /\ KeepsSearches(a.bt, b.bt) /\ b.info = a.info
  BY AreaMakeNode
<1>2. \A n \in Names_ : PropIn(b.bt, n) = PropIn(a.bt, n)
  BY AreaMakeNode
<1> QED
  BY <1>1, <1>2 DEF Quiet

\* A new info is a quiet store, too.
LEMMA AreaMakeInfo ==
    ASSUME NEW a, AreaOK(a), NEW name \in Names_, NEW v \in Texts,
           Len(v) >= PROP_VALUE_MAX => is_read_only(name),
           NEW k \in {1, 2}, k = (IF Len(v) >= PROP_VALUE_MAX THEN 2 ELSE 1),
           a.bytes_used_ + k <= AreaSize,
           NEW b, b = new_prop_info(a, name, v)
    PROVE  /\ Quiet(a, b) /\ b.bt = a.bt
           /\ a.bytes_used_ \in DOMAIN b.info /\ b.info[a.bytes_used_] = prop_info(name, v)
<1> DEFINE off == a.bytes_used_
<1>1. /\ a = [bt |-> a.bt, info |-> a.info, bytes_used_ |-> off]
      /\ LinksOK(a.bt) /\ off \in Nat /\ AreaSize \in Nat
      /\ 0 \in DOMAIN a.bt /\ DOMAIN a.bt \subseteq 0 .. AreaSize /\ DOMAIN a.info \subseteq Nat \ {0}
      /\ \A o \in DOMAIN a.bt \cup DOMAIN a.info : o < off
  BY AreaAssumption DEF AreaOK, TrieOK, LinksOK
<1>2. off \notin DOMAIN a.info /\ off \in Nat \ {0}
  BY <1>1
<1>3. b = [bt |-> a.bt, info |-> Put(a.info, off, prop_info(name, v)), bytes_used_ |-> off + k]
  BY <1>1 DEF new_prop_info
<1>4. /\ b.bt = a.bt /\ b.info = Put(a.info, off, prop_info(name, v)) /\ b.bytes_used_ = off + k
      /\ b = [bt |-> b.bt, info |-> b.info, bytes_used_ |-> b.bytes_used_]
  BY <1>3
<1>5. /\ DOMAIN b.info = DOMAIN a.info \cup {off} /\ b.info = [o \in DOMAIN b.info |-> b.info[o]]
      /\ b.info[off] = prop_info(name, v) /\ \A o \in DOMAIN a.info : b.info[o] = a.info[o]
  BY <1>2, <1>4 DEF Put
<1>6. InfoOK(prop_info(name, v))
  BY NewInfo
<1>7. AreaOK(b)
  <2>1. \A o \in DOMAIN b.bt \cup DOMAIN b.info : o < b.bytes_used_
    BY <1>1, <1>4, <1>5
  <2>2. \A o \in DOMAIN b.bt : b.bt[o].prop # 0 => /\ b.bt[o].prop \in DOMAIN b.info
                                                   /\ b.info[b.bt[o].prop].name = b.bt[o].path
    BY <1>4, <1>5 DEF AreaOK
  <2>3. \A o \in DOMAIN b.info : InfoOK(b.info[o])
    BY <1>5, <1>6 DEF AreaOK
  <2>4. TrieOK(b.bt) /\ b.bytes_used_ \in Nat /\ b.bytes_used_ <= AreaSize
        /\ DOMAIN b.info \subseteq Nat \ {0}
    BY <1>1, <1>2, <1>4, <1>5 DEF AreaOK
  <2> QED
    BY <2>1, <2>2, <2>3, <2>4, <1>4, <1>5 DEF AreaOK
<1> QED
  BY <1>4, <1>5, <1>7, KeepsItself DEF Quiet

\* Room that is taken and not used changes nothing.
LEMMA AreaWaste ==
    ASSUME NEW a, AreaOK(a), NEW k \in Nat, a.bytes_used_ + k <= AreaSize,
           NEW b, b = [a EXCEPT !.bytes_used_ = @ + k]
    PROVE  Quiet(a, b)
<1>1. /\ a = [bt |-> a.bt, info |-> a.info, bytes_used_ |-> a.bytes_used_]
      /\ a.bytes_used_ \in Nat
  BY DEF AreaOK
<1>2. b = [bt |-> a.bt, info |-> a.info, bytes_used_ |-> a.bytes_used_ + k]
  BY <1>1
<1>3. b.bt = a.bt /\ b.info = a.info /\ b.bytes_used_ = a.bytes_used_ + k
  BY <1>2
<1>4. b = [bt |-> b.bt, info |-> b.info, bytes_used_ |-> b.bytes_used_]
  BY <1>2, <1>3
<1>5. \A o \in DOMAIN a.bt \cup DOMAIN a.info : o < a.bytes_used_ /\ o \in Int
  BY DEF AreaOK, TrieOK, LinksOK
<1>6. \A o \in DOMAIN b.bt \cup DOMAIN b.info : o < b.bytes_used_
  BY <1>1, <1>3, <1>5
<1>7. b.bytes_used_ \in Nat /\ b.bytes_used_ <= AreaSize
  BY <1>1, <1>3
<1>8. AreaOK(b)
  BY <1>3, <1>4, <1>6, <1>7 DEF AreaOK
<1> QED
  BY <1>3, <1>8, KeepsItself DEF Quiet

\* The store of a link is quiet.
LEMMA AreaLink ==
    ASSUME NEW a, AreaOK(a), NEW name, NEW off, NEW b, Publishes(a.bt, name, off, b.bt),
           b = [bt |-> b.bt, info |-> a.info, bytes_used_ |-> a.bytes_used_]
    PROVE  Quiet(a, b)
<1>1. TrieOK(a.bt)
  BY DEF AreaOK
<1>2. TrieOK(b.bt) /\ KeepsSearches(a.bt, b.bt) /\ SameProps(a.bt, b.bt)
  BY <1>1, StoreLink
<1>3. b.info = a.info /\ b.bytes_used_ = a.bytes_used_
      /\ b = [bt |-> b.bt, info |-> b.info, bytes_used_ |-> b.bytes_used_]
  OBVIOUS
<1>4. DOMAIN b.bt = DOMAIN a.bt
      /\ \A o \in DOMAIN a.bt : b.bt[o].path = a.bt[o].path /\ b.bt[o].prop = a.bt[o].prop
  BY <1>2 DEF SameProps
<1>5. AreaOK(b)
  BY <1>2, <1>3, <1>4 DEF AreaOK
<1>6. \A m \in Names_ : PropIn(b.bt, m) = PropIn(a.bt, m)
  BY <1>2 DEF SameProps
<1> QED
  BY <1>2, <1>3, <1>5, <1>6 DEF Quiet

\* A store into the prop of the node of a name.
LEMMA AreaProp ==
    ASSUME NEW a, AreaOK(a), NEW name \in Names_, find_prop_bt(a.bt, name).link = "none",
           NEW p, p = 0 \/ (p \in DOMAIN a.info /\ a.info[p].name = name),
           NEW b, b.bt = [a.bt EXCEPT ![find_prop_bt(a.bt, name).node].prop = p],
           b = [bt |-> b.bt, info |-> a.info, bytes_used_ |-> a.bytes_used_]
    PROVE  Stored(a, b, name) /\ b.info = a.info /\ PropIn(b.bt, name) = p
<1> DEFINE node == find_prop_bt(a.bt, name).node
<1>1. TrieOK(a.bt) /\ LinksOK(a.bt) /\ DOMAIN a.info \subseteq Nat
  BY DEF AreaOK, TrieOK
<1>2. node \in DOMAIN a.bt /\ Linked(a.bt, node) /\ a.bt[node].path = name
  BY <1>1, FoundIsPath
<1>3. StoresProp(a.bt, node, p, b.bt)
  BY <1>1, <1>2 DEF StoresProp
<1>4. TrieOK(b.bt) /\ KeepsSearches(a.bt, b.bt) /\ PropStored(a.bt, node, p, b.bt)
  <2> HIDE DEF node
  <2> QED BY <1>1, <1>3, StoreProp
<1>5. b.info = a.info /\ b.bytes_used_ = a.bytes_used_
      /\ b = [bt |-> b.bt, info |-> b.info, bytes_used_ |-> b.bytes_used_]
  OBVIOUS
<1>6. /\ DOMAIN b.bt = DOMAIN a.bt
      /\ \A o \in DOMAIN a.bt : /\ b.bt[o].path = a.bt[o].path
                                /\ b.bt[o].prop = IF o = node THEN p ELSE a.bt[o].prop
      /\ \A n \in Names_ : find_prop_bt(b.bt, n) = find_prop_bt(a.bt, n)
  BY <1>4 DEF PropStored
<1> HIDE DEF node
<1>7. \A o \in DOMAIN b.bt : b.bt[o].prop # 0 => /\ b.bt[o].prop \in DOMAIN b.info
                                                 /\ b.info[b.bt[o].prop].name = b.bt[o].path
  BY <1>2, <1>5, <1>6 DEF AreaOK
<1>8. AreaOK(b)
  BY <1>4, <1>5, <1>6, <1>7 DEF AreaOK
<1>9. PropIn(b.bt, name) = p
  BY <1>2, <1>6 DEF PropIn, node
<1>10. ASSUME NEW n \in Names_, n # name PROVE PropIn(b.bt, n) = PropIn(a.bt, n)
  <2>1. CASE find_prop_bt(a.bt, n).link = "none"
    <3>1. find_prop_bt(a.bt, n).node \in DOMAIN a.bt /\ a.bt[find_prop_bt(a.bt, n).node].path = n
      BY <2>1, <1>1, FoundIsPath
    <3>2. find_prop_bt(a.bt, n).node # node
      BY <3>1, <1>2, <1>10
    <3> QED
      BY <3>1, <3>2, <1>6 DEF PropIn
  <2>2. CASE find_prop_bt(a.bt, n).link # "none"
    BY <2>2, <1>6 DEF PropIn
  <2> QED
    BY <2>1, <2>2
<1> QED
  BY <1>4, <1>5, <1>8, <1>9, <1>10 DEF Stored

\* A store into an info.
LEMMA AreaInfo ==
    ASSUME NEW a, AreaOK(a), NEW pi \in DOMAIN a.info, NEW i, InfoOK(i), i.name = a.info[pi].name,
           NEW b, b = [bt |-> a.bt, info |-> [a.info EXCEPT ![pi] = i], bytes_used_ |-> a.bytes_used_]
    PROVE  /\ Stored(a, b, i.name) /\ b.bt = a.bt /\ DOMAIN b.info = DOMAIN a.info
           /\ b.info[pi] = i /\ \A o \in DOMAIN a.info : o # pi => b.info[o] = a.info[o]
<1>1. b.bt = a.bt /\ b.info = [a.info EXCEPT ![pi] = i] /\ b.bytes_used_ = a.bytes_used_
      /\ b = [bt |-> b.bt, info |-> b.info, bytes_used_ |-> b.bytes_used_]
  OBVIOUS
<1>2. a.info = [o \in DOMAIN a.info |-> a.info[o]]
  BY DEF AreaOK
<1>3. /\ DOMAIN b.info = DOMAIN a.info /\ b.info = [o \in DOMAIN b.info |-> b.info[o]]
      /\ b.info[pi] = i /\ \A o \in DOMAIN a.info : o # pi => b.info[o] = a.info[o]
  BY <1>1, <1>2
<1>4. \A o \in DOMAIN b.info : InfoOK(b.info[o]) /\ b.info[o].name = a.info[o].name
  BY <1>3 DEF AreaOK
<1>5. \A o \in DOMAIN b.bt : b.bt[o].prop # 0 => /\ b.bt[o].prop \in DOMAIN b.info
                                                 /\ b.info[b.bt[o].prop].name = b.bt[o].path
  BY <1>1, <1>3, <1>4 DEF AreaOK
<1>6. AreaOK(b)
  BY <1>1, <1>3, <1>4, <1>5 DEF AreaOK
<1> QED
  BY <1>1, <1>3, <1>6, KeepsItself DEF Stored

\* A quiet store is one for any property.
LEMMA QuietIsStored ==
    ASSUME NEW a, NEW b, Quiet(a, b), NEW name PROVE Stored(a, b, name)
BY DEF Quiet, Stored

\* Names are names with a token.
LEMMA NamesAreNames == Names \subseteq Names_
BY AreaAssumption DEF Names_

\* A store leaves what the area holds of the other properties.
LEMMA HoldsOther ==
    ASSUME NEW a, NEW b, NEW name, Stored(a, b, name), NEW n \in Names_, n # name, NEW shown,
           Holds(a, n, shown)
    PROVE  Holds(b, n, shown)
<1>1. PropIn(b.bt, n) = PropIn(a.bt, n)
  BY DEF Stored
<1>2. CASE PropIn(a.bt, n) = 0
  BY <1>1, <1>2 DEF Holds
<1>3. CASE PropIn(a.bt, n) # 0
  <2>1. PropIn(a.bt, n) \in DOMAIN a.info /\ a.info[PropIn(a.bt, n)].name = n
    BY <1>3 DEF Holds
  <2>2. PropIn(b.bt, n) \in DOMAIN b.info /\ b.info[PropIn(b.bt, n)] = a.info[PropIn(a.bt, n)]
    BY <1>1, <2>1 DEF Stored
  <2> QED
    BY <1>1, <1>3, <2>1, <2>2 DEF Holds
<1> QED
  BY <1>2, <1>3

\* A quiet store leaves what the area holds of every property.
LEMMA HoldsQuiet ==
    ASSUME NEW a, NEW b, Quiet(a, b), NEW n \in Names_, NEW shown, Holds(a, n, shown)
    PROVE  Holds(b, n, shown)
<1>1. PropIn(b.bt, n) = PropIn(a.bt, n)
  BY DEF Quiet
<1>2. CASE PropIn(a.bt, n) = 0
  BY <1>1, <1>2 DEF Holds
<1>3. CASE PropIn(a.bt, n) # 0
  <2>1. PropIn(a.bt, n) \in DOMAIN a.info
    BY <1>3 DEF Holds
  <2>2. PropIn(b.bt, n) \in DOMAIN b.info /\ b.info[PropIn(b.bt, n)] = a.info[PropIn(a.bt, n)]
    BY <1>1, <2>1 DEF Quiet
  <2> QED
    BY <1>1, <1>3, <2>1, <2>2 DEF Holds
<1> QED
  BY <1>2, <1>3

\* A reader that a store finds: it goes on, and may see more.
Grows(rd, new) ==
    /\ new.pc = rd.pc /\ new.api = rd.api /\ new.name = rd.name /\ new.at = rd.at /\ new.i = rd.i
    /\ new.pi = rd.pi /\ new.serial = rd.serial /\ new.len = rd.len /\ new.got = rd.got
    /\ new.seen = rd.seen /\ rd.could \subseteq new.could /\ (rd.inPlace => new.inPlace)

\* A lookup goes on where no search goes astray.
LEMMA LooksKept ==
    ASSUME NEW bt, LinksOK(bt), NEW new, KeepsSearches(bt, new), NEW rd \in ReaderRecords,
           NEW rn \in ReaderRecords, Grows(rd, rn), Looks(rd, bt)
    PROVE  Looks(rn, new)
<1>1. /\ rn.pc = rd.pc /\ rn.name = rd.name /\ rn.at = rd.at /\ rn.i = rd.i
      /\ rd.name \in Names_ /\ Len(rd.name) \in Nat /\ rd.i \in Nat
  <2>1. rd.name \in Names_ /\ rd.i \in Nat
    BY NamesAreNames DEF ReaderRecords
  <2> QED
    BY <2>1 DEF Grows, Names_
<1>2. ASSUME NEW i \in 0 .. Len(rd.name), rd.at \in DOMAIN bt,
             Search(bt, rd.name)[<<rd.at, i>>] = find_prop_bt(bt, rd.name)
      PROVE  Search(new, rd.name)[<<rd.at, i>>] = find_prop_bt(new, rd.name)
  BY <1>1, <1>2 DEF KeepsSearches
<1>3. DOMAIN bt \subseteq DOMAIN new /\ \A o \in DOMAIN bt : new[o].token = bt[o].token
  BY DEF KeepsSearches
<1>4. CASE rd.pc = "children"
  <2>1. /\ rd.at \in DOMAIN bt /\ rd.i \in 1 .. Len(rd.name)
        /\ Search(bt, rd.name)[<<rd.at, rd.i - 1>>] = find_prop_bt(bt, rd.name)
        /\ LinkTaken(bt, rd.name, rd.at, rd.i - 1) = "children"
    BY <1>4 DEF Looks
  <2>2. rd.i - 1 \in 0 .. Len(rd.name)
    BY <1>1, <2>1
  <2>3. Search(new, rd.name)[<<rd.at, rd.i - 1>>] = find_prop_bt(new, rd.name)
    BY <1>2, <2>1, <2>2
  <2>4. LinkTaken(new, rd.name, rd.at, rd.i - 1) = LinkTaken(bt, rd.name, rd.at, rd.i - 1)
    BY <1>3, <2>1 DEF LinkTaken, Side
  <2> QED
    BY <1>1, <1>3, <1>4, <2>1, <2>3, <2>4 DEF Looks
<1>5. CASE rd.pc = "sibling"
  <2>1. /\ rd.at \in DOMAIN bt /\ rd.i \in 1 .. Len(rd.name)
        /\ Search(bt, rd.name)[<<rd.at, rd.i>>] = find_prop_bt(bt, rd.name)
    BY <1>5 DEF Looks
  <2>2. rd.i \in 0 .. Len(rd.name)
    BY <1>1, <2>1
  <2>3. Search(new, rd.name)[<<rd.at, rd.i>>] = find_prop_bt(new, rd.name)
    BY <1>2, <2>1, <2>2
  <2> QED
    BY <1>1, <1>3, <1>5, <2>1, <2>3 DEF Looks
<1>6. CASE rd.pc \in {"prop", "reload"}
  <2>1. find_prop_bt(bt, rd.name).link = "none" /\ find_prop_bt(bt, rd.name).node = rd.at
    BY <1>6 DEF Looks
  <2>2. find_prop_bt(new, rd.name) = find_prop_bt(bt, rd.name)
    BY <1>1, <2>1 DEF KeepsSearches
  <2> QED
    BY <1>1, <1>6, <2>1, <2>2 DEF Looks
<1>7. CASE rd.pc \notin Finding
  BY <1>1, <1>7 DEF Looks, Finding
<1> QED
  BY <1>4, <1>5, <1>6, <1>7 DEF Finding

\* A reader of an info that has not changed.
LEMMA ReadsKept ==
    ASSUME NEW rd \in ReaderRecords, NEW new \in ReaderRecords, Grows(rd, new), NEW a, NEW b,
           Reads(rd, a), rd.pi # 0 => rd.pi \in DOMAIN b.info /\ b.info[rd.pi] = a.info[rd.pi]
    PROVE  Reads(new, b)
<1>1. CASE rd.pi = 0
  BY <1>1 DEF Reads, Grows
<1>2. CASE rd.pi # 0
  <2> DEFINE info == a.info[rd.pi]
  <2>1. /\ b.info[new.pi] = info /\ new.pi \in DOMAIN b.info /\ new.pi # 0
        /\ new.pc = rd.pc /\ new.api = rd.api /\ new.name = rd.name
        /\ new.serial = rd.serial /\ new.len = rd.len /\ new.got = rd.got
        /\ rd.could \subseteq new.could /\ (rd.inPlace => new.inPlace)
    BY <1>2 DEF Grows
  <2>2. /\ info.name = rd.name
        /\ info.is_long /\ rd.api = "ReadCallback" => info.long_value \in rd.could
        /\ info.serial % 2 = 0 => ValueOf(info)[rd.api] \in rd.could
        /\ rd.pc \in {"copy", "check"} =>
                  /\ rd.serial % 2 = 0 /\ rd.serial <= info.serial
                  /\ rd.inPlace \/ rd.serial = info.serial
                  /\ Len(rd.got) < PROP_VALUE_MAX /\ rd.len < PROP_VALUE_MAX
                  /\ rd.api = "Read" \/ ~is_read_only(rd.name) => Len(rd.got) <= rd.len
                  /\ rd.pc = "check" => /\ Len(rd.got) = rd.len
                                        /\ rd.api = "Read" \/ ~is_read_only(rd.name)
                  /\ rd.serial = info.serial =>
                       /\ rd.len = info.len
                       /\ Len(rd.got) <= info.len
                       /\ \A j \in 1 .. Len(rd.got) : rd.got[j] = info.value[j]
    BY <1>2 DEF Reads
  <2> HIDE DEF info
  <2> QED
    BY <2>1, <2>2 DEF Reads
<1> QED
  BY <1>1, <1>2

GrowsBy(rd, new, a, b, here, shown, written) ==
    /\ rd \in ReaderRecords /\ new \in ReaderRecords /\ Grows(rd, new)
    /\ rd.pc # "start" => shown[rd.api] \in new.could
    /\ written => new.inPlace
    /\ here => AreaOK(a) /\ KeepsSearches(a.bt, b.bt)
    /\ rd.pc \in Reading /\ here => Reads(new, b)

\* A reader after a store.
LEMMA ReaderKept ==
    ASSUME NEW rd, NEW new, NEW a, NEW b, NEW here \in BOOLEAN, NEW shown, NEW was, NEW written,
           NEW wrote, ReaderOK(rd, was, wrote, here, a),
           GrowsBy(rd, new, a, b, here, shown, written)
    PROVE  ReaderOK(new, shown, written, here, b)
<1>1. /\ new.pc = rd.pc /\ new.api = rd.api /\ new.name = rd.name /\ Grows(rd, new)
      /\ rd \in ReaderRecords /\ new \in ReaderRecords
  BY DEF Grows, GrowsBy
<1>2. rd.pc \in Finding => Looks(new, b.bt)
  <2>1. rd.pc \in Finding => Looks(rd, a.bt) /\ LinksOK(a.bt) /\ KeepsSearches(a.bt, b.bt)
    BY DEF ReaderOK, AreaOK, TrieOK, GrowsBy
  <2> QED
    BY <1>1, <2>1, LooksKept
<1>3. Current(new)
  <2>1. Current(rd) /\ new.seen = rd.seen /\ rd.could \subseteq new.could /\ (rd.inPlace => new.inPlace)
    BY <1>1 DEF ReaderOK, Grows
  <2> QED
    BY <2>1, <1>1 DEF Current
<1> QED
  BY <1>1, <1>2, <1>3 DEF ReaderOK, GrowsBy

\* A reader of an info that is written in place.
LEMMA ReadsChanged ==
    ASSUME NEW rd \in ReaderRecords, NEW new \in ReaderRecords, Grows(rd, new), NEW a, NEW b,
           Reads(rd, a), rd.pi # 0, rd.pi \in DOMAIN b.info, InfoOK(a.info[rd.pi]),
           InfoOK(b.info[rd.pi]), new.inPlace,
           b.info[rd.pi].name = a.info[rd.pi].name, b.info[rd.pi].is_long = a.info[rd.pi].is_long,
           \/ b.info[rd.pi].long_value = a.info[rd.pi].long_value
           \/ rd.api = "ReadCallback" => b.info[rd.pi].long_value \in new.could,
           b.info[rd.pi].serial % 2 = 1 \/ b.info[rd.pi].serial > a.info[rd.pi].serial,
           b.info[rd.pi].serial >= a.info[rd.pi].serial,
           b.info[rd.pi].serial % 2 = 0 => ValueOf(b.info[rd.pi])[rd.api] \in new.could
    PROVE  Reads(new, b)
<1> DEFINE info == a.info[rd.pi]
           next == b.info[rd.pi]
<1>1. /\ new.pi = rd.pi /\ new.pc = rd.pc /\ new.api = rd.api /\ new.name = rd.name
      /\ new.serial = rd.serial /\ new.len = rd.len /\ new.got = rd.got
      /\ rd.could \subseteq new.could
  BY DEF Grows
<1>2. /\ info.name = rd.name
      /\ info.is_long /\ rd.api = "ReadCallback" => info.long_value \in rd.could
      /\ rd.pc \in {"copy", "check"} =>
                /\ rd.serial % 2 = 0 /\ rd.serial <= info.serial
                /\ Len(rd.got) < PROP_VALUE_MAX /\ rd.len < PROP_VALUE_MAX
                /\ rd.api = "Read" \/ ~is_read_only(rd.name) => Len(rd.got) <= rd.len
                /\ rd.pc = "check" => /\ Len(rd.got) = rd.len
                                      /\ rd.api = "Read" \/ ~is_read_only(rd.name)
  BY DEF Reads
<1>3. info.serial \in Nat /\ next.serial \in Nat /\ rd.serial \in Nat
  BY DEF InfoOK, Info, ReaderRecords
<1>4. /\ next.name = info.name /\ next.is_long = info.is_long
      /\ next.long_value = info.long_value \/ (rd.api = "ReadCallback" => next.long_value \in new.could)
      /\ next.serial % 2 = 1 \/ next.serial > info.serial
      /\ next.serial >= info.serial
      /\ next.serial % 2 = 0 => ValueOf(next)[rd.api] \in new.could
  OBVIOUS
<1> HIDE DEF info
<1>5. rd.pc \in {"copy", "check"} => rd.serial <= next.serial /\ rd.serial # next.serial
  <2> HIDE DEF next
  <2> QED BY <1>2, <1>3, <1>4
<1>6. new.pi \in DOMAIN b.info /\ next = b.info[new.pi] /\ new.pi # 0
  BY <1>1
<1> HIDE DEF next
<1> QED
  BY <1>1, <1>2, <1>4, <1>5, <1>6 DEF Reads

-----------------------------------------------------------------------------
(* The steps of a mutation *)

\* Where a name lives changes with nothing; it lives in an area that there is.
LEMMA Place ==
    ASSUME Areas, NEW n \in Names
    PROVE  /\ GetPropAreaForName(n) # None => GetPropAreaForName(n) \in DOMAIN area
           /\ UNCHANGED <<world, contextOf>> => GetPropAreaForName(n)' = GetPropAreaForName(n)
<1>1. GetPropAreaForName(n) # None => GetPropAreaForName(n) \in DOMAIN area
  BY DEF Areas, GetPropAreaForName, map_prop_area
<1>2. UNCHANGED <<world, contextOf>> => GetPropAreaForName(n)' = GetPropAreaForName(n)
  BY DEF GetPropAreaForName, map_prop_area, World
<1> QED
  BY <1>1, <1>2

\* A step of the mutation makes the area b of its property, which then is as shown.
MutStep(b, shown) ==
    /\ mut # Idle /\ mut' # Idle /\ mut'.name = mut.name /\ mut'.op = mut.op /\ mut'.v = mut.v
    /\ Context # None /\ UNCHANGED <<world, contextOf, crashed>> /\ UNCHANGED toolVars
    /\ serial_' \in Nat
    /\ Stored(Area, b, mut.name) /\ area' = [area EXCEPT ![Context] = b]
    /\ shown \in Shown /\ value' = [value EXCEPT ![mut.name] = shown] /\ Holds(b, mut.name, shown)
    /\ PropIn(b.bt, mut.name) # 0 /\ b.info[PropIn(b.bt, mut.name)].serial % 2 = 1
         => mut'.pc \in {"copy", "clean"} \/ crashed
    /\ MutationOK(mut', TRUE, b, shown)

\* Such a step leaves every area sound and in agreement with the history.
LEMMA MutStepAreas ==
    ASSUME Areas, Agree, MutOK, NEW b, NEW shown, MutStep(b, shown)
    PROVE  /\ Areas' /\ Agree'
           /\ mut.name \in Names /\ Context \in DOMAIN area /\ Context' = Context /\ Area' = b
           /\ value'[mut.name] = shown
           /\ \A n \in Names : /\ GetPropAreaForName(n)' = GetPropAreaForName(n)
                               /\ n # mut.name => value'[n] = value[n]
<1>1. mut.name \in Names /\ mut'.name = mut.name
  BY DEF MutOK, MutStep, MutationOK, Mutations
<1>2. /\ \A n \in Names : GetPropAreaForName(n)' = GetPropAreaForName(n)
      /\ \A n \in Names : GetPropAreaForName(n) # None => GetPropAreaForName(n) \in DOMAIN area
  BY Place DEF MutStep
<1>3. Context \in DOMAIN area /\ Context' = Context
  BY <1>1, <1>2 DEF MutStep, Context
<1>4. /\ DOMAIN area' = DOMAIN area /\ area' = [c \in DOMAIN area' |-> area'[c]]
      /\ area'[Context] = b /\ \A c \in DOMAIN area : c # Context => area'[c] = area[c]
  BY <1>3 DEF Areas, MutStep
<1>5. Area' = b
  BY <1>3, <1>4 DEF Area
<1>6. AreaOK(b) /\ shown \in Shown
  BY DEF MutStep, Stored
<1>7. /\ value' \in [Names -> Shown] /\ value'[mut.name] = shown
      /\ \A n \in Names : n # mut.name => value'[n] = value[n]
  BY <1>1, <1>6 DEF Areas, MutStep
<1>8. Areas'
  BY <1>4, <1>6, <1>7 DEF Areas, MutStep
<1>9. ASSUME NEW n \in Names
      PROVE  IF GetPropAreaForName(n)' = None THEN value'[n] = Gone
             ELSE Holds(area'[GetPropAreaForName(n)'], n, value'[n])
  <2>1. CASE n = mut.name
    BY <2>1, <1>3, <1>4, <1>7 DEF MutStep, Context
  <2>2. CASE n # mut.name
    <3>1. CASE GetPropAreaForName(n) = None
      BY <2>2, <3>1, <1>2, <1>7 DEF Agree
    <3>2. CASE GetPropAreaForName(n) # None /\ GetPropAreaForName(n) # Context
      BY <2>2, <3>2, <1>2, <1>4, <1>7 DEF Agree
    <3>3. CASE GetPropAreaForName(n) # None /\ GetPropAreaForName(n) = Context
      <4>1. Holds(Area, n, value[n]) /\ Stored(Area, b, mut.name)
        BY <3>3 DEF Agree, Area, MutStep
      <4>2. Holds(b, n, value[n])
        BY <4>1, <2>2, HoldsOther, NamesAreNames
      <4> QED
        BY <2>2, <3>3, <4>2, <1>2, <1>4, <1>7
    <3> QED
      BY <3>1, <3>2, <3>3
  <2> QED
    BY <2>1, <2>2
<1>10. Agree'
  BY <1>9 DEF Agree
<1> QED
  BY <1>1, <1>2, <1>3, <1>5, <1>7, <1>8, <1>10

\* It leaves no serial odd but the one of its property, and everybody else alone.
LEMMA MutStepRest ==
    ASSUME Areas, Agree, OddIsWritten, MutOK, ToolOK, Lasting, NEW b, NEW shown, MutStep(b, shown)
    PROVE  OddIsWritten' /\ MutOK' /\ ToolOK' /\ Lasting'
<1>1. /\ Areas' /\ Agree'
      /\ mut.name \in Names /\ Context \in DOMAIN area /\ Context' = Context /\ Area' = b
      /\ value'[mut.name] = shown
      /\ \A n \in Names : GetPropAreaForName(n)' = GetPropAreaForName(n)
  BY MutStepAreas
<1>2. mut # Idle /\ mut' # Idle /\ mut'.name = mut.name /\ mut'.op = mut.op /\ mut'.v = mut.v
      /\ Context # None /\ UNCHANGED <<world, contextOf, crashed>> /\ UNCHANGED toolVars
  BY DEF MutStep
<1>3. MutOK'
  BY <1>1, <1>2 DEF MutOK, MutStep
<1>4. ASSUME NEW n \in Names, Odd(n)' PROVE Written(n)' \/ crashed'
  <2>1. /\ GetPropAreaForName(n) # None
        /\ PropIn(area'[GetPropAreaForName(n)].bt, n) # 0
        /\ area'[GetPropAreaForName(n)].info[PropIn(area'[GetPropAreaForName(n)].bt, n)].serial % 2 = 1
    BY <1>1, <1>4 DEF Odd, find
  <2>2. CASE n = mut.name
    <3>1. GetPropAreaForName(n) = Context /\ area'[Context] = b
      BY <2>2, <1>1 DEF Context, Area
    <3> QED
      BY <2>1, <2>2, <3>1, <1>2 DEF MutStep, Written
  <2>3. CASE n # mut.name
    <3>1. Odd(n)
      <4>1. CASE GetPropAreaForName(n) = Context
        <5>1. area'[Context] = b /\ Stored(Area, b, mut.name) /\ Area = area[Context]
          BY <1>1 DEF Area, MutStep
        <5>2. PropIn(b.bt, n) = PropIn(Area.bt, n)
          BY <5>1, <2>3, NamesAreNames DEF Stored
        <5>3. PropIn(Area.bt, n) # 0 /\ b.info[PropIn(Area.bt, n)].serial % 2 = 1
          BY <2>1, <4>1, <5>1, <5>2
        <5>4. Holds(Area, n, value[n])
          BY <2>1, <4>1, <5>1 DEF Agree
        <5>5. PropIn(Area.bt, n) \in DOMAIN Area.info /\ Area.info[PropIn(Area.bt, n)].name = n
          BY <5>3, <5>4 DEF Holds
        <5>6. b.info[PropIn(Area.bt, n)] = Area.info[PropIn(Area.bt, n)]
          BY <5>1, <5>5, <2>3 DEF Stored
        <5> QED
          BY <2>1, <4>1, <5>1, <5>3, <5>6 DEF Odd, find
      <4>2. CASE GetPropAreaForName(n) # Context
        <5>1. area'[GetPropAreaForName(n)] = area[GetPropAreaForName(n)]
          BY <2>1, <4>2, Place DEF MutStep, Areas
        <5> QED
          BY <2>1, <5>1 DEF Odd, find
      <4> QED
        BY <4>1, <4>2
    <3>2. ~Written(n)
      BY <2>3 DEF Written
    <3> QED
      BY <3>1, <3>2, <1>2 DEF OddIsWritten
  <2> QED
    BY <2>2, <2>3
<1>5. OddIsWritten'
  BY <1>4 DEF OddIsWritten
<1>6. ToolOK'
  <2>1. ~(tool.pc = "answer" /\ answer = "success")
    BY <1>2 DEF ToolOK, Requests
  <2>2. Requests'
    BY <1>2, <2>1 DEF ToolOK, Requests, toolVars, Name, Value
  <2>3. Owner'
    BY <1>2 DEF ToolOK, Owner, toolVars, Name, Value
  <2>4. tool.op = "delete" /\ tool # Resting => Persisting'
    BY <1>2 DEF ToolOK, Persisting, toolVars, Name
  <2> QED
    BY <1>2, <2>2, <2>3, <2>4 DEF ToolOK, toolVars
<1>7. Lasting'
  BY <1>2 DEF Lasting, toolVars, detect_protocol_version, World
<1> QED
  BY <1>3, <1>5, <1>6, <1>7

\* What a store does to the readers: they go on, and those of its property may see more.
ReadersGrow(b, shown) ==
    /\ reads' \in [Readers -> ReaderRecords]
    /\ \A r \in Readers :
         /\ Grows(reads[r], reads'[r])
         /\ reads[r].name = mut.name =>
              /\ reads[r].pc # "start" => shown[reads[r].api] \in reads'[r].could
              /\ mut'.pc \in {"copy", "clean"} => reads'[r].inPlace
              /\ reads[r].pc \in Reading => Reads(reads'[r], b)

\* The readers after a store.
LEMMA MutStepReaders ==
    ASSUME Areas, Agree, MutOK, ReadersOK, NEW b, NEW shown, MutStep(b, shown), ReadersGrow(b, shown)
    PROVE  ReadersOK'
<1>1. /\ mut.name \in Names /\ Context \in DOMAIN area /\ Context' = Context /\ Area' = b
      /\ value'[mut.name] = shown
      /\ \A n \in Names : /\ GetPropAreaForName(n)' = GetPropAreaForName(n)
                          /\ n # mut.name => value'[n] = value[n]
  BY MutStepAreas
<1>2. ASSUME NEW r \in Readers
      PROVE  ReaderOK(reads[r], value[reads[r].name], Written(reads[r].name),
                      GetPropAreaForName(reads[r].name) # None, TheArea(r))'
  <2> DEFINE rd == reads[r]
             new == reads'[r]
             c == GetPropAreaForName(rd.name)
             here == c # None
             a == area[c]
             next == area'[c]
             written == mut'.pc \in {"copy", "clean"} /\ mut'.name = rd.name
  <2>1. rd \in ReaderRecords /\ new \in ReaderRecords /\ Grows(rd, new) /\ new.name = rd.name
        /\ rd.name \in Names /\ new.api = rd.api /\ rd.could \subseteq new.could
        /\ (rd.inPlace => new.inPlace) /\ new.pi = rd.pi
    BY DEF ReadersOK, ReadersGrow, ReaderRecords, Grows
  <2>2. ReaderOK(rd, value[rd.name], Written(rd.name), here, a)
    BY DEF ReadersOK, TheArea
  <2>3. /\ GetPropAreaForName(reads[r].name)' = c /\ TheArea(r)' = next
        /\ Written(reads[r].name)' = written
    <3>1. GetPropAreaForName(reads[r].name)' = c
      BY <2>1 DEF GetPropAreaForName, map_prop_area, World, MutStep
    <3> QED
      BY <2>1, <3>1 DEF TheArea, Written
  <2>4. rd.pc # "start" => value'[rd.name][rd.api] \in new.could
    <3>1. CASE rd.name = mut.name
      BY <3>1, <1>1 DEF ReadersGrow
    <3>2. CASE rd.name # mut.name
      BY <3>2, <1>1, <2>1, <2>2 DEF ReaderOK
    <3> QED
      BY <3>1, <3>2
  <2>5. written => new.inPlace
    BY DEF ReadersGrow, MutStep
  <2>6. here => AreaOK(a) /\ c \in DOMAIN area
    BY <2>1, Place DEF Areas
  <2>7. here => KeepsSearches(a.bt, next.bt)
    <3>1. CASE c = Context
      BY <3>1, <1>1 DEF MutStep, Stored, Area
    <3>2. CASE c # Context /\ here
      <4>1. next = a
        BY <3>2, <2>6 DEF MutStep, Areas
      <4> QED
        BY <4>1, KeepsItself
    <3> QED
      BY <3>1, <3>2
  <2>8. rd.pc \in Reading /\ here => Reads(new, next)
    <3> SUFFICES ASSUME rd.pc \in Reading, here PROVE Reads(new, next)
      OBVIOUS
    <3>1. Reads(rd, a)
      BY <2>2 DEF ReaderOK
    <3>2. CASE rd.name = mut.name
      BY <3>2, <1>1 DEF ReadersGrow, Context, Area
    <3>3. CASE rd.name # mut.name
      <4>1. rd.pi # 0 => rd.pi \in DOMAIN a.info /\ a.info[rd.pi].name = rd.name
        BY <3>1 DEF Reads
      <4>2. rd.pi # 0 => rd.pi \in DOMAIN next.info /\ next.info[rd.pi] = a.info[rd.pi]
        <5>1. CASE c = Context
          <6>1. a = Area /\ next = b /\ Stored(Area, b, mut.name)
            BY <5>1, <1>1 DEF Area, MutStep
          <6> QED
            BY <6>1, <4>1, <3>3 DEF Stored
        <5>2. CASE c # Context
          <6>1. next = a
            BY <5>2, <2>6 DEF MutStep, Areas
          <6> QED
            BY <6>1, <4>1
        <5> QED
          BY <5>1, <5>2
      <4> HIDE DEF rd, new, a, next, here, c
      <4> QED
        BY <2>1, <3>1, <4>2, ReadsKept, SMTT(30)
    <3> QED
      BY <3>2, <3>3
  <2>9. Written(rd.name) \in BOOLEAN /\ written \in BOOLEAN /\ here \in BOOLEAN
    BY DEF Written
  <2>10. ReaderOK(new, value'[rd.name], written, here, next)
    <3> HIDE DEF rd, new, a, next, here, c, written
    <3>1. GrowsBy(rd, new, a, next, here, value'[rd.name], written)
      BY <2>1, <2>4, <2>5, <2>6, <2>7, <2>8 DEF GrowsBy
    <3> QED
      BY <2>2, <2>9, <3>1, ReaderKept
  <2> QED
    BY <2>1, <2>3, <2>10
<1> QED
  BY <1>2 DEF ReadersOK, ReadersGrow

\* A store that only this mutation knows of, or none: the readers are left alone.
LEMMA QuietReaders ==
    ASSUME Areas, ReadersOK, MutOK, mut # Idle, Context # None, NEW b, Quiet(Area, b), reads' = reads,
           mut'.pc \notin {"copy", "clean"} \/ mut.pc \in {"copy", "clean"}
    PROVE  ReadersGrow(b, value[mut.name])
<1>1. ASSUME NEW r \in Readers
      PROVE  /\ Grows(reads[r], reads'[r])
             /\ reads[r].name = mut.name =>
                  /\ reads[r].pc # "start" => value[mut.name][reads[r].api] \in reads'[r].could
                  /\ mut'.pc \in {"copy", "clean"} => reads'[r].inPlace
                  /\ reads[r].pc \in Reading => Reads(reads'[r], b)
  <2>1. Grows(reads[r], reads[r]) /\ reads[r] \in ReaderRecords
    BY DEF Grows, ReadersOK
  <2>2. ReaderOK(reads[r], value[reads[r].name], Written(reads[r].name),
                 GetPropAreaForName(reads[r].name) # None, TheArea(r))
    BY DEF ReadersOK
  <2>3. ASSUME reads[r].name = mut.name
        PROVE  /\ reads[r].pc # "start" => value[mut.name][reads[r].api] \in reads[r].could
               /\ mut'.pc \in {"copy", "clean"} => reads[r].inPlace
               /\ reads[r].pc \in Reading => Reads(reads[r], b)
    <3>1. TheArea(r) = Area
      BY <2>3 DEF TheArea, Area, Context
    <3>2. reads[r].pc \in Reading => Reads(reads[r], Area)
      BY <2>2, <3>1 DEF ReaderOK
    <3>3. reads[r].pc \in Reading /\ reads[r].pi # 0 =>
             reads[r].pi \in DOMAIN b.info /\ b.info[reads[r].pi] = Area.info[reads[r].pi]
      BY <3>2 DEF Reads, Quiet
    <3>4. reads[r].pc \in Reading => Reads(reads[r], b)
      BY <2>1, <3>2, <3>3, ReadsKept
    <3> QED
      BY <2>2, <2>3, <3>4 DEF ReaderOK, Written
  <2> QED
    BY <2>1, <2>3
<1> QED
  BY <1>1 DEF ReadersGrow, ReadersOK

\* A mutation that has work left has an area, which is sound and holds the property.
LEMMA MutFacts ==
    ASSUME Areas, Agree, MutOK, mut # Idle
    PROVE  /\ mut \in Mutations /\ mut.name \in Names /\ mut.name \in Names_
           /\ MutationOK(mut, Context # None, Area, value[mut.name])
           /\ value[mut.name] \in Shown
           /\ mut.pc # "return" => Context # None
           /\ Context # None => /\ Context \in DOMAIN area /\ AreaOK(Area)
                                /\ area = [area EXCEPT ![Context] = Area]
                                /\ Holds(Area, mut.name, value[mut.name])
<1>1. mut \in Mutations /\ MutationOK(mut, Context # None, Area, value[mut.name])
  BY DEF MutOK, MutationOK
<1>2. mut.name \in Names /\ mut.name \in Names_
  BY <1>1, NamesAreNames DEF Mutations
<1>3. Context # None => Context \in DOMAIN area
  BY <1>2, Place DEF Context
<1>4. value[mut.name] \in Shown
  BY <1>2 DEF Areas
<1>5. mut.pc # "return" => Context # None
  BY <1>1 DEF MutationOK
<1>6. Context # None => AreaOK(Area) /\ area = [area EXCEPT ![Context] = Area]
  BY <1>3 DEF Areas, Area
<1>7. Context # None => Holds(Area, mut.name, value[mut.name])
  BY <1>2 DEF Agree, Area, Context
<1> QED
  BY <1>1, <1>2, <1>3, <1>4, <1>5, <1>6, <1>7

\* A sound area that stays as it is.
LEMMA QuietItself == ASSUME NEW a, AreaOK(a) PROVE Quiet(a, a)
BY KeepsItself DEF Quiet

\* A step of the mutation that no reader can see the effect of.
QuietStep(b) ==
    /\ mut # Idle /\ mut' # Idle /\ mut'.name = mut.name /\ mut'.op = mut.op /\ mut'.v = mut.v
    /\ Context # None /\ UNCHANGED <<world, contextOf, crashed>> /\ UNCHANGED toolVars
    /\ serial_' \in Nat
    /\ Quiet(Area, b) /\ area' = [area EXCEPT ![Context] = b] /\ value' = value
    /\ mut.pc \notin {"copy", "clean"} /\ mut'.pc \notin {"copy", "clean"}
    /\ MutationOK(mut', TRUE, b, value[mut.name])

\* It is a step of the mutation that leaves the property as it was.
LEMMA QuietStepIsStep ==
    ASSUME Areas, Agree, OddIsWritten, MutOK, NEW b, QuietStep(b)
    PROVE  MutStep(b, value[mut.name])
<1>1. mut # Idle /\ Context # None /\ Quiet(Area, b) /\ value' = value
      /\ mut.pc \notin {"copy", "clean"}
  BY DEF QuietStep
<1>2. mut.name \in Names /\ mut.name \in Names_ /\ value[mut.name] \in Shown
      /\ Holds(Area, mut.name, value[mut.name])
  BY <1>1, MutFacts
<1>3. Stored(Area, b, mut.name) /\ Holds(b, mut.name, value[mut.name])
  BY <1>1, <1>2, QuietIsStored, HoldsQuiet
<1>4. value' = [value EXCEPT ![mut.name] = value[mut.name]]
  BY <1>1, <1>2 DEF Areas
<1>5. PropIn(b.bt, mut.name) # 0 /\ b.info[PropIn(b.bt, mut.name)].serial % 2 = 1 => crashed
  <2> SUFFICES ASSUME PropIn(b.bt, mut.name) # 0,
                      b.info[PropIn(b.bt, mut.name)].serial % 2 = 1
               PROVE  crashed
    OBVIOUS
  <2>1. PropIn(b.bt, mut.name) = PropIn(Area.bt, mut.name)
    BY <1>1, <1>2 DEF Quiet
  <2>2. PropIn(Area.bt, mut.name) \in DOMAIN Area.info
    BY <1>2, <2>1 DEF Holds
  <2>3. Area.info[PropIn(Area.bt, mut.name)].serial % 2 = 1
    BY <1>1, <2>1, <2>2 DEF Quiet
  <2>4. Odd(mut.name)
    BY <1>1, <2>1, <2>3 DEF Odd, find, Area, Context
  <2> QED
    BY <1>1, <1>2, <2>4 DEF OddIsWritten, Written
<1> QED
  BY <1>2, <1>3, <1>4, <1>5 DEF QuietStep, MutStep

\* It keeps the invariant.
LEMMA QuietStepKeeps ==
    ASSUME Inv, NEW b, QuietStep(b), reads' = reads
    PROVE  Inv'
<1>1. MutStep(b, value[mut.name])
  BY QuietStepIsStep DEF Inv
<1>2. ReadersGrow(b, value[mut.name])
  BY QuietReaders DEF Inv, QuietStep
<1>3. Areas' /\ Agree'
  BY <1>1, MutStepAreas DEF Inv
<1>4. OddIsWritten' /\ MutOK' /\ ToolOK' /\ Lasting'
  BY <1>1, MutStepRest DEF Inv
<1>5. ReadersOK'
  BY <1>1, <1>2, MutStepReaders DEF Inv
<1> QED
  BY <1>3, <1>4, <1>5 DEF Inv

\* Every other step of the mutation.
LEMMA MutStepKeeps ==
    ASSUME Inv, NEW b, NEW shown, MutStep(b, shown), ReadersGrow(b, shown)
    PROVE  Inv'
<1>3. Areas' /\ Agree'
  BY MutStepAreas DEF Inv
<1>4. OddIsWritten' /\ MutOK' /\ ToolOK' /\ Lasting'
  BY MutStepRest DEF Inv
<1>5. ReadersOK'
  BY MutStepReaders DEF Inv
<1> QED
  BY <1>3, <1>4, <1>5 DEF Inv

\* The start of a name is a name.
LEMMA StartOfName ==
    ASSUME NEW name \in Names_, NEW k \in 1 .. Len(name)
    PROVE  SubSeq(name, 1, k) \in Names_ /\ Len(SubSeq(name, 1, k)) = k
<1>1. name \in Seq(Seq(Int)) /\ Len(name) \in Nat
  BY DEF Names_
<1>2. SubSeq(name, 1, k) \in Seq(Seq(Int)) /\ Len(SubSeq(name, 1, k)) = k
  BY <1>1
<1>3. SubSeq(name, 1, k) # <<>>
  BY <1>2, EmptySeq
<1> QED
  BY <1>2, <1>3 DEF Names_

\* An object is made, or there is no room for it.
LEMMA AllocateKeeps == ASSUME Inv, Allocate, UNCHANGED <<world, contextOf, crashed>>,
                              UNCHANGED toolVars
                       PROVE  Inv'
<1> DEFINE at == find_prop_bt(Area.bt, mut.name)
           found == at.link = "none"
           long == found /\ Len(mut.v) >= PROP_VALUE_MAX
<1>1. mut.pc = "find" /\ mut # Idle /\ reads' = reads /\ value' = value /\ serial_' = serial_
  BY DEF Allocate, Idle
<1>2. /\ mut \in Mutations /\ mut.name \in Names_ /\ mut.name \in Names /\ Context # None /\ AreaOK(Area)
      /\ MutationOK(mut, Context # None, Area, value[mut.name])
  BY <1>1, MutFacts DEF Inv
<1>3. /\ mut.op = "add" /\ mut.ret = 0 /\ PropIn(Area.bt, mut.name) = 0
      /\ Len(mut.v) >= PROP_VALUE_MAX => is_read_only(mut.name)
  BY <1>1, <1>2 DEF MutationOK
<1>4. /\ mut = [pc |-> mut.pc, op |-> mut.op, name |-> mut.name, v |-> mut.v, pi |-> mut.pi,
                new |-> mut.new, i |-> mut.i, ret |-> mut.ret]
      /\ mut.v \in Texts /\ mut.pi \in Nat /\ mut.new \in Nat /\ mut.i \in Nat
  BY <1>2 DEF Mutations
<1>5. Area.bytes_used_ \in Nat /\ AreaSize \in Nat /\ LinksOK(Area.bt) /\ PROP_VALUE_MAX \in Nat
      /\ Len(mut.v) \in Nat /\ serial_ \in Nat
  BY <1>2, <1>4, AreaAssumption DEF AreaOK, TrieOK, Texts, Inv, Areas
<1>6. Ends(Area.bt, mut.name, at)
  BY <1>2, <1>5, FindEnds
<1>7. ~(found /\ Area.bt[at.node].prop # 0)
  BY <1>3 DEF PropIn
<1>8. CASE Area.bytes_used_ + 1 <= AreaSize /\ (long => Area.bytes_used_ + 2 <= AreaSize)
  <2> DEFINE b == IF found THEN new_prop_info(Area, mut.name, mut.v)
                  ELSE new_prop_bt(Area, SubSeq(mut.name, 1, at.depth))
  <2>1. area' = [area EXCEPT ![Context] = b]
        /\ mut' = [mut EXCEPT !.pc = "link", !.new = Area.bytes_used_]
    BY <1>7, <1>8 DEF Allocate, SetArea, allocate_obj
  <2>2. Quiet(Area, b) /\ ToLink([mut EXCEPT !.pc = "link", !.new = Area.bytes_used_], b)
    <3> DEFINE m == [mut EXCEPT !.pc = "link", !.new = Area.bytes_used_]
    <3>1. m.name = mut.name /\ m.v = mut.v /\ m.new = Area.bytes_used_
      BY <1>4
    <3>2. CASE found
      <4> DEFINE k == IF Len(mut.v) >= PROP_VALUE_MAX THEN 2 ELSE 1
      <4>1. b = new_prop_info(Area, mut.name, mut.v) /\ k \in {1, 2} /\ Area.bytes_used_ + k <= AreaSize
        BY <3>2, <1>5, <1>8
      <4> HIDE DEF b, m
      <4>2. /\ Quiet(Area, b) /\ b.bt = Area.bt
            /\ Area.bytes_used_ \in DOMAIN b.info
            /\ b.info[Area.bytes_used_] = prop_info(mut.name, mut.v)
        BY <4>1, <1>2, <1>3, <1>4, AreaMakeInfo
      <4> QED
        BY <3>1, <3>2, <4>2 DEF ToLink
    <3>3. CASE ~found
      <4> DEFINE path == SubSeq(mut.name, 1, at.depth)
      <4>1. at.depth \in 1 .. Len(mut.name) /\ at.node \in DOMAIN Area.bt
        BY <1>6 DEF Ends
      <4>2. path \in Names_
        BY <4>1, <1>2, StartOfName
      <4>3. b = new_prop_bt(Area, path)
        BY <3>3
      <4> HIDE DEF b, m, path
      <4>4. /\ Area.bytes_used_ \in DOMAIN b.bt /\ ~Linked(b.bt, Area.bytes_used_)
            /\ b.bt[Area.bytes_used_] = prop_bt(path)
            /\ \A o \in DOMAIN Area.bt : o < Area.bytes_used_
            /\ \A n \in Names_ : find_prop_bt(b.bt, n) = find_prop_bt(Area.bt, n)
        BY <4>2, <4>3, <1>2, <1>8, AreaMakeNode
      <4>5. Quiet(Area, b)
        BY <4>2, <4>3, <1>2, <1>8, NodeIsQuiet
      <4>6. find_prop_bt(b.bt, m.name) = at /\ Area.bytes_used_ > at.node
        BY <3>1, <4>1, <4>4, <1>2, <1>5 DEF LinksOK
      <4> QED
        BY <3>1, <3>3, <4>4, <4>5, <4>6 DEF ToLink, path
    <3> QED
      BY <3>2, <3>3
  <2> HIDE DEF b
  <2>3. PropIn(b.bt, mut.name) = 0
    BY <2>2, <1>2, <1>3 DEF Quiet
  <2>4. /\ mut' \in Mutations /\ mut' # Idle /\ mut'.name = mut.name /\ mut'.op = "add"
        /\ mut'.v = mut.v /\ mut'.pc = "link" /\ mut'.ret = 0
    BY <2>1, <1>3, <1>4, <1>5, <1>2 DEF Mutations, Idle
  <2>5. MutationOK(mut', TRUE, b, value[mut.name])
    BY <2>1, <2>2, <2>3, <2>4, <1>3 DEF MutationOK, Outcome
  <2>6. QuietStep(b)
    BY <2>1, <2>2, <2>4, <2>5, <1>1, <1>2, <1>3, <1>5 DEF QuietStep
  <2> QED
    BY <2>6, <1>1, QuietStepKeeps
<1>9. CASE ~(Area.bytes_used_ + 1 <= AreaSize /\ (long => Area.bytes_used_ + 2 <= AreaSize))
  <2> DEFINE k == IF Area.bytes_used_ + 1 <= AreaSize THEN 1 ELSE 0
             b == [Area EXCEPT !.bytes_used_ = @ + k]
  <2>1. area' = [area EXCEPT ![Context] = b] /\ mut' = [mut EXCEPT !.pc = "return", !.ret = -1]
    BY <1>7, <1>9 DEF Allocate, SetArea, allocate_obj, Return
  <2>2. Area.bytes_used_ + k <= AreaSize /\ k \in Nat
    BY <1>2, <1>5 DEF AreaOK
  <2> HIDE DEF k
  <2>3. Quiet(Area, b)
    BY <2>2, <1>2, AreaWaste
  <2> HIDE DEF b
  <2>4. /\ mut' \in Mutations /\ mut' # Idle /\ mut'.name = mut.name /\ mut'.op = "add"
        /\ mut'.v = mut.v /\ mut'.pc = "return" /\ mut'.ret = -1
    BY <2>1, <1>3, <1>4, <1>2 DEF Mutations, Idle
  <2>5. MutationOK(mut', TRUE, b, value[mut.name])
    BY <2>4 DEF MutationOK, Outcome
  <2>6. QuietStep(b)
    BY <2>1, <2>3, <2>4, <2>5, <1>1, <1>2, <1>3, <1>5 DEF QuietStep
  <2> QED
    BY <2>6, <1>1, QuietStepKeeps
<1> QED
  BY <1>8, <1>9

\* Where the property changes, its readers are told what they may see now.
LEMMA BecomesGrows ==
    ASSUME ReadersOK, mut.name \in Names, NEW shown \in Shown, Becomes(shown)
    PROVE  /\ reads' \in [Readers -> ReaderRecords]
           /\ \A r \in Readers :
                /\ Grows(reads[r], reads'[r]) /\ reads'[r].inPlace = reads[r].inPlace
                /\ reads[r].name = mut.name => shown[reads[r].api] \in reads'[r].could
<1>1. ASSUME NEW r \in Readers
      PROVE  /\ reads'[r] \in ReaderRecords
             /\ Grows(reads[r], reads'[r]) /\ reads'[r].inPlace = reads[r].inPlace
             /\ reads[r].name = mut.name => shown[reads[r].api] \in reads'[r].could
  <2> DEFINE rd == reads[r]
  <2>1. rd \in ReaderRecords
    BY DEF ReadersOK
  <2>2. reads'[r] = IF rd.name = mut.name THEN [rd EXCEPT !.could = @ \cup {shown[rd.api]}] ELSE rd
    BY DEF Becomes
  <2>3. shown[rd.api] \in Opt
    BY <2>1 DEF ReaderRecords, Shown
  <2> HIDE DEF rd
  <2>4. rd.could \in SUBSET Opt
    BY <2>1 DEF ReaderRecords
  <2>5. CASE rd.name = mut.name
    <3> DEFINE new == [rd EXCEPT !.could = rd.could \cup {shown[rd.api]}]
    <3>1. reads'[r] = new
      BY <2>1, <2>2, <2>5
    <3>2. new \in ReaderRecords
      BY <2>1, <2>3, <2>4 DEF ReaderRecords
    <3>3. Grows(rd, new) /\ new.inPlace = rd.inPlace /\ shown[rd.api] \in new.could
      BY <2>1 DEF ReaderRecords, Grows
    <3> QED
      BY <3>1, <3>2, <3>3 DEF rd
  <2>6. CASE rd.name # mut.name
    <3>1. reads'[r] = rd
      BY <2>2, <2>6
    <3> QED
      BY <2>1, <2>6, <3>1 DEF rd, Grows
  <2> QED
    BY <2>5, <2>6
<1>2. reads' = [r \in Readers |-> reads'[r]]
  BY DEF Becomes
<1> QED
  BY <1>1, <1>2

\* The readers of a property that is linked or unlinked.
LEMMA BecomesReaders ==
    ASSUME Areas, ReadersOK, mut.name \in Names, NEW shown \in Shown, Becomes(shown), NEW b,
           b.info = Area.info, mut'.pc \notin {"copy", "clean"}
    PROVE  ReadersGrow(b, shown)
<1>1. /\ reads' \in [Readers -> ReaderRecords]
      /\ \A r \in Readers :
           /\ Grows(reads[r], reads'[r])
           /\ reads[r].name = mut.name => shown[reads[r].api] \in reads'[r].could
  BY BecomesGrows
<1>2. ASSUME NEW r \in Readers, reads[r].name = mut.name, reads[r].pc \in Reading
      PROVE  Reads(reads'[r], b)
  <2>1. Reads(reads[r], Area) /\ reads[r] \in ReaderRecords /\ reads'[r] \in ReaderRecords
    BY <1>1, <1>2 DEF ReadersOK, ReaderOK, TheArea, Area, Context
  <2>2. reads[r].pi # 0 => reads[r].pi \in DOMAIN b.info /\ b.info[reads[r].pi] = Area.info[reads[r].pi]
    BY <2>1 DEF Reads
  <2> QED
    BY <1>1, <2>1, <2>2, ReadsKept
<1> QED
  BY <1>1, <1>2 DEF ReadersGrow

\* What shows a text is shown.
LEMMA ShowsIsShown == \A v \in Texts : /\ Shows(v) \in Shown /\ Shows(v).ReadCallback = v
                                       /\ Shows(v).ReadCallback \in Seq(Int) /\ Shows(v).Read \in Seq(Int)
<1> TAKE v \in Texts
<1>1. v \in Seq(Int) /\ kLongLegacyError \in Seq(Int)
  BY AreaAssumption DEF Texts
<1> QED
  BY <1>1 DEF Shows, Shown, Opt, Told

\* A link is stored, or the property.
LEMMA LinkKeeps == ASSUME Inv, Link, UNCHANGED <<world, contextOf, crashed>>, UNCHANGED toolVars
                   PROVE  Inv'
<1> DEFINE at == find_prop_bt(Area.bt, mut.name)
<1>1. mut.pc = "link" /\ mut # Idle /\ serial_' = serial_ /\ serial_ \in Nat
  BY DEF Link, Idle, Inv, Areas
<1>2. /\ mut \in Mutations /\ mut.name \in Names_ /\ mut.name \in Names /\ Context # None /\ AreaOK(Area)
      /\ MutationOK(mut, Context # None, Area, value[mut.name])
  BY <1>1, MutFacts DEF Inv
<1>3. /\ mut.op = "add" /\ mut.ret = 0 /\ PropIn(Area.bt, mut.name) = 0 /\ ToLink(mut, Area)
      /\ Len(mut.v) >= PROP_VALUE_MAX => is_read_only(mut.name)
  BY <1>1, <1>2 DEF MutationOK
<1>4. /\ mut = [pc |-> mut.pc, op |-> mut.op, name |-> mut.name, v |-> mut.v, pi |-> mut.pi,
                new |-> mut.new, i |-> mut.i, ret |-> mut.ret]
      /\ mut.v \in Texts /\ mut.pi \in Nat /\ mut.new \in Nat /\ mut.i \in Nat
  BY <1>2 DEF Mutations
<1>5. LinksOK(Area.bt) /\ Area = [bt |-> Area.bt, info |-> Area.info, bytes_used_ |-> Area.bytes_used_]
      /\ DOMAIN Area.info \subseteq Nat \ {0}
  BY <1>2 DEF AreaOK, TrieOK
<1>6. Ends(Area.bt, mut.name, at)
  BY <1>2, <1>5, FindEnds
<1>7. CASE at.link = "none"
  <2> DEFINE b == [Area EXCEPT !.bt[at.node].prop = mut.new]
  <2>1. area' = [area EXCEPT ![Context] = b] /\ Becomes(Shows(mut.v)) /\ mut' = [mut EXCEPT !.pc = "bump"]
    BY <1>7 DEF Link, SetArea, Goto
  <2>2. b.bt = [Area.bt EXCEPT ![at.node].prop = mut.new]
        /\ b = [bt |-> b.bt, info |-> Area.info, bytes_used_ |-> Area.bytes_used_]
    BY <1>5
  <2> HIDE DEF b
  <2>3. mut.new \in DOMAIN Area.info /\ Area.info[mut.new] = prop_info(mut.name, mut.v) /\ mut.new # 0
    BY <1>3, <1>5, <1>7 DEF ToLink
  <2>4. /\ prop_info(mut.name, mut.v).name = mut.name /\ prop_info(mut.name, mut.v).serial = 0
        /\ ValueOf(prop_info(mut.name, mut.v)) = Shows(mut.v)
        /\ prop_info(mut.name, mut.v).long_value = mut.v
    BY <1>2, <1>3, <1>4, NewInfo
  <2>5. Stored(Area, b, mut.name) /\ b.info = Area.info /\ PropIn(b.bt, mut.name) = mut.new
    <3>1. Area.info[mut.new].name = mut.name
      BY <2>3, <2>4
    <3> QED
      BY <3>1, <2>2, <2>3, <1>2, <1>7, AreaProp
  <2>6. /\ mut' \in Mutations /\ mut' # Idle /\ mut'.name = mut.name /\ mut'.op = "add"
        /\ mut'.v = mut.v /\ mut'.pc = "bump" /\ mut'.ret = 0
    BY <2>1, <1>3, <1>4, <1>2 DEF Mutations, Idle
  <2>7. MutationOK(mut', TRUE, b, Shows(mut.v))
    BY <2>6, <1>3 DEF MutationOK, Outcome
  <2>8. Shows(mut.v) \in Shown /\ Holds(b, mut.name, Shows(mut.v))
    <3>1. /\ Shows(mut.v) \in Shown /\ Shows(mut.v).ReadCallback = mut.v
          /\ Shows(mut.v).ReadCallback \in Seq(Int) /\ Shows(mut.v).Read \in Seq(Int)
      BY <1>4, ShowsIsShown
    <3>2. Shows(mut.v).ReadCallback # Undefined
      BY <3>1, AreaAssumption
    <3> QED
      BY <3>1, <3>2, <2>3, <2>4, <2>5 DEF Holds
  <2>9. MutStep(b, Shows(mut.v))
    <3>1. b.info[PropIn(b.bt, mut.name)].serial = 0
      BY <2>3, <2>4, <2>5
    <3>2. b.info[PropIn(b.bt, mut.name)].serial % 2 # 1
      BY <3>1
    <3>3. value' = [value EXCEPT ![mut.name] = Shows(mut.v)]
      BY <2>1 DEF Becomes
    <3> QED
      BY <3>2, <3>3, <2>1, <2>5, <2>6, <2>7, <2>8, <1>1, <1>2, <1>3 DEF MutStep
  <2>10. ReadersGrow(b, Shows(mut.v))
    BY <2>1, <2>5, <2>6, <2>8, <1>2, BecomesReaders DEF Inv
  <2> QED
    BY <2>9, <2>10, MutStepKeeps
<1>8. CASE at.link # "none"
  <2> DEFINE b == [Area EXCEPT !.bt[at.node].link[at.link] = mut.new]
  <2>1. area' = [area EXCEPT ![Context] = b] /\ value' = value /\ reads' = reads
        /\ mut' = [mut EXCEPT !.pc = "find"]
    BY <1>8 DEF Link, SetArea, Goto
  <2>2. b.bt = [Area.bt EXCEPT ![at.node].link[at.link] = mut.new]
        /\ b = [bt |-> b.bt, info |-> Area.info, bytes_used_ |-> Area.bytes_used_]
    BY <1>5
  <2> HIDE DEF b
  <2>3. /\ mut.new \in DOMAIN Area.bt /\ mut.new > at.node /\ ~Linked(Area.bt, mut.new)
        /\ Area.bt[mut.new] = prop_bt(SubSeq(mut.name, 1, at.depth))
    BY <1>3, <1>8 DEF ToLink
  <2>4. mut.new # 0 /\ at.link \in Links
    BY <2>3, <1>6, <1>8 DEF Ends, Linked
  <2>5. Publishes(Area.bt, mut.name, mut.new, b.bt)
    BY <2>2, <2>3, <2>4, <1>2 DEF Publishes
  <2>6. Quiet(Area, b)
    BY <2>2, <2>5, <1>2, AreaLink
  <2>7. /\ mut' \in Mutations /\ mut' # Idle /\ mut'.name = mut.name /\ mut'.op = "add"
        /\ mut'.v = mut.v /\ mut'.pc = "find" /\ mut'.ret = 0
    BY <2>1, <1>3, <1>4, <1>2 DEF Mutations, Idle
  <2>8. PropIn(b.bt, mut.name) = 0
    BY <2>6, <1>2, <1>3 DEF Quiet
  <2>9. MutationOK(mut', TRUE, b, value[mut.name])
    BY <2>7, <2>8, <1>3 DEF MutationOK, Outcome
  <2>10. QuietStep(b)
    BY <2>1, <2>6, <2>7, <2>9, <1>1, <1>2, <1>3 DEF QuietStep
  <2> QED
    BY <2>10, <2>1, QuietStepKeeps
<1> QED
  BY <1>7, <1>8

\* The property is unlinked, or there was none.
LEMMA UnlinkKeeps == ASSUME Inv, Unlink, UNCHANGED <<world, contextOf, crashed>>, UNCHANGED toolVars
                     PROVE  Inv'
<1> DEFINE at == find_prop_bt(Area.bt, mut.name)
<1>1. mut.pc = "unlink" /\ mut # Idle /\ serial_' = serial_ /\ serial_ \in Nat
  BY DEF Unlink, Idle, Inv, Areas
<1>2. /\ mut \in Mutations /\ mut.name \in Names_ /\ mut.name \in Names /\ Context # None /\ AreaOK(Area)
      /\ MutationOK(mut, Context # None, Area, value[mut.name])
      /\ area = [area EXCEPT ![Context] = Area]
  BY <1>1, MutFacts DEF Inv
<1>3. mut.op = "delete" /\ mut.ret = 0
  BY <1>1, <1>2 DEF MutationOK
<1>4. /\ mut = [pc |-> mut.pc, op |-> mut.op, name |-> mut.name, v |-> mut.v, pi |-> mut.pi,
                new |-> mut.new, i |-> mut.i, ret |-> mut.ret]
      /\ mut.v \in Texts /\ mut.pi \in Nat /\ mut.new \in Nat /\ mut.i \in Nat
  BY <1>2 DEF Mutations
<1>5. Area = [bt |-> Area.bt, info |-> Area.info, bytes_used_ |-> Area.bytes_used_]
  BY <1>2 DEF AreaOK
<1>6. CASE at.link = "none"
  <2> DEFINE b == [Area EXCEPT !.bt[at.node].prop = 0]
  <2>1. area' = [area EXCEPT ![Context] = b] /\ Becomes(Gone) /\ mut' = [mut EXCEPT !.pc = "bump"]
    BY <1>6 DEF Unlink, SetArea, Goto
  <2>2. b.bt = [Area.bt EXCEPT ![at.node].prop = 0]
        /\ b = [bt |-> b.bt, info |-> Area.info, bytes_used_ |-> Area.bytes_used_]
    BY <1>5
  <2> HIDE DEF b
  <2>3. Stored(Area, b, mut.name) /\ b.info = Area.info /\ PropIn(b.bt, mut.name) = 0
    BY <2>2, <1>2, <1>6, AreaProp
  <2>4. /\ mut' \in Mutations /\ mut' # Idle /\ mut'.name = mut.name /\ mut'.op = "delete"
        /\ mut'.v = mut.v /\ mut'.pc = "bump" /\ mut'.ret = 0
    BY <2>1, <1>3, <1>4, <1>2 DEF Mutations, Idle
  <2>5. MutationOK(mut', TRUE, b, Gone)
    BY <2>3, <2>4 DEF MutationOK, Outcome
  <2>6. Gone \in Shown /\ Holds(b, mut.name, Gone)
    BY <2>3 DEF Holds, Gone, Shown, Opt
  <2>7. MutStep(b, Gone)
    BY <2>1, <2>3, <2>4, <2>5, <2>6, <1>1, <1>2, <1>3 DEF MutStep, Becomes
  <2>8. ReadersGrow(b, Gone)
    BY <2>1, <2>3, <2>4, <2>6, <1>2, BecomesReaders DEF Inv
  <2> QED
    BY <2>7, <2>8, MutStepKeeps
<1>7. CASE at.link # "none"
  <2>1. area' = area /\ value' = value /\ reads' = reads
        /\ mut' = [mut EXCEPT !.pc = "return", !.ret = -1]
    BY <1>7 DEF Unlink, Return
  <2>2. /\ mut' \in Mutations /\ mut' # Idle /\ mut'.name = mut.name /\ mut'.op = "delete"
        /\ mut'.v = mut.v /\ mut'.pc = "return" /\ mut'.ret = -1
    BY <2>1, <1>3, <1>4, <1>2 DEF Mutations, Idle
  <2>3. PropIn(Area.bt, mut.name) = 0
    BY <1>7 DEF PropIn
  <2>4. MutationOK(mut', TRUE, Area, value[mut.name])
    BY <2>2, <2>3 DEF MutationOK, Outcome
  <2>5. QuietStep(Area)
    BY <2>1, <2>2, <2>4, <1>1, <1>2, <1>3, QuietItself DEF QuietStep
  <2> QED
    BY <2>5, <2>1, QuietStepKeeps
<1> QED
  BY <1>6, <1>7

\* An info is written in place: it shows what it should whenever its serial is even.
WritesInfo(a, b, pi, shown) ==
    /\ AreaOK(a) /\ AreaOK(b) /\ pi \in DOMAIN a.info /\ DOMAIN b.info = DOMAIN a.info
    /\ \A o \in DOMAIN a.info : o # pi => b.info[o] = a.info[o]
    /\ b.info[pi].name = a.info[pi].name
    /\ b.info[pi].is_long = a.info[pi].is_long
    /\ b.info[pi].long_value \in {a.info[pi].long_value, shown.ReadCallback}
    /\ b.info[pi].serial % 2 = 1 \/ b.info[pi].serial > a.info[pi].serial
    /\ b.info[pi].serial >= a.info[pi].serial
    /\ b.info[pi].serial % 2 = 0 => ValueOf(b.info[pi]) = shown

\* A reader of such an area.
LEMMA ReadsWritten ==
    ASSUME NEW a, NEW b, NEW pi, NEW shown, WritesInfo(a, b, pi, shown),
           NEW rd \in ReaderRecords, NEW new \in ReaderRecords, Grows(rd, new), Reads(rd, a),
           new.inPlace, shown[rd.api] \in new.could
    PROVE  Reads(new, b)
<1>1. CASE rd.pi = pi
  <2>1. InfoOK(a.info[rd.pi]) /\ InfoOK(b.info[rd.pi]) /\ rd.pi \in DOMAIN b.info /\ rd.pi # 0
    BY <1>1 DEF AreaOK, WritesInfo
  <2>2. b.info[rd.pi].serial % 2 = 0 => ValueOf(b.info[rd.pi])[rd.api] \in new.could
    BY <1>1 DEF WritesInfo
  <2>3. /\ b.info[rd.pi].name = a.info[rd.pi].name /\ b.info[rd.pi].is_long = a.info[rd.pi].is_long
        /\ \/ b.info[rd.pi].long_value = a.info[rd.pi].long_value
           \/ rd.api = "ReadCallback" => b.info[rd.pi].long_value \in new.could
        /\ b.info[rd.pi].serial % 2 = 1 \/ b.info[rd.pi].serial > a.info[rd.pi].serial
        /\ b.info[rd.pi].serial >= a.info[rd.pi].serial
    BY <1>1 DEF WritesInfo
  <2> QED
    BY <2>1, <2>2, <2>3, ReadsChanged
<1>2. CASE rd.pi # pi
  <2>1. rd.pi # 0 => rd.pi \in DOMAIN a.info
    BY DEF Reads
  <2>2. rd.pi # 0 => rd.pi \in DOMAIN b.info /\ b.info[rd.pi] = a.info[rd.pi]
    BY <1>2, <2>1 DEF WritesInfo
  <2> QED
    BY <2>2, ReadsKept
<1> QED
  BY <1>1, <1>2

\* The readers while an info is written.
LEMMA WrittenReaders ==
    ASSUME ReadersOK, NEW b, NEW shown, WritesInfo(Area, b, mut.pi, shown),
           reads' \in [Readers -> ReaderRecords],
           \A r \in Readers :
             /\ Grows(reads[r], reads'[r])
             /\ reads[r].name = mut.name =>
                  /\ reads[r].pc # "start" => shown[reads[r].api] \in reads'[r].could
                  /\ reads'[r].inPlace
    PROVE  ReadersGrow(b, shown)
<1>1. ASSUME NEW r \in Readers, reads[r].name = mut.name, reads[r].pc \in Reading
      PROVE  Reads(reads'[r], b)
  <2>1. Reads(reads[r], Area) /\ reads[r] \in ReaderRecords
    BY <1>1 DEF ReadersOK, ReaderOK, TheArea, Area, Context
  <2>2. /\ reads'[r] \in ReaderRecords /\ Grows(reads[r], reads'[r])
        /\ reads'[r].inPlace /\ shown[reads[r].api] \in reads'[r].could
    BY <1>1 DEF Reading
  <2> QED
    BY <2>1, <2>2, ReadsWritten
<1> QED
  BY <1>1 DEF ReadersGrow

\* What an update in place works on.
LEMMA UpdateFacts ==
    ASSUME Inv, mut # Idle, mut.pc \in {"dirty", "copy", "clean", "wake"}
    PROVE  /\ mut \in Mutations /\ mut.name \in Names_ /\ mut.name \in Names /\ Context # None
           /\ AreaOK(Area) /\ MutationOK(mut, Context # None, Area, value[mut.name])
           /\ mut.op = "update" /\ mut.ret = 0 /\ Len(mut.v) < PROP_VALUE_MAX /\ mut.pi # 0
           /\ mut.v \in Texts /\ Len(mut.v) \in Nat /\ mut.i \in Nat
           /\ mut.pi = PropIn(Area.bt, mut.name) /\ mut.pi \in DOMAIN Area.info
           /\ Area.info[mut.pi].name = mut.name /\ InfoOK(Area.info[mut.pi])
           /\ Area.info[mut.pi] \in Info
           /\ Holds(Area, mut.name, value[mut.name]) /\ value[mut.name] \in Shown
           /\ Area = [bt |-> Area.bt, info |-> Area.info, bytes_used_ |-> Area.bytes_used_]
           /\ mut = [pc |-> mut.pc, op |-> mut.op, name |-> mut.name, v |-> mut.v, pi |-> mut.pi,
                     new |-> mut.new, i |-> mut.i, ret |-> mut.ret]
<1>1. /\ mut \in Mutations /\ mut.name \in Names_ /\ mut.name \in Names /\ Context # None /\ AreaOK(Area)
      /\ MutationOK(mut, Context # None, Area, value[mut.name])
      /\ Holds(Area, mut.name, value[mut.name]) /\ value[mut.name] \in Shown
  BY MutFacts DEF Inv
<1>2. /\ mut.op = "update" /\ mut.ret = 0
  BY <1>1 DEF MutationOK
<1>3. Len(mut.v) < PROP_VALUE_MAX /\ mut.pi # 0 /\ mut.pi = PropIn(Area.bt, mut.name)
  BY <1>1, <1>2 DEF MutationOK
<1>4. mut.pi \in DOMAIN Area.info /\ Area.info[mut.pi].name = mut.name
  BY <1>1, <1>3, PropIsInfo
<1>5. InfoOK(Area.info[mut.pi]) /\ Area.info[mut.pi] \in Info
      /\ Area = [bt |-> Area.bt, info |-> Area.info, bytes_used_ |-> Area.bytes_used_]
  BY <1>1, <1>4 DEF AreaOK, InfoOK
<1>6. /\ mut.v \in Texts /\ Len(mut.v) \in Nat /\ mut.i \in Nat
      /\ mut = [pc |-> mut.pc, op |-> mut.op, name |-> mut.name, v |-> mut.v, pi |-> mut.pi,
                new |-> mut.new, i |-> mut.i, ret |-> mut.ret]
  BY <1>1 DEF Mutations, Texts
<1> QED
  BY <1>1, <1>2, <1>3, <1>4, <1>5, <1>6

\* The serial becomes odd, and the readers of the property know it is written in place.
LEMMA DirtyKeeps == ASSUME Inv, Dirty, UNCHANGED <<world, contextOf, crashed>>, UNCHANGED toolVars
                    PROVE  Inv'
<1>1. mut.pc = "dirty" /\ mut # Idle /\ serial_' = serial_ /\ serial_ \in Nat /\ value' = value
      /\ mut' = [mut EXCEPT !.pc = "copy"]
  BY DEF Dirty, Idle, Inv, Areas, Goto
<1>2. /\ mut \in Mutations /\ mut.name \in Names_ /\ mut.name \in Names /\ Context # None
      /\ AreaOK(Area) /\ mut.op = "update" /\ mut.ret = 0
      /\ Len(mut.v) < PROP_VALUE_MAX /\ mut.pi # 0
      /\ mut.v \in Texts /\ Len(mut.v) \in Nat
      /\ mut.pi = PropIn(Area.bt, mut.name) /\ mut.pi \in DOMAIN Area.info
      /\ Area.info[mut.pi].name = mut.name /\ InfoOK(Area.info[mut.pi])
      /\ Holds(Area, mut.name, value[mut.name]) /\ value[mut.name] \in Shown
      /\ Area = [bt |-> Area.bt, info |-> Area.info, bytes_used_ |-> Area.bytes_used_]
  BY <1>1, UpdateFacts
<1> DEFINE info == Area.info[mut.pi]
           serial == IF info.serial % 2 = 0 THEN info.serial + 1 ELSE info.serial
           next == [info EXCEPT !.serial = serial]
           b == [bt |-> Area.bt, info |-> [Area.info EXCEPT ![mut.pi] = next],
                 bytes_used_ |-> Area.bytes_used_]
<1>3. info \in Info /\ info.serial \in Nat
  BY <1>2 DEF InfoOK, Info
<1>s. serial \in Nat /\ serial % 2 = 1 /\ serial >= info.serial
  BY <1>3
<1>4. area' = [area EXCEPT ![Context] = b]
  <2>1. area' = [area EXCEPT ![Context] =
                   [Area EXCEPT !.info[mut.pi].serial = IF @ % 2 = 0 THEN @ + 1 ELSE @]]
    BY DEF Dirty, SetArea
  <2>2. [Area EXCEPT !.info[mut.pi].serial = IF @ % 2 = 0 THEN @ + 1 ELSE @]
          = [Area EXCEPT !.info = [Area.info EXCEPT ![mut.pi] = next]]
    BY <1>2
  <2>3. [Area EXCEPT !.info = [Area.info EXCEPT ![mut.pi] = next]] = b
    <3> HIDE DEF next
    <3> QED BY <1>2
  <2> QED
    BY <2>1, <2>2, <2>3
<1>5. /\ next \in Info /\ next.name = info.name /\ next.len = info.len /\ next.value = info.value
      /\ next.is_long = info.is_long /\ next.long_value = info.long_value
      /\ next.serial = serial
  <2> HIDE DEF info, serial
  <2> QED BY <1>3, <1>s DEF Info
<1>6. InfoOK(next)
  <2> HIDE DEF next, serial
  <2> QED BY <1>2, <1>5, <1>s DEF InfoOK
<1>7. /\ Stored(Area, b, mut.name) /\ b.bt = Area.bt /\ DOMAIN b.info = DOMAIN Area.info
      /\ b.info[mut.pi] = next
      /\ \A o \in DOMAIN Area.info : o # mut.pi => b.info[o] = Area.info[o]
  <2>1. next.name = mut.name /\ next.name = Area.info[mut.pi].name
    BY <1>2, <1>5
  <2>2. b = [bt |-> Area.bt, info |-> [Area.info EXCEPT ![mut.pi] = next],
             bytes_used_ |-> Area.bytes_used_]
    OBVIOUS
  <2> HIDE DEF next, b
  <2> QED
    BY <1>2, <1>6, <2>1, <2>2, AreaInfo
<1> HIDE DEF b, next, serial
<1>8. /\ mut' \in Mutations /\ mut' # Idle /\ mut'.name = mut.name /\ mut'.op = "update"
      /\ mut'.v = mut.v /\ mut'.pc = "copy" /\ mut'.ret = 0 /\ mut'.pi = mut.pi /\ mut'.i = mut.i
  BY <1>1, <1>2 DEF Mutations, Idle
<1>9. MutationOK(mut', TRUE, b, value[mut.name])
  <2>1. mut.i = 1
    BY <1>1, UpdateFacts DEF MutationOK
  <2>2. Copied(mut', b.info[mut'.pi])
    BY <2>1, <1>2, <1>5, <1>7, <1>8, <1>s DEF Copied
  <2> QED
    BY <2>2, <1>2, <1>7, <1>8 DEF MutationOK, Outcome
<1>10. Holds(b, mut.name, value[mut.name])
  BY <1>2, <1>5, <1>7, <1>s DEF Holds
<1>11. MutStep(b, value[mut.name])
  <2>1. value' = [value EXCEPT ![mut.name] = value[mut.name]]
    BY <1>1, <1>2 DEF Inv, Areas
  <2> QED
    BY <2>1, <1>1, <1>2, <1>4, <1>7, <1>8, <1>9, <1>10 DEF MutStep
<1>12. WritesInfo(Area, b, mut.pi, value[mut.name])
  BY <1>2, <1>3, <1>5, <1>7, <1>s DEF WritesInfo, Stored
<1>13. ReadersGrow(b, value[mut.name])
  <2>1. ASSUME NEW r \in Readers
        PROVE  /\ reads'[r] \in ReaderRecords /\ Grows(reads[r], reads'[r])
               /\ reads[r].name = mut.name =>
                    /\ reads[r].pc # "start" => value[mut.name][reads[r].api] \in reads'[r].could
                    /\ reads'[r].inPlace
    <3>1. reads[r] \in ReaderRecords
      BY DEF Inv, ReadersOK
    <3>2. reads[r].pc # "start" => value[reads[r].name][reads[r].api] \in reads[r].could
      BY DEF Inv, ReadersOK, ReaderOK
    <3>3. reads'[r] = IF reads[r].name = mut.name THEN [reads[r] EXCEPT !.inPlace = TRUE] ELSE reads[r]
      BY DEF Dirty
    <3> DEFINE rd == reads[r]
               new == reads'[r]
    <3> HIDE DEF rd
    <3>4. rd \in ReaderRecords /\ new = IF rd.name = mut.name THEN [rd EXCEPT !.inPlace = TRUE] ELSE rd
      BY <3>1, <3>3 DEF rd
    <3> HIDE DEF new
    <3>5. new \in ReaderRecords /\ Grows(rd, new) /\ (rd.name = mut.name => new.inPlace)
          /\ new.could = rd.could
      BY <3>4 DEF ReaderRecords, Grows
    <3> QED
      BY <3>2, <3>5 DEF rd, new
  <2>2. reads' \in [Readers -> ReaderRecords]
    BY <2>1 DEF Dirty
  <2> QED
    BY <2>1, <2>2, <1>12, WrittenReaders DEF Inv
<1> QED
  BY <1>11, <1>13, MutStepKeeps

CopiesCell(info, v, i, cell, lv, next) ==
    /\ InfoOK(info) /\ v \in Texts /\ Len(v) < PROP_VALUE_MAX
    /\ i \in 1 .. Len(v) + 1 /\ info.serial % 2 = 1
    /\ cell = (IF i <= Len(v) THEN v[i] ELSE NUL) /\ lv \in Told
    /\ next = [info EXCEPT !.value[i] = cell, !.long_value = lv]
CellCopied(info, i, cell, lv, next) ==
    /\ InfoOK(next) /\ next.name = info.name /\ next.is_long = info.is_long
    /\ next.long_value = lv /\ next.serial = info.serial
    /\ next.value[i] = cell /\ \A j \in 1 .. PROP_VALUE_MAX : j # i => next.value[j] = info.value[j]

\* A character is copied; the value keeps its last cell, and stays odd.
LEMMA CopyInfo ==
    ASSUME NEW info, NEW v, NEW i, NEW cell, NEW lv, NEW next, CopiesCell(info, v, i, cell, lv, next)
    PROVE  CellCopied(info, i, cell, lv, next)
<1>0. /\ InfoOK(info) /\ v \in Texts /\ Len(v) < PROP_VALUE_MAX
      /\ i \in 1 .. Len(v) + 1 /\ info.serial % 2 = 1
      /\ cell = (IF i <= Len(v) THEN v[i] ELSE NUL) /\ lv \in Told
      /\ next = [info EXCEPT !.value[i] = cell, !.long_value = lv]
  BY DEF CopiesCell
<1>1. info \in Info /\ info.value \in [1 .. PROP_VALUE_MAX -> Int] /\ info.len < PROP_VALUE_MAX
      /\ info.value[PROP_VALUE_MAX] = NUL /\ (info.is_long => is_read_only(info.name))
  BY <1>0 DEF InfoOK, Info
<1>2. PROP_VALUE_MAX \in Nat /\ Len(v) \in Nat /\ i \in 1 .. PROP_VALUE_MAX /\ v \in Seq(Nat)
  BY <1>0, AreaAssumption DEF Texts
<1>3. cell \in Int /\ (i = PROP_VALUE_MAX => cell = NUL)
  BY <1>0, <1>2 DEF NUL
<1> DEFINE cells == [info.value EXCEPT ![i] = cell]
<1>4. cells \in [1 .. PROP_VALUE_MAX -> Int] /\ cells[i] = cell /\ cells[PROP_VALUE_MAX] = NUL
      /\ \A j \in 1 .. PROP_VALUE_MAX : j # i => cells[j] = info.value[j]
  BY <1>1, <1>2, <1>3
<1>5. next = [info EXCEPT !.value = cells, !.long_value = lv]
  BY <1>0, <1>1 DEF Info
<1> HIDE DEF cells
<1>6. /\ next \in Info /\ next.name = info.name /\ next.is_long = info.is_long
      /\ next.long_value = lv /\ next.serial = info.serial /\ next.value = cells
      /\ next.len = info.len
  BY <1>0, <1>1, <1>4, <1>5 DEF Info, Told
<1>7. InfoOK(next)
  BY <1>0, <1>1, <1>4, <1>6 DEF InfoOK
<1> QED
  BY <1>4, <1>6, <1>7 DEF CellCopied

\* A character is copied.
LEMMA CopyKeeps == ASSUME Inv, Copy, UNCHANGED <<world, contextOf, crashed>>, UNCHANGED toolVars
                   PROVE  Inv'
<1>1. mut.pc = "copy" /\ mut # Idle /\ serial_' = serial_ /\ serial_ \in Nat
      /\ mut' = [mut EXCEPT !.i = @ + 1, !.pc = IF mut.i <= Len(mut.v) THEN "copy" ELSE "clean"]
  BY DEF Copy, Idle, Inv, Areas
<1>2. /\ mut \in Mutations /\ mut.name \in Names_ /\ mut.name \in Names /\ Context # None
      /\ AreaOK(Area) /\ mut.op = "update" /\ mut.ret = 0
      /\ Len(mut.v) < PROP_VALUE_MAX /\ mut.pi # 0
      /\ mut.v \in Texts /\ Len(mut.v) \in Nat
      /\ mut.pi = PropIn(Area.bt, mut.name) /\ mut.pi \in DOMAIN Area.info
      /\ Area.info[mut.pi].name = mut.name /\ InfoOK(Area.info[mut.pi])
      /\ Holds(Area, mut.name, value[mut.name]) /\ value[mut.name] \in Shown
      /\ Area = [bt |-> Area.bt, info |-> Area.info, bytes_used_ |-> Area.bytes_used_]
  BY <1>1, UpdateFacts
<1>c. Copied(mut, Area.info[mut.pi])
  BY <1>1, UpdateFacts DEF MutationOK
<1> DEFINE info == Area.info[mut.pi]
           cell == IF mut.i <= Len(mut.v) THEN mut.v[mut.i] ELSE NUL
           damaged == info.is_long /\ mut.i > kLongLegacyErrorBufferSize
           lv == IF damaged THEN Undefined ELSE info.long_value
           shown == IF damaged THEN [value[mut.name] EXCEPT !.ReadCallback = Undefined]
                    ELSE value[mut.name]
           next == [info EXCEPT !.value[mut.i] = cell, !.long_value = lv]
           b == [bt |-> Area.bt, info |-> [Area.info EXCEPT ![mut.pi] = next],
                 bytes_used_ |-> Area.bytes_used_]
<1>3. /\ info.serial % 2 = 1 /\ mut.i \in 1 .. Len(mut.v) + 1
      /\ \A j \in 1 .. mut.i - 1 : info.value[j] = mut.v[j]
      /\ PROP_VALUE_MAX \in Nat
  BY <1>1, <1>c, AreaAssumption DEF Copied
<1>4. area' = [area EXCEPT ![Context] = b]
  <2>1. area' = [area EXCEPT ![Context] = [Area EXCEPT !.info[mut.pi] =
                   [info EXCEPT !.value[mut.i] = cell,
                                !.long_value = IF damaged THEN Undefined ELSE @]]]
    BY DEF Copy, SetArea
  <2>2. [Area EXCEPT !.info[mut.pi] = [info EXCEPT !.value[mut.i] = cell,
                                                   !.long_value = IF damaged THEN Undefined ELSE @]]
          = [Area EXCEPT !.info = [Area.info EXCEPT ![mut.pi] = next]]
    <3>1. [info EXCEPT !.value[mut.i] = cell, !.long_value = IF damaged THEN Undefined ELSE @] = next
      <4> HIDE DEF cell, damaged
      <4> QED BY <1>2 DEF InfoOK, Info
    <3> HIDE DEF cell, next, damaged
    <3> QED BY <1>2, <3>1
  <2>3. [Area EXCEPT !.info = [Area.info EXCEPT ![mut.pi] = next]] = b
    <3> HIDE DEF next
    <3> QED BY <1>2
  <2> QED
    BY <2>1, <2>2, <2>3
<1>l. lv \in Told /\ (damaged => info.is_long /\ lv = Undefined) /\ (~damaged => lv = info.long_value)
  BY <1>2 DEF InfoOK, Info, Told
<1>5. /\ InfoOK(next) /\ next.name = info.name /\ next.is_long = info.is_long
      /\ next.long_value = lv /\ next.serial = info.serial
      /\ next.value[mut.i] = cell
      /\ \A j \in 1 .. PROP_VALUE_MAX : j # mut.i => next.value[j] = info.value[j]
  <2>1. cell = (IF mut.i <= Len(mut.v) THEN mut.v[mut.i] ELSE NUL)
        /\ next = [info EXCEPT !.value[mut.i] = cell, !.long_value = lv]
    OBVIOUS
  <2>4. InfoOK(info)
    BY <1>2
  <2> HIDE DEF info, cell, lv, next
  <2>2. CopiesCell(info, mut.v, mut.i, cell, lv, next)
    BY <2>1, <2>4, <1>2, <1>3, <1>l DEF CopiesCell
  <2>3. CellCopied(info, mut.i, cell, lv, next)
    BY <2>2, CopyInfo
  <2> QED
    BY <2>3 DEF CellCopied
<1>7. /\ Stored(Area, b, mut.name) /\ b.bt = Area.bt /\ DOMAIN b.info = DOMAIN Area.info
      /\ b.info[mut.pi] = next
      /\ \A o \in DOMAIN Area.info : o # mut.pi => b.info[o] = Area.info[o]
  <2>1. next.name = mut.name /\ next.name = Area.info[mut.pi].name
    BY <1>2, <1>5
  <2>2. b = [bt |-> Area.bt, info |-> [Area.info EXCEPT ![mut.pi] = next],
             bytes_used_ |-> Area.bytes_used_]
    OBVIOUS
  <2> HIDE DEF next, b
  <2> QED
    BY <1>2, <1>5, <2>1, <2>2, AreaInfo
<1>s. /\ shown \in Shown /\ shown.Read = value[mut.name].Read
      /\ damaged => shown.ReadCallback = Undefined
      /\ ~damaged => shown = value[mut.name]
  BY <1>2 DEF Shown, Opt, Told
<1>t. lv \in {info.long_value, shown.ReadCallback}
  BY <1>l, <1>s
<1> HIDE DEF b, next, lv, damaged, shown
<1>8. /\ mut' \in Mutations /\ mut' # Idle /\ mut'.name = mut.name /\ mut'.op = "update"
      /\ mut'.v = mut.v /\ mut'.pc = (IF mut.i <= Len(mut.v) THEN "copy" ELSE "clean")
      /\ mut'.ret = 0 /\ mut'.pi = mut.pi /\ mut'.i = mut.i + 1
  <2> DEFINE pc == IF mut.i <= Len(mut.v) THEN "copy" ELSE "clean"
             k == mut.i + 1
  <2>1. mut' = [mut EXCEPT !.i = k, !.pc = pc] /\ pc \in {"copy", "clean"} /\ k \in Nat
    BY <1>1, <1>2, <1>3
  <2> HIDE DEF pc, k
  <2>2. /\ mut' \in Mutations /\ mut' # Idle /\ mut'.name = mut.name /\ mut'.op = "update"
        /\ mut'.v = mut.v /\ mut'.pc = pc /\ mut'.ret = 0 /\ mut'.pi = mut.pi /\ mut'.i = k
    BY <2>1, <1>2 DEF Mutations, Idle
  <2> QED
    BY <2>2 DEF pc, k
<1>9. MutationOK(mut', TRUE, b, shown)
  <2>1. CASE mut.i <= Len(mut.v)
    <3>1. mut'.i \in 1 .. Len(mut.v) + 1
      BY <2>1, <1>2, <1>3, <1>8
    <3>2. ASSUME NEW j \in 1 .. mut'.i - 1 PROVE next.value[j] = mut.v[j]
      <4>1. CASE j = mut.i
        BY <4>1, <2>1, <1>5
      <4>2. CASE j # mut.i
        <5>1. j \in 1 .. mut.i - 1 /\ j \in 1 .. PROP_VALUE_MAX
          BY <4>2, <1>2, <1>3, <1>8, <3>1
        <5> QED
          BY <4>2, <5>1, <1>3, <1>5
      <4> QED
        BY <4>1, <4>2
    <3>3. Copied(mut', next)
      BY <2>1, <3>1, <3>2, <1>3, <1>5, <1>8 DEF Copied
    <3> QED
      BY <2>1, <3>3, <1>2, <1>7, <1>8 DEF MutationOK, Outcome
  <2>2. CASE ~(mut.i <= Len(mut.v))
    <3>1. mut.i = Len(mut.v) + 1
      BY <2>2, <1>2, <1>3
    <3>2. ASSUME NEW j \in 1 .. Len(mut.v) PROVE next.value[j] = mut.v[j]
      <4>1. j # mut.i /\ j \in 1 .. mut.i - 1 /\ j \in 1 .. PROP_VALUE_MAX
        BY <3>1, <1>2, <1>3
      <4> QED
        BY <4>1, <1>3, <1>5
    <3>3. next.value[Len(mut.v) + 1] = NUL
      BY <2>2, <3>1, <1>5
    <3>4. Copied(mut', next)
      BY <2>2, <3>2, <3>3, <1>3, <1>5, <1>8 DEF Copied
    <3> QED
      BY <2>2, <3>4, <1>2, <1>7, <1>8 DEF MutationOK, Outcome
  <2> QED
    BY <2>1, <2>2
<1>10. Holds(b, mut.name, shown)
  <2>1. /\ value[mut.name].ReadCallback \in Told /\ value[mut.name].Read \in Seq(Int)
        /\ value[mut.name].ReadCallback = Undefined => info.is_long
        /\ info.is_long => value[mut.name].ReadCallback = info.long_value
    BY <1>2 DEF Holds, Told
  <2>2. /\ shown.ReadCallback \in Told /\ shown.Read \in Seq(Int)
        /\ shown.ReadCallback = Undefined => info.is_long
        /\ info.is_long => shown.ReadCallback = lv
    BY <2>1, <1>l, <1>s
  <2> QED
    BY <2>2, <1>2, <1>3, <1>5, <1>7 DEF Holds, Told
<1>d. IF damaged THEN Becomes(shown) ELSE value' = value /\ reads' = reads
  BY DEF Copy, damaged, shown
<1>11. MutStep(b, shown)
  <2>1. value' = [value EXCEPT ![mut.name] = shown]
    <3>1. CASE damaged
      BY <3>1, <1>d DEF Becomes
    <3>2. CASE ~damaged
      BY <3>2, <1>d, <1>s, <1>2 DEF Inv, Areas
    <3> QED
      BY <3>1, <3>2
  <2>2. mut'.pc \in {"copy", "clean"}
    BY <1>8
  <2> QED
    BY <2>1, <2>2, <1>1, <1>2, <1>4, <1>7, <1>8, <1>9, <1>10, <1>s DEF MutStep
<1>12. WritesInfo(Area, b, mut.pi, shown)
  <2>1. info.serial \in Nat
    BY <1>2 DEF InfoOK, Info
  <2> QED
    BY <2>1, <1>2, <1>3, <1>5, <1>7, <1>t DEF WritesInfo, Stored
<1>13. ReadersGrow(b, shown)
  <2>1. \A r \in Readers : reads[r].name = mut.name =>
          /\ reads[r].inPlace
          /\ reads[r].pc # "start" => value[mut.name][reads[r].api] \in reads[r].could
    BY <1>1 DEF Inv, ReadersOK, ReaderOK, Written
  <2>2. /\ reads' \in [Readers -> ReaderRecords]
        /\ \A r \in Readers :
             /\ Grows(reads[r], reads'[r])
             /\ reads[r].name = mut.name =>
                  /\ reads[r].pc # "start" => shown[reads[r].api] \in reads'[r].could
                  /\ reads'[r].inPlace
    <3>1. CASE damaged
      <4>1. /\ reads' \in [Readers -> ReaderRecords]
            /\ \A r \in Readers :
                 /\ Grows(reads[r], reads'[r]) /\ reads'[r].inPlace = reads[r].inPlace
                 /\ reads[r].name = mut.name => shown[reads[r].api] \in reads'[r].could
        BY <3>1, <1>d, <1>2, <1>s, BecomesGrows DEF Inv
      <4> QED
        BY <2>1, <4>1
    <3>2. CASE ~damaged
      <4>1. reads' = reads /\ shown = value[mut.name] /\ reads \in [Readers -> ReaderRecords]
        BY <3>2, <1>d, <1>s DEF Inv, ReadersOK
      <4> QED
        BY <2>1, <4>1 DEF Grows
    <3> QED
      BY <3>1, <3>2
  <2> QED
    BY <2>2, <1>12, WrittenReaders DEF Inv
<1> QED
  BY <1>11, <1>13, MutStepKeeps

Cleans(info, v, next) ==
    /\ InfoOK(info) /\ v \in Texts /\ Len(v) < PROP_VALUE_MAX /\ info.serial % 2 = 1
    /\ \A j \in 1 .. Len(v) : info.value[j] = v[j]
    /\ info.value[Len(v) + 1] = NUL
    /\ next = [info EXCEPT !.serial = @ + 1, !.len = Len(v)]
Cleaned(info, v, next) ==
    /\ InfoOK(next) /\ next.name = info.name /\ next.is_long = info.is_long
    /\ next.long_value = info.long_value /\ next.serial = info.serial + 1
    /\ next.serial % 2 = 0 /\ info.serial \in Nat
    /\ ValueOf(next) = [ReadCallback |-> IF info.is_long THEN info.long_value ELSE v, Read |-> v]

\* The new length and an even serial: the info shows the new value.
LEMMA CleanInfo ==
    ASSUME NEW info, NEW v, NEW next, Cleans(info, v, next) PROVE Cleaned(info, v, next)
<1>0. /\ InfoOK(info) /\ v \in Texts /\ Len(v) < PROP_VALUE_MAX /\ info.serial % 2 = 1
      /\ \A j \in 1 .. Len(v) : info.value[j] = v[j]
      /\ info.value[Len(v) + 1] = NUL
      /\ next = [info EXCEPT !.serial = @ + 1, !.len = Len(v)]
  BY DEF Cleans
<1>1. info \in Info /\ info.serial \in Nat
      /\ info.value[PROP_VALUE_MAX] = NUL /\ (info.is_long => is_read_only(info.name))
  BY <1>0 DEF InfoOK, Info
<1>2. PROP_VALUE_MAX \in Nat /\ Len(v) \in Nat /\ v \in Seq(Nat)
  BY <1>0, AreaAssumption DEF Texts
<1>a. next = [info EXCEPT !.serial = info.serial + 1, !.len = Len(v)] /\ info.serial + 1 \in Nat
  BY <1>0, <1>1
<1>3. /\ next \in Info /\ next.name = info.name /\ next.is_long = info.is_long
      /\ next.long_value = info.long_value /\ next.serial = info.serial + 1 /\ next.value = info.value
      /\ next.len = Len(v)
  <2> DEFINE k == info.serial + 1
             l == Len(v)
  <2>1. next = [info EXCEPT !.serial = k, !.len = l] /\ k \in Nat /\ l \in Nat
    BY <1>a, <1>2
  <2> HIDE DEF k, l
  <2>2. /\ next \in Info /\ next.name = info.name /\ next.is_long = info.is_long
        /\ next.long_value = info.long_value /\ next.serial = k /\ next.value = info.value
        /\ next.len = l
    BY <1>1, <2>1 DEF Info
  <2> QED
    BY <2>2 DEF k, l
<1>4. next.serial % 2 = 0
  BY <1>0, <1>1, <1>3
<1>5. \A j \in 1 .. Len(v) : info.value[j] = v[j] /\ v[j] # NUL
  BY <1>0, <1>2 DEF NUL
<1>6. InfoOK(next)
  BY <1>0, <1>1, <1>2, <1>3, <1>5 DEF InfoOK
<1>7. [j \in 1 .. next.len |-> next.value[j]] = v
  <2>1. v = [j \in 1 .. Len(v) |-> v[j]]
    BY <1>2
  <2> QED
    BY <2>1, <1>3, <1>5
<1>8. ValueOf(next) = [ReadCallback |-> IF info.is_long THEN info.long_value ELSE v, Read |-> v]
  BY <1>3, <1>7 DEF ValueOf
<1> QED
  BY <1>1, <1>3, <1>4, <1>6, <1>8 DEF Cleaned

\* The new value is complete.
LEMMA CleanKeeps == ASSUME Inv, Clean, UNCHANGED <<world, contextOf, crashed>>, UNCHANGED toolVars
                    PROVE  Inv'
<1> DEFINE info == Area.info[mut.pi]
           shown == IF info.is_long THEN [value[mut.name] EXCEPT !.Read = mut.v] ELSE Shows(mut.v)
<1>1. mut.pc = "clean" /\ mut # Idle /\ serial_' = serial_ /\ serial_ \in Nat
      /\ mut' = [mut EXCEPT !.pc = "wake"] /\ Becomes(shown)
  BY DEF Clean, Idle, Inv, Areas, Goto
<1>2. /\ mut \in Mutations /\ mut.name \in Names_ /\ mut.name \in Names /\ Context # None
      /\ AreaOK(Area) /\ mut.op = "update" /\ mut.ret = 0
      /\ Len(mut.v) < PROP_VALUE_MAX /\ mut.pi # 0
      /\ mut.v \in Texts /\ Len(mut.v) \in Nat
      /\ mut.pi = PropIn(Area.bt, mut.name) /\ mut.pi \in DOMAIN Area.info
      /\ Area.info[mut.pi].name = mut.name /\ InfoOK(Area.info[mut.pi])
      /\ Holds(Area, mut.name, value[mut.name]) /\ value[mut.name] \in Shown
      /\ Area = [bt |-> Area.bt, info |-> Area.info, bytes_used_ |-> Area.bytes_used_]
  BY <1>1, UpdateFacts
<1>c. Copied(mut, Area.info[mut.pi])
  BY <1>1, UpdateFacts DEF MutationOK
<1> DEFINE next == [info EXCEPT !.serial = @ + 1, !.len = Len(mut.v)]
           b == [bt |-> Area.bt, info |-> [Area.info EXCEPT ![mut.pi] = next],
                 bytes_used_ |-> Area.bytes_used_]
<1>3. /\ info.serial % 2 = 1 /\ \A j \in 1 .. Len(mut.v) : info.value[j] = mut.v[j]
      /\ info.value[Len(mut.v) + 1] = NUL /\ InfoOK(info)
  BY <1>1, <1>2, <1>c DEF Copied
<1>4. area' = [area EXCEPT ![Context] = b]
  <2>1. area' = [area EXCEPT ![Context] = [Area EXCEPT !.info[mut.pi].serial = @ + 1,
                                                      !.info[mut.pi].len = Len(mut.v)]]
    BY DEF Clean, SetArea
  <2>2. [Area EXCEPT !.info[mut.pi].serial = @ + 1, !.info[mut.pi].len = Len(mut.v)]
          = [Area EXCEPT !.info = [Area.info EXCEPT ![mut.pi] = next]]
    BY <1>2
  <2>3. [Area EXCEPT !.info = [Area.info EXCEPT ![mut.pi] = next]] = b
    <3> HIDE DEF next
    <3> QED BY <1>2
  <2> QED
    BY <2>1, <2>2, <2>3
<1>5. /\ InfoOK(next) /\ next.name = info.name /\ next.is_long = info.is_long
      /\ next.long_value = info.long_value /\ next.serial = info.serial + 1
      /\ next.serial % 2 = 0 /\ info.serial \in Nat
      /\ ValueOf(next) = [ReadCallback |-> IF info.is_long THEN info.long_value ELSE mut.v,
                          Read |-> mut.v]
  <2>1. next = [info EXCEPT !.serial = @ + 1, !.len = Len(mut.v)]
    OBVIOUS
  <2>2. Cleans(info, mut.v, next)
    BY <2>1, <1>2, <1>3 DEF Cleans
  <2> HIDE DEF info, next
  <2>3. Cleaned(info, mut.v, next)
    BY <2>2, CleanInfo
  <2> QED
    BY <2>3 DEF Cleaned
<1>7. /\ Stored(Area, b, mut.name) /\ b.bt = Area.bt /\ DOMAIN b.info = DOMAIN Area.info
      /\ b.info[mut.pi] = next
      /\ \A o \in DOMAIN Area.info : o # mut.pi => b.info[o] = Area.info[o]
  <2>1. next.name = mut.name /\ next.name = Area.info[mut.pi].name
    BY <1>2, <1>5
  <2>2. b = [bt |-> Area.bt, info |-> [Area.info EXCEPT ![mut.pi] = next],
             bytes_used_ |-> Area.bytes_used_]
    OBVIOUS
  <2> HIDE DEF next, b
  <2> QED
    BY <1>2, <1>5, <2>1, <2>2, AreaInfo
<1> HIDE DEF b, next
<1>8. shown = ValueOf(next) /\ (~info.is_long => shown = Shows(mut.v))
  <2>1. CASE info.is_long
    <3>1. value[mut.name] = [ReadCallback |-> value[mut.name].ReadCallback, Read |-> value[mut.name].Read]
          /\ value[mut.name].ReadCallback = info.long_value
      BY <2>1, <1>2 DEF Shown, Holds
    <3>2. shown = [value[mut.name] EXCEPT !.Read = mut.v]
      BY <2>1
    <3>3. shown = [ReadCallback |-> value[mut.name].ReadCallback, Read |-> mut.v]
      BY <3>1, <3>2
    <3> QED
      BY <2>1, <3>1, <3>3, <1>5
  <2>2. CASE ~info.is_long
    <3>1. Shows(mut.v) = [ReadCallback |-> mut.v, Read |-> mut.v]
      BY <1>2, AreaAssumption DEF Shows
    <3> QED
      BY <2>2, <3>1, <1>5
  <2> QED
    BY <2>1, <2>2
<1>9. /\ shown \in Shown /\ shown.ReadCallback \in Told /\ shown.Read \in Seq(Int)
      /\ (info.is_long => shown.ReadCallback = info.long_value)
      /\ (shown.ReadCallback = Undefined => info.is_long)
  <2>1. mut.v \in Seq(Int) /\ info.long_value \in Told /\ Undefined \notin Seq(Int)
    BY <1>2, AreaAssumption DEF Texts, InfoOK, Info, Told
  <2> HIDE DEF info, shown
  <2> QED BY <1>5, <1>8, <2>1 DEF Shown, Opt, Told
<1> HIDE DEF shown, info
<1>10. /\ mut' \in Mutations /\ mut' # Idle /\ mut'.name = mut.name /\ mut'.op = "update"
       /\ mut'.v = mut.v /\ mut'.pc = "wake" /\ mut'.ret = 0 /\ mut'.pi = mut.pi
  BY <1>1, <1>2 DEF Mutations, Idle
<1>11. MutationOK(mut', TRUE, b, shown)
  <2>1. b.info[mut'.pi].is_long \/ shown = Shows(mut.v)
    BY <1>5, <1>7, <1>8, <1>10
  <2> QED
    BY <2>1, <1>2, <1>7, <1>10 DEF MutationOK, Outcome
<1>12. Holds(b, mut.name, shown)
  <2>1. next.name = mut.name
    BY <1>2, <1>5 DEF info
  <2> QED
    BY <2>1, <1>2, <1>5, <1>7, <1>8, <1>9 DEF Holds, Told
<1>13. MutStep(b, shown)
  <2>1. value' = [value EXCEPT ![mut.name] = shown]
    BY <1>1 DEF Becomes
  <2>2. b.info[PropIn(b.bt, mut.name)].serial % 2 # 1
    BY <1>2, <1>5, <1>7
  <2> QED
    BY <2>1, <2>2, <1>1, <1>2, <1>4, <1>7, <1>9, <1>10, <1>11, <1>12 DEF MutStep
<1>14. WritesInfo(Area, b, mut.pi, shown)
  <2>1. next.serial > info.serial /\ next.serial >= info.serial
    BY <1>5
  <2>2. b.info[mut.pi] = next /\ Area.info[mut.pi] = info
    BY <1>7 DEF info
  <2> QED
    BY <2>1, <2>2, <1>2, <1>5, <1>7, <1>8 DEF WritesInfo, Stored
<1>15. ReadersGrow(b, shown)
  <2>1. /\ reads' \in [Readers -> ReaderRecords]
        /\ \A r \in Readers :
             /\ Grows(reads[r], reads'[r]) /\ reads'[r].inPlace = reads[r].inPlace
             /\ reads[r].name = mut.name => shown[reads[r].api] \in reads'[r].could
    BY <1>1, <1>2, <1>9, BecomesGrows DEF Inv
  <2>2. \A r \in Readers : reads[r].name = mut.name => reads[r].inPlace
    BY <1>1 DEF Inv, ReadersOK, ReaderOK, Written
  <2>3. \A r \in Readers :
          /\ Grows(reads[r], reads'[r])
          /\ reads[r].name = mut.name =>
               /\ reads[r].pc # "start" => shown[reads[r].api] \in reads'[r].could
               /\ reads'[r].inPlace
    BY <2>1, <2>2
  <2> QED
    BY <2>1, <2>3, <1>14, WrittenReaders DEF Inv
<1> QED
  BY <1>13, <1>15, MutStepKeeps

\* A step that leaves the area alone, and only wakes readers.
Woken(rd, new) ==
    \/ new = rd
    \/ rd.pc = "asleep" /\ new = [rd EXCEPT !.pc = "serial"]
    \/ rd.pc = "waiting" /\ new = [rd EXCEPT !.pc = "load"]

\* A reader that is woken.
LEMMA WokenReader ==
    ASSUME NEW rd \in ReaderRecords, NEW new, Woken(rd, new), NEW shown, NEW written, NEW here, NEW a,
           ReaderOK(rd, shown, written, here, a)
    PROVE  new \in ReaderRecords /\ new.name = rd.name /\ ReaderOK(new, shown, written, here, a)
<1>1. CASE new = rd
  BY <1>1
<1>2. CASE rd.pc = "asleep" /\ new = [rd EXCEPT !.pc = "serial"]
  <2>1. /\ new \in ReaderRecords /\ new.pc = "serial" /\ new.name = rd.name /\ new.api = rd.api
        /\ new.pi = rd.pi /\ new.could = rd.could /\ new.inPlace = rd.inPlace
    BY <1>2 DEF ReaderRecords, Reading
  <2>2. Reads(rd, a)
    BY <1>2 DEF ReaderOK, Reading
  <2>3. Reads(new, a)
    BY <2>1, <2>2 DEF Reads
  <2> QED
    BY <1>2, <2>1, <2>3 DEF ReaderOK, Reading, Finding, Current
<1>3. CASE rd.pc = "waiting" /\ new = [rd EXCEPT !.pc = "load"]
  <2>1. /\ new \in ReaderRecords /\ new.pc = "load" /\ new.name = rd.name /\ new.api = rd.api
        /\ new.could = rd.could /\ new.inPlace = rd.inPlace /\ new.seen = rd.seen
    BY <1>3 DEF ReaderRecords
  <2> QED
    BY <1>3, <2>1 DEF ReaderOK, Reading, Finding, Current
<1> QED
  BY <1>1, <1>2, <1>3 DEF Woken

\* It keeps the invariant.
LEMMA WakesKeep ==
    ASSUME Inv, QuietStep(Area), area' = area, reads' = [r \in Readers |-> reads'[r]],
           \A r \in Readers : Woken(reads[r], reads'[r])
    PROVE  Inv'
<1>1. MutStep(Area, value[mut.name])
  BY QuietStepIsStep DEF Inv
<1>2. Areas' /\ Agree'
  BY <1>1, MutStepAreas DEF Inv
<1>3. OddIsWritten' /\ MutOK' /\ ToolOK' /\ Lasting'
  BY <1>1, MutStepRest DEF Inv
<1>4. ASSUME NEW r \in Readers
      PROVE  /\ reads'[r] \in ReaderRecords
             /\ ReaderOK(reads[r], value[reads[r].name], Written(reads[r].name),
                         GetPropAreaForName(reads[r].name) # None, TheArea(r))'
  <2>1. reads[r] \in ReaderRecords /\ Woken(reads[r], reads'[r])
        /\ ReaderOK(reads[r], value[reads[r].name], Written(reads[r].name),
                    GetPropAreaForName(reads[r].name) # None, TheArea(r))
    BY DEF Inv, ReadersOK
  <2>2. /\ reads'[r] \in ReaderRecords /\ reads'[r].name = reads[r].name
        /\ ReaderOK(reads'[r], value[reads[r].name], Written(reads[r].name),
                    GetPropAreaForName(reads[r].name) # None, TheArea(r))
    BY <2>1, WokenReader
  <2>3. GetPropAreaForName(reads[r].name)' = GetPropAreaForName(reads[r].name)
    BY <2>2 DEF GetPropAreaForName, map_prop_area, World, QuietStep
  <2>4. TheArea(r)' = TheArea(r) /\ Written(reads[r].name)' = Written(reads[r].name)
        /\ value'[reads'[r].name] = value[reads[r].name]
    BY <2>2, <2>3 DEF TheArea, Written, QuietStep
  <2> QED
    BY <2>2, <2>3, <2>4
<1>5. ReadersOK'
  BY <1>4 DEF ReadersOK
<1> QED
  BY <1>2, <1>3, <1>5 DEF Inv

\* The steps that wake, and the serial of the whole set.
LEMMA TailKeeps == ASSUME Inv, Wake \/ Bump \/ WakeAll, UNCHANGED <<world, contextOf, crashed>>,
                          UNCHANGED toolVars
                   PROVE  Inv'
<1> DEFINE pc == IF mut.pc = "wake" THEN "bump" ELSE IF mut.pc = "bump" THEN "wakeall" ELSE "return"
<1>1. /\ mut.pc \in {"wake", "bump", "wakeall"} /\ mut # Idle /\ area' = area /\ value' = value
      /\ serial_' \in Nat
  BY DEF Wake, Bump, WakeAll, Idle, Inv, Areas
<1>2. /\ mut \in Mutations /\ mut.name \in Names /\ Context # None /\ AreaOK(Area)
      /\ MutationOK(mut, Context # None, Area, value[mut.name])
      /\ area = [area EXCEPT ![Context] = Area]
  BY <1>1, MutFacts DEF Inv
<1>3. mut.ret = 0
  BY <1>1, <1>2 DEF MutationOK
<1>4. mut' = [mut EXCEPT !.pc = pc]
  <2>1. CASE Wake
    BY <2>1 DEF Wake, Goto
  <2>2. CASE Bump
    BY <2>2 DEF Bump, Goto
  <2>3. CASE WakeAll
    <3>1. mut' = [mut EXCEPT !.pc = "return", !.ret = 0]
      BY <2>3 DEF WakeAll, Return
    <3>2. [mut EXCEPT !.pc = "return", !.ret = 0] = [mut EXCEPT !.pc = "return"]
      BY <1>2, <1>3 DEF Mutations
    <3> QED
      BY <2>3, <3>1, <3>2 DEF WakeAll
  <2> QED
    BY <2>1, <2>2, <2>3
<1>5. pc \in {"bump", "wakeall", "return"}
  OBVIOUS
<1> HIDE DEF pc
<1>6. /\ mut' \in Mutations /\ mut' # Idle /\ mut'.name = mut.name /\ mut'.op = mut.op
      /\ mut'.v = mut.v /\ mut'.pc = pc /\ mut'.ret = 0 /\ mut'.pi = mut.pi
  BY <1>2, <1>3, <1>4, <1>5 DEF Mutations, Idle
<1>7. MutationOK(mut', TRUE, Area, value[mut.name])
  BY <1>1, <1>2, <1>3, <1>5, <1>6 DEF MutationOK, Outcome
<1>8. QuietStep(Area)
  BY <1>1, <1>2, <1>5, <1>6, <1>7, QuietItself DEF QuietStep
<1>9. reads' = [r \in Readers |-> reads'[r]] /\ \A r \in Readers : Woken(reads[r], reads'[r])
  <2>1. CASE Wake
    BY <2>1 DEF Wake, Woken
  <2>2. CASE Bump
    BY <2>2 DEF Bump, Woken, Inv, ReadersOK
  <2>3. CASE WakeAll
    BY <2>3 DEF WakeAll, Woken
  <2> QED
    BY <2>1, <2>2, <2>3
<1> QED
  BY <1>1, <1>8, <1>9, WakesKeep

\* Every step of a mutation keeps the invariant.
LEMMA MutateKeeps == ASSUME Inv, MutateStep PROVE Inv'
BY AllocateKeeps, LinkKeeps, UnlinkKeeps, DirtyKeeps, CopyKeeps, CleanKeeps, TailKeeps
   DEF MutateStep, Mutate

-----------------------------------------------------------------------------
(* The steps of a reader *)

\* A reader, with its property and its area.
At(rd, shown, written, here, a) ==
    /\ rd \in ReaderRecords /\ rd.name \in Names_ /\ shown \in Shown
    /\ here \in BOOLEAN /\ written \in BOOLEAN
    /\ IF here THEN AreaOK(a) /\ Holds(a, rd.name, shown) ELSE shown = Gone
    /\ ReaderOK(rd, shown, written, here, a)

\* The step of a reader keeps its record sound.
Goes(rd, shown, written, here, a, new) ==
    new \in ReaderRecords /\ new.name = rd.name /\ ReaderOK(new, shown, written, here, a)

CanSee(rd, v) ==
    /\ v \in Told
    /\ v \in {Text(w) : w \in rd.could} \/ (rd.api = "ReadCallback" /\ is_read_only(rd.name) /\ rd.inPlace)

\* A reader that has seen a value which it could see.
LEMMA SeesValue ==
    ASSUME NEW rd, NEW shown, NEW written, NEW here, NEW a, At(rd, shown, written, here, a),
           rd.pc # "start", NEW v, CanSee(rd, v), NEW new, new = [rd EXCEPT !.pc = "wait", !.seen = v]
    PROVE  Goes(rd, shown, written, here, a, new)
<1> USE DEF Goes
<1>1. rd \in ReaderRecords /\ ReaderOK(rd, shown, written, here, a)
  BY DEF At
<1>2. /\ new \in ReaderRecords /\ new.name = rd.name /\ new.api = rd.api /\ new.pc = "wait"
      /\ new.seen = v /\ new.could = rd.could /\ new.inPlace = rd.inPlace
  BY <1>1 DEF ReaderRecords, CanSee
<1>3. Current(new)
  BY <1>2 DEF Current, CanSee
<1> QED
  BY <1>1, <1>2, <1>3 DEF ReaderOK, Finding, Reading

\* A reader that finds nothing has seen what there is: nothing.
LEMMA SeesNothing ==
    ASSUME NEW rd, NEW shown, NEW written, NEW here, NEW a, At(rd, shown, written, here, a),
           rd.pc # "start", shown = Gone, NEW new, new = [rd EXCEPT !.pc = "wait", !.seen = <<>>]
    PROVE  Goes(rd, shown, written, here, a, new)
<1> USE DEF Goes
<1>1. rd \in ReaderRecords /\ ReaderOK(rd, shown, written, here, a)
  BY DEF At
<1>2. shown[rd.api] = None
  BY <1>1 DEF ReaderRecords, Gone
<1>3. None \in rd.could
  BY <1>1, <1>2 DEF ReaderOK
<1> DEFINE v == <<>>
<1>4. CanSee(rd, v)
  BY <1>3 DEF Text, CanSee, Told
<1>5. new = [rd EXCEPT !.pc = "wait", !.seen = v]
  OBVIOUS
<1>6. v \in Seq(Int)
  OBVIOUS
<1> HIDE DEF v
<1>7. /\ new \in ReaderRecords /\ new.name = rd.name /\ new.api = rd.api /\ new.pc = "wait"
      /\ new.seen = v /\ new.could = rd.could /\ new.inPlace = rd.inPlace
  BY <1>1, <1>5, <1>6 DEF ReaderRecords, Told
<1>8. Current(new)
  BY <1>4, <1>7 DEF Current, CanSee
<1> QED
  BY <1>1, <1>7, <1>8 DEF ReaderOK, Finding, Reading

\* The text of a value is the value.
LEMMA TextOfValue == \A v \in Told : Text(v) = v
BY AreaAssumption DEF Text, Told

\* A lookup begins at the root.
LEMMA Begins ==
    ASSUME NEW rd, NEW shown, NEW written, NEW here, NEW a, At(rd, shown, written, here, a),
           NEW old \in Nat, NEW pc, pc = (IF here THEN "children" ELSE "denied"), NEW new,
           new = [rd EXCEPT !.old = old, !.at = 0, !.i = 1, !.got = <<>>,
                            !.could = {shown[rd.api]}, !.inPlace = written, !.pc = pc]
    PROVE  Goes(rd, shown, written, here, a, new)
<1> USE DEF Goes
<1>1. /\ rd \in ReaderRecords /\ rd.name \in Names_ /\ shown \in Shown /\ written \in BOOLEAN
      /\ here \in BOOLEAN
  BY DEF At
<1>2. shown[rd.api] \in Opt /\ pc \in {"children", "denied"}
  BY <1>1 DEF ReaderRecords, Shown
<1>3. /\ new \in ReaderRecords /\ new.name = rd.name /\ new.api = rd.api /\ new.pc = pc
      /\ new.at = 0 /\ new.i = 1 /\ new.could = {shown[rd.api]} /\ new.inPlace = written
  <2> DEFINE could == {shown[rd.api]}
             none == <<>>
             root == 0
             one == 1
  <2>1. could \in SUBSET Opt /\ none \in Seq(Int) /\ root \in Nat /\ one \in Nat
    BY <1>2
  <2>2. new = [rd EXCEPT !.old = old, !.at = root, !.i = one, !.got = none, !.could = could,
                         !.inPlace = written, !.pc = pc]
    OBVIOUS
  <2>3. pc \in {"start", "denied", "wait", "waiting", "load"} \cup Finding \cup Reading
    BY <1>2 DEF Finding
  <2> HIDE DEF could, none, root, one
  <2>4. /\ new \in ReaderRecords /\ new.name = rd.name /\ new.api = rd.api /\ new.pc = pc
        /\ new.at = root /\ new.i = one /\ new.could = could /\ new.inPlace = written
    <3> DEFINE seen == [rd EXCEPT !.could = could, !.inPlace = written, !.pc = pc]
    <3>1. /\ seen \in ReaderRecords /\ seen.name = rd.name /\ seen.api = rd.api /\ seen.pc = pc
          /\ seen.could = could /\ seen.inPlace = written
      BY <1>1, <2>1, <2>3, ZenonT(30) DEF ReaderRecords
    <3>2. new = [seen EXCEPT !.old = old, !.at = root, !.i = one, !.got = none]
      BY <1>1, <2>2 DEF ReaderRecords
    <3> HIDE DEF seen
    <3> QED
      BY <3>1, <3>2, <2>1, ZenonT(30) DEF ReaderRecords
  <2> QED
    BY <2>4 DEF could, root, one
<1>4. here => Looks(new, a.bt)
  <2> SUFFICES ASSUME here PROVE Looks(new, a.bt)
    OBVIOUS
  <2>1. LinksOK(a.bt) /\ 0 \in DOMAIN a.bt
    BY DEF At, AreaOK, TrieOK, LinksOK
  <2>2. Len(rd.name) \in Nat /\ Len(rd.name) > 0
    BY <1>1 DEF Names_
  <2>3. LinkTaken(a.bt, rd.name, 0, 0) = "children"
    BY DEF LinkTaken
  <2>4. 1 \in 1 .. Len(rd.name) /\ 1 - 1 = 0
    BY <2>2
  <2> QED
    BY <1>3, <2>1, <2>3, <2>4 DEF Looks, find_prop_bt
<1> QED
  BY <1>1, <1>2, <1>3, <1>4 DEF ReaderOK, Finding, Reading, Current

\* What a reader does whose node has no link to follow.
LEMMA EndOfLookup ==
    ASSUME NEW a, AreaOK(a), NEW name \in Names_, NEW shown, Holds(a, name, shown),
           NEW o \in DOMAIN a.bt, NEW i \in 0 .. Len(name),
           Search(a.bt, name)[<<o, i>>] = find_prop_bt(a.bt, name),
           Follows(a.bt, name, o, i) = 0
    PROVE  /\ find_prop_bt(a.bt, name).node = o
           /\ find_prop_bt(a.bt, name).link = LinkTaken(a.bt, name, o, i)
           /\ LinkTaken(a.bt, name, o, i) # "none" => shown = Gone
<1>1. LinksOK(a.bt)
  BY DEF AreaOK, TrieOK
<1>2. Search(a.bt, name)[<<o, i>>] =
        [node |-> o, link |-> LinkTaken(a.bt, name, o, i), depth |-> Depth(a.bt, name, o, i)]
  BY <1>1, SearchStops
<1>3. /\ find_prop_bt(a.bt, name).node = o
      /\ find_prop_bt(a.bt, name).link = LinkTaken(a.bt, name, o, i)
  BY <1>2
<1>4. ASSUME LinkTaken(a.bt, name, o, i) # "none" PROVE shown = Gone
  <2>1. PropIn(a.bt, name) = 0
    BY <1>3, <1>4 DEF PropIn
  <2> QED
    BY <2>1 DEF Holds
<1> QED
  BY <1>3, <1>4

\* A reader follows a link.
LEMMA StepOfLookup ==
    ASSUME NEW bt, LinksOK(bt), NEW name \in Names_, NEW o \in DOMAIN bt, NEW i \in 0 .. Len(name),
           Search(bt, name)[<<o, i>>] = find_prop_bt(bt, name),
           Follows(bt, name, o, i) # 0
    PROVE  /\ Follows(bt, name, o, i) \in DOMAIN bt
           /\ Depth(bt, name, o, i) \in 0 .. Len(name)
           /\ Search(bt, name)[<<Follows(bt, name, o, i), Depth(bt, name, o, i)>>]
                = find_prop_bt(bt, name)
<1>1. Search(bt, name)[<<o, i>>] = Search(bt, name)[<<Follows(bt, name, o, i), Depth(bt, name, o, i)>>]
  BY SearchUnfolds
<1>2. Follows(bt, name, o, i) \in DOMAIN bt /\ Depth(bt, name, o, i) \in 0 .. Len(name)
  BY StepOK
<1> QED
  BY <1>1, <1>2

\* The children of a node.
LEMMA ChildrenStep ==
    ASSUME NEW rd, NEW shown, NEW written, NEW here, NEW a, At(rd, shown, written, here, a),
           rd.pc = "children", NEW child, child = a.bt[rd.at].link["children"], NEW new,
           new = IF child = 0 THEN [rd EXCEPT !.pc = "wait", !.seen = <<>>]
                 ELSE [rd EXCEPT !.at = child, !.pc = "sibling"]
    PROVE  Goes(rd, shown, written, here, a, new)
<1> USE DEF Goes
<1>1. /\ rd \in ReaderRecords /\ rd.name \in Names_ /\ here /\ AreaOK(a) /\ Holds(a, rd.name, shown)
      /\ ReaderOK(rd, shown, written, here, a) /\ Looks(rd, a.bt) /\ LinksOK(a.bt)
  BY DEF At, ReaderOK, Finding, AreaOK, TrieOK
<1>2. Len(rd.name) \in Nat
  BY <1>1 DEF Names_
<1>3. /\ rd.at \in DOMAIN a.bt /\ rd.i \in 1 .. Len(rd.name)
      /\ Search(a.bt, rd.name)[<<rd.at, rd.i - 1>>] = find_prop_bt(a.bt, rd.name)
      /\ LinkTaken(a.bt, rd.name, rd.at, rd.i - 1) = "children"
  BY <1>1 DEF Looks
<1>4. rd.i - 1 \in 0 .. Len(rd.name)
  BY <1>2, <1>3
<1>5. Follows(a.bt, rd.name, rd.at, rd.i - 1) = child /\ Depth(a.bt, rd.name, rd.at, rd.i - 1) = rd.i
  BY <1>2, <1>3 DEF Follows, Depth
<1>6. CASE child = 0
  <2>1. shown = Gone
    BY <1>1, <1>3, <1>4, <1>5, <1>6, EndOfLookup
  <2> QED
    BY <1>6, <2>1, SeesNothing
<1>7. CASE child # 0
  <2>1. /\ child \in DOMAIN a.bt
        /\ Search(a.bt, rd.name)[<<child, rd.i>>] = find_prop_bt(a.bt, rd.name)
    BY <1>1, <1>3, <1>4, <1>5, <1>7, StepOfLookup
  <2>2. child \in Nat
    BY <1>1, <2>1, AreaAssumption DEF LinksOK
  <2>3. /\ new \in ReaderRecords /\ new.name = rd.name /\ new.api = rd.api /\ new.pc = "sibling"
        /\ new.at = child /\ new.i = rd.i /\ new.could = rd.could /\ new.inPlace = rd.inPlace
    BY <1>1, <1>7, <2>2 DEF ReaderRecords, Finding
  <2>4. Looks(new, a.bt)
    BY <1>3, <2>1, <2>3 DEF Looks
  <2> QED
    BY <1>1, <2>3, <2>4 DEF ReaderOK, Finding, Reading, Current
<1> QED
  BY <1>6, <1>7

\* The siblings of a node.
LEMMA SiblingStep ==
    ASSUME NEW rd, NEW shown, NEW written, NEW here, NEW a, At(rd, shown, written, here, a),
           rd.pc = "sibling", NEW node, node = a.bt[rd.at],
           NEW next, next = node.link[Side(rd.name[rd.i], node)], NEW new,
           new = IF node.token = rd.name[rd.i]
                 THEN IF rd.i = Len(rd.name) THEN [rd EXCEPT !.pc = "prop"]
                      ELSE [rd EXCEPT !.i = rd.i + 1, !.pc = "children"]
                 ELSE IF next = 0 THEN [rd EXCEPT !.pc = "wait", !.seen = <<>>]
                 ELSE [rd EXCEPT !.at = next]
    PROVE  Goes(rd, shown, written, here, a, new)
<1> USE DEF Goes
<1>1. /\ rd \in ReaderRecords /\ rd.name \in Names_ /\ here /\ AreaOK(a) /\ Holds(a, rd.name, shown)
      /\ ReaderOK(rd, shown, written, here, a) /\ Looks(rd, a.bt) /\ LinksOK(a.bt)
  BY DEF At, ReaderOK, Finding, AreaOK, TrieOK
<1>2. Len(rd.name) \in Nat
  BY <1>1 DEF Names_
<1>3. /\ rd.at \in DOMAIN a.bt /\ rd.i \in 1 .. Len(rd.name)
      /\ Search(a.bt, rd.name)[<<rd.at, rd.i>>] = find_prop_bt(a.bt, rd.name)
  BY <1>1 DEF Looks
<1>4. rd.i \in 0 .. Len(rd.name) /\ rd.i > 0 /\ rd.i \in Nat
  BY <1>2, <1>3, SMTT(30)
<1> DEFINE l == LinkTaken(a.bt, rd.name, rd.at, rd.i)
<1>5. CASE node.token = rd.name[rd.i] /\ rd.i = Len(rd.name)
  <2>1. l = "none"
    BY <1>2, <1>4, <1>5 DEF LinkTaken
  <2>2. Follows(a.bt, rd.name, rd.at, rd.i) = 0
    BY <2>1 DEF Follows
  <2>3. find_prop_bt(a.bt, rd.name).node = rd.at /\ find_prop_bt(a.bt, rd.name).link = "none"
    BY <1>1, <1>3, <1>4, <2>1, <2>2, EndOfLookup
  <2>4. /\ new \in ReaderRecords /\ new.name = rd.name /\ new.api = rd.api /\ new.pc = "prop"
        /\ new.at = rd.at /\ new.could = rd.could /\ new.inPlace = rd.inPlace
    BY <1>1, <1>5, ZenonT(30) DEF ReaderRecords, Finding
  <2>5. Looks(new, a.bt)
    BY <2>3, <2>4, Zenon DEF Looks
  <2> QED
    BY <1>1, <2>4, <2>5, Zenon DEF ReaderOK, Finding, Reading, Current
<1>6. CASE node.token = rd.name[rd.i] /\ rd.i # Len(rd.name)
  <2>1. l = "children" /\ rd.i + 1 \in 1 .. Len(rd.name) /\ rd.i + 1 \in Nat /\ (rd.i + 1) - 1 = rd.i
    BY <1>2, <1>3, <1>4, <1>6 DEF LinkTaken
  <2>2. new = [rd EXCEPT !.i = rd.i + 1, !.pc = "children"]
    BY <1>6, SMTT(30)
  <2>3. /\ new \in ReaderRecords /\ new.name = rd.name /\ new.api = rd.api /\ new.pc = "children"
        /\ new.at = rd.at /\ new.could = rd.could /\ new.inPlace = rd.inPlace /\ new.i = rd.i + 1
    BY <1>1, <2>1, <2>2, ZenonT(30) DEF ReaderRecords, Finding
  <2>4. Looks(new, a.bt)
    BY <1>3, <2>1, <2>3, ZenonT(30) DEF Looks
  <2> QED
    BY <1>1, <2>3, <2>4, Zenon DEF ReaderOK, Finding, Reading, Current
<1>7. CASE node.token # rd.name[rd.i]
  <2>1. l = Side(rd.name[rd.i], node) /\ l \in {"left", "right"}
    BY <1>2, <1>4, <1>7 DEF LinkTaken, Side
  <2>2. Follows(a.bt, rd.name, rd.at, rd.i) = next /\ Depth(a.bt, rd.name, rd.at, rd.i) = rd.i
    BY <2>1 DEF Follows, Depth
  <2>3. CASE next = 0
    <3>1. shown = Gone
      BY <1>1, <1>3, <1>4, <2>1, <2>2, <2>3, EndOfLookup
    <3> QED
      BY <1>7, <2>3, <3>1, SeesNothing, ZenonT(30)
  <2>4. CASE next # 0
    <3>1. /\ next \in DOMAIN a.bt
          /\ Search(a.bt, rd.name)[<<next, rd.i>>] = find_prop_bt(a.bt, rd.name)
      BY <1>1, <1>3, <1>4, <2>2, <2>4, StepOfLookup
    <3>2. next \in Nat
      BY <1>1, <3>1, AreaAssumption DEF LinksOK
    <3>3. new = [rd EXCEPT !.at = next]
      BY <1>7, <2>4, SMTT(30)
    <3>4. /\ new \in ReaderRecords /\ new.name = rd.name /\ new.api = rd.api /\ new.pc = "sibling"
          /\ new.at = next /\ new.i = rd.i /\ new.could = rd.could /\ new.inPlace = rd.inPlace
      BY <1>1, <3>2, <3>3, Zenon DEF ReaderRecords
    <3>5. Looks(new, a.bt)
      BY <1>3, <3>1, <3>4, Zenon DEF Looks
    <3> QED
      BY <1>1, <3>4, <3>5, Zenon DEF ReaderOK, Finding, Reading, Current
  <2> QED
    BY <2>3, <2>4
<1> QED
  BY <1>5, <1>6, <1>7

-----------------------------------------------------------------------------
\* find_property's first load of prop.
LEMMA PropStep ==
    ASSUME NEW rd, NEW shown, NEW written, NEW here, NEW a, At(rd, shown, written, here, a),
           rd.pc = "prop", NEW new,
           new = IF a.bt[rd.at].prop = 0 THEN [rd EXCEPT !.pc = "wait", !.seen = <<>>]
                 ELSE [rd EXCEPT !.pc = "reload"]
    PROVE  Goes(rd, shown, written, here, a, new)
<1>1. /\ rd \in ReaderRecords /\ here /\ AreaOK(a) /\ Holds(a, rd.name, shown)
      /\ ReaderOK(rd, shown, written, here, a) /\ Looks(rd, a.bt)
  BY DEF At, ReaderOK, Finding
<1>2. find_prop_bt(a.bt, rd.name).link = "none" /\ find_prop_bt(a.bt, rd.name).node = rd.at
  BY <1>1 DEF Looks
<1>3. CASE a.bt[rd.at].prop = 0
  <2>1. PropIn(a.bt, rd.name) = 0
    BY <1>2, <1>3 DEF PropIn
  <2>2. shown = Gone
    BY <1>1, <2>1 DEF Holds
  <2> QED
    BY <1>3, <2>2, SeesNothing DEF Goes
<1>4. CASE a.bt[rd.at].prop # 0
  <2>1. /\ new \in ReaderRecords /\ new.name = rd.name /\ new.api = rd.api /\ new.pc = "reload"
        /\ new.at = rd.at /\ new.could = rd.could /\ new.inPlace = rd.inPlace
    BY <1>1, <1>4 DEF ReaderRecords, Finding
  <2>2. Looks(new, a.bt)
    BY <1>2, <2>1 DEF Looks
  <2> QED
    BY <1>1, <2>1, <2>2 DEF ReaderOK, Finding, Reading, Current, Goes
<1> QED
  BY <1>3, <1>4

\* to_prop_info's second load: what stands there now is what is shown.
LEMMA ReloadStep ==
    ASSUME NEW rd, NEW shown, NEW written, NEW here, NEW a, At(rd, shown, written, here, a),
           rd.pc = "reload", NEW new, new = [rd EXCEPT !.pi = a.bt[rd.at].prop, !.pc = "serial"]
    PROVE  Goes(rd, shown, written, here, a, new)
<1>1. /\ rd \in ReaderRecords /\ here /\ AreaOK(a) /\ Holds(a, rd.name, shown)
      /\ ReaderOK(rd, shown, written, here, a) /\ Looks(rd, a.bt)
  BY DEF At, ReaderOK, Finding
<1> DEFINE p == a.bt[rd.at].prop
<1>2. p = PropIn(a.bt, rd.name)
  BY <1>1 DEF Looks, PropIn
<1>3. p \in Nat
  <2>1. CASE p = 0
    BY <2>1
  <2>2. CASE p # 0
    <3>1. p \in DOMAIN a.info
      BY <1>1, <1>2, <2>2 DEF Holds
    <3> QED
      BY <1>1, <3>1 DEF AreaOK
  <2> QED
    BY <2>1, <2>2
<1>4. new = [rd EXCEPT !.pi = p, !.pc = "serial"]
  OBVIOUS
<1> HIDE DEF p
<1>5. /\ new \in ReaderRecords /\ new.name = rd.name /\ new.api = rd.api /\ new.pc = "serial"
      /\ new.pi = p /\ new.could = rd.could /\ new.inPlace = rd.inPlace
  BY <1>1, <1>3, <1>4 DEF ReaderRecords, Reading
<1>6. shown[rd.api] \in rd.could /\ rd.api \in {"Read", "ReadCallback"}
  BY <1>1 DEF ReaderOK, ReaderRecords
<1>7. CASE p = 0
  <2>1. shown = Gone
    BY <1>1, <1>2, <1>7 DEF Holds
  <2>2. None \in new.could
    BY <1>5, <1>6, <2>1 DEF Gone
  <2>3. Reads(new, a)
    BY <1>5, <1>7, <2>2 DEF Reads
  <2> QED
    BY <1>1, <1>5, <2>3 DEF ReaderOK, Finding, Reading, Current, Goes
<1>8. CASE p # 0
  <2>1. /\ p \in DOMAIN a.info /\ a.info[p].name = rd.name
        /\ a.info[p].is_long => shown.ReadCallback = a.info[p].long_value
        /\ a.info[p].serial % 2 = 0 => ValueOf(a.info[p]) = shown
    BY <1>1, <1>2, <1>8 DEF Holds
  <2>2. a.info[p].is_long /\ rd.api = "ReadCallback" => a.info[p].long_value \in rd.could
    BY <1>6, <2>1
  <2>3. a.info[p].serial % 2 = 0 => ValueOf(a.info[p])[rd.api] \in rd.could
    BY <1>6, <2>1
  <2>4. Reads(new, a)
    BY <1>5, <1>8, <2>1, <2>2, <2>3 DEF Reads
  <2> QED
    BY <1>1, <1>5, <2>4 DEF ReaderOK, Finding, Reading, Current, Goes
<1> QED
  BY <1>7, <1>8

\* What a reader stands before, that has an offset: the root's words, or a prop_info.
LEMMA ReadingFacts ==
    ASSUME NEW rd, NEW shown, NEW written, NEW here, NEW a, At(rd, shown, written, here, a),
           rd.pc \in Reading, NEW info, info = InfoAt(a, rd.pi)
    PROVE  /\ rd \in ReaderRecords /\ here /\ ReaderOK(rd, shown, written, here, a) /\ Reads(rd, a)
           /\ rd.pi = 0 => info.serial = 0 /\ info.len = 0
           /\ rd.pi # 0 => /\ info = a.info[rd.pi] /\ InfoOK(info)
                           /\ info.name = rd.name
<1>1. /\ rd \in ReaderRecords /\ here /\ ReaderOK(rd, shown, written, here, a) /\ Reads(rd, a)
      /\ AreaOK(a)
  BY DEF At, ReaderOK, Finding, Reading
<1>2. ASSUME rd.pi = 0 PROVE info.serial = 0 /\ info.len = 0
  <2>1. ~ (Len(<<>>) >= PROP_VALUE_MAX) /\ Len(<<>>) = 0
    BY AreaAssumption
  <2>2. info = prop_info(<<>>, <<>>)
    BY <1>2 DEF InfoAt
  <2> QED
    BY <2>1, <2>2 DEF prop_info
<1>3. ASSUME rd.pi # 0 PROVE info = a.info[rd.pi] /\ InfoOK(info) /\ info.name = rd.name
  <2>1. info = a.info[rd.pi]
    BY <1>3 DEF InfoAt
  <2>2. rd.pi \in DOMAIN a.info /\ info.name = rd.name
    BY <1>1, <1>3, <2>1 DEF Reads
  <2> QED
    BY <1>1, <2>1, <2>2 DEF AreaOK
<1> QED
  BY <1>1, <1>2, <1>3

\* The load of the serial.
LEMMA SerialStep ==
    ASSUME NEW rd, NEW shown, NEW written, NEW here, NEW a, At(rd, shown, written, here, a),
           rd.pc = "serial", NEW info, info = InfoAt(a, rd.pi), NEW new,
           new = [rd EXCEPT !.serial = info.serial, !.len = info.len, !.got = <<>>,
                            !.pc = IF info.serial % 2 = 1 THEN "dirty" ELSE "copy"]
    PROVE  Goes(rd, shown, written, here, a, new)
<1>1. /\ rd \in ReaderRecords /\ here /\ ReaderOK(rd, shown, written, here, a) /\ Reads(rd, a)
      /\ rd.pi = 0 => info.serial = 0 /\ info.len = 0
      /\ rd.pi # 0 => info = a.info[rd.pi] /\ InfoOK(info) /\ info.name = rd.name
  BY ReadingFacts DEF Reading
<1>2. info.serial \in Nat /\ info.len \in Nat
  BY <1>1 DEF InfoOK, Info
<1> DEFINE s == info.serial
           n == info.len
           none == <<>>
           pc == IF s % 2 = 1 THEN "dirty" ELSE "copy"
<1>3. none \in Seq(Int) /\ pc \in {"dirty", "copy"} /\ Len(none) = 0 /\ \A j \in 1 .. Len(none) : FALSE
  OBVIOUS
<1>4. new = [rd EXCEPT !.serial = s, !.len = n, !.got = none, !.pc = pc]
  OBVIOUS
<1>5. s \in Nat /\ n \in Nat /\ (pc = "copy" => s % 2 = 0)
  BY <1>2
<1>6. rd.pi = 0 => s = 0 /\ n = 0 /\ pc = "copy"
  <2>1. 0 % 2 = 0
    OBVIOUS
  <2> QED
    BY <1>1, <2>1
<1>7. info.serial = s /\ info.len = n
  OBVIOUS
<1>12. none = <<>>
  OBVIOUS
<1> HIDE DEF s, n, none, pc
<1>8. /\ new \in ReaderRecords /\ new.name = rd.name /\ new.api = rd.api /\ new.pc = pc
      /\ new.pi = rd.pi /\ new.could = rd.could /\ new.inPlace = rd.inPlace
      /\ new.serial = s /\ new.len = n /\ new.got = none
  BY <1>1, <1>3, <1>4, <1>5 DEF ReaderRecords, Reading
<1>9. CASE rd.pi = 0
  <2>1. Reads(new, a)
    BY <1>1, <1>6, <1>8, <1>9, <1>12 DEF Reads
  <2> QED
    BY <1>1, <1>3, <1>8, <2>1 DEF ReaderOK, Finding, Reading, Current, Goes
<1>10. CASE rd.pi # 0
  <2>1. n < PROP_VALUE_MAX /\ 0 < PROP_VALUE_MAX /\ 0 <= n /\ s <= s /\ PROP_VALUE_MAX \in Nat
    BY <1>1, <1>5, <1>7, <1>10, AreaAssumption DEF InfoOK
  <2>2. /\ rd.pi \in DOMAIN a.info /\ info.name = rd.name
        /\ info.is_long /\ rd.api = "ReadCallback" => info.long_value \in rd.could
        /\ info.serial % 2 = 0 => ValueOf(info)[rd.api] \in rd.could
    BY <1>1, <1>10 DEF Reads
  <2>3. Reads(new, a)
    BY <1>1, <1>3, <1>5, <1>7, <1>8, <1>10, <2>1, <2>2 DEF Reads
  <2> QED
    BY <1>1, <1>3, <1>8, <2>3 DEF ReaderOK, Finding, Reading, Current, Goes
<1> QED
  BY <1>9, <1>10

\* A reader that starts its read over, or sleeps.
LEMMA AgainStep ==
    ASSUME NEW rd, NEW shown, NEW written, NEW here, NEW a, At(rd, shown, written, here, a),
           rd.pc \in Reading, NEW pc \in {"serial", "asleep"}, NEW new, new = [rd EXCEPT !.pc = pc]
    PROVE  Goes(rd, shown, written, here, a, new)
<1>1. rd \in ReaderRecords /\ here /\ ReaderOK(rd, shown, written, here, a) /\ Reads(rd, a)
  BY DEF At, ReaderOK, Finding, Reading
<1>2. /\ new \in ReaderRecords /\ new.name = rd.name /\ new.api = rd.api /\ new.pc = pc
      /\ new.pi = rd.pi /\ new.could = rd.could /\ new.inPlace = rd.inPlace
  BY <1>1 DEF ReaderRecords, Reading
<1>3. Reads(new, a)
  BY <1>1, <1>2 DEF Reads
<1> QED
  BY <1>1, <1>2, <1>3 DEF ReaderOK, Finding, Reading, Current, Goes

-----------------------------------------------------------------------------
\* A value the reader could have read is one it can see.
LEMMA CouldSee ==
    ASSUME NEW rd, NEW v \in Told, v \in rd.could
    PROVE  CanSee(rd, v)
<1>1. v = Text(v)
  BY TextOfValue
<1> QED
  BY <1>1 DEF CanSee

\* Characters that are those of the cells are the value.
LEMMA CellsAreValue ==
    ASSUME NEW info, NEW got \in Seq(Int), info.len \in Nat, Len(got) = info.len,
           \A j \in 1 .. Len(got) : got[j] = info.value[j]
    PROVE  got = [i \in 1 .. info.len |-> info.value[i]]
<1>1. Len(got) \in Nat /\ got = [i \in 1 .. Len(got) |-> got[i]]
  OBVIOUS
<1> QED
  BY <1>1

\* A reader that has copied more of a value.
CopiedMore(rd, new, info) ==
    /\ rd.pi # 0 /\ rd.pc = "copy" /\ new.pc = "copy" /\ new.name = rd.name /\ new.api = rd.api
    /\ new.pi = rd.pi /\ new.could = rd.could /\ new.inPlace = rd.inPlace
    /\ new.serial = rd.serial /\ new.len = rd.len
    /\ Len(new.got) < PROP_VALUE_MAX
    /\ rd.api = "Read" \/ ~is_read_only(rd.name) => Len(new.got) <= rd.len
    /\ rd.serial = info.serial =>
         /\ rd.len = info.len
         /\ Len(new.got) <= info.len
         /\ \A j \in 1 .. Len(new.got) : new.got[j] = info.value[j]

\* What it has copied is what stands there, unless the serial has moved.
LEMMA GotMore ==
    ASSUME NEW rd, NEW new, NEW a, Reads(rd, a), CopiedMore(rd, new, a.info[rd.pi])
    PROVE  Reads(new, a)
BY DEF Reads, CopiedMore

\* A character, or the end of the value.
LEMMA CellStep ==
    ASSUME NEW rd, NEW shown, NEW written, NEW here, NEW a, At(rd, shown, written, here, a),
           rd.pc = "copy", NEW info, info = InfoAt(a, rd.pi),
           NEW asis, asis = (rd.api = "ReadCallback" /\ is_read_only(rd.name) /\ rd.pi # 0),
           NEW cell, cell = info.value[Len(rd.got) + 1],
           NEW end, end = IF asis THEN cell = NUL ELSE Len(rd.got) = rd.len,
           NEW new,
           new = IF asis /\ info.is_long THEN [rd EXCEPT !.pc = "wait", !.seen = info.long_value]
                 ELSE IF ~end THEN [rd EXCEPT !.got = Append(rd.got, cell)]
                 ELSE IF asis THEN [rd EXCEPT !.pc = "wait", !.seen = rd.got]
                 ELSE [rd EXCEPT !.pc = "check"]
    PROVE  Goes(rd, shown, written, here, a, new)
<1>1. /\ rd \in ReaderRecords /\ here /\ ReaderOK(rd, shown, written, here, a) /\ Reads(rd, a)
      /\ rd.pi # 0 => info = a.info[rd.pi] /\ InfoOK(info) /\ info.name = rd.name
  BY ReadingFacts DEF Reading
<1>2. /\ rd.got \in Seq(Int) /\ Len(rd.got) \in Nat /\ rd.len \in Nat /\ rd.serial \in Nat
      /\ rd.api \in {"Read", "ReadCallback"}
  BY <1>1 DEF ReaderRecords
<1>3. CASE rd.pi = 0
  <2>1. rd.serial = 0 /\ rd.len = 0 /\ rd.got = <<>> /\ Len(rd.got) = 0 /\ None \in rd.could
    BY <1>1, <1>3 DEF Reads
  <2>2. ~asis
    BY <1>3
  <2>3. end
    BY <2>1, <2>2
  <2>4. new = [rd EXCEPT !.pc = "check"]
    BY <2>2, <2>3
  <2>5. /\ new \in ReaderRecords /\ new.name = rd.name /\ new.api = rd.api /\ new.pc = "check"
        /\ new.pi = rd.pi /\ new.could = rd.could /\ new.inPlace = rd.inPlace
        /\ new.serial = rd.serial /\ new.len = rd.len /\ new.got = rd.got
    BY <1>1, <2>4 DEF ReaderRecords, Reading
  <2>6. Reads(new, a)
    BY <1>3, <2>1, <2>5 DEF Reads
  <2> QED
    BY <1>1, <2>5, <2>6 DEF ReaderOK, Finding, Reading, Current, Goes
<1>4. CASE rd.pi # 0
  <2>1. info = a.info[rd.pi] /\ InfoOK(info) /\ info.name = rd.name
    BY <1>1, <1>4
  <2>2. /\ info.long_value \in Told /\ info.len \in Nat /\ info.serial \in Nat
        /\ info.value \in [1 .. PROP_VALUE_MAX -> Int] /\ info.len < PROP_VALUE_MAX
        /\ info.value[PROP_VALUE_MAX] = NUL /\ info.is_long \in BOOLEAN
        /\ info.is_long => is_read_only(info.name)
        /\ info.serial % 2 = 0 => /\ \A i \in 1 .. info.len : info.value[i] # NUL
                                  /\ info.value[info.len + 1] = NUL
    BY <2>1 DEF InfoOK, Info, Told
  <2>3. /\ rd.pi \in DOMAIN a.info
        /\ info.is_long /\ rd.api = "ReadCallback" => info.long_value \in rd.could
        /\ info.serial % 2 = 0 => ValueOf(info)[rd.api] \in rd.could
        /\ rd.serial % 2 = 0 /\ rd.serial <= info.serial
        /\ rd.inPlace \/ rd.serial = info.serial
        /\ Len(rd.got) < PROP_VALUE_MAX /\ rd.len < PROP_VALUE_MAX
        /\ rd.api = "Read" \/ ~is_read_only(rd.name) => Len(rd.got) <= rd.len
        /\ rd.serial = info.serial =>
             /\ rd.len = info.len
             /\ Len(rd.got) <= info.len
             /\ \A j \in 1 .. Len(rd.got) : rd.got[j] = info.value[j]
    BY <1>1, <1>4, <2>1 DEF Reads
  <2>4. asis <=> ~(rd.api = "Read" \/ ~is_read_only(rd.name))
    BY <1>2, <1>4
  <2>5. PROP_VALUE_MAX \in Nat /\ Len(rd.got) + 1 \in 1 .. PROP_VALUE_MAX /\ cell \in Int
    <3>1. PROP_VALUE_MAX \in Nat
      BY AreaAssumption
    <3>2. Len(rd.got) + 1 \in 1 .. PROP_VALUE_MAX
      BY <1>2, <2>3, <3>1
    <3> QED
      BY <2>2, <3>1, <3>2
  <2>10. (asis => (end <=> cell = NUL)) /\ (~asis => (end <=> Len(rd.got) = rd.len))
    OBVIOUS
  <2>6. CASE asis /\ info.is_long
    <3>1. CanSee(rd, info.long_value)
      BY <2>2, <2>3, <2>6, CouldSee
    <3>2. new = [rd EXCEPT !.pc = "wait", !.seen = info.long_value]
      BY <2>6
    <3> QED
      BY <3>1, <3>2, SeesValue DEF Goes
  <2>7. CASE ~(asis /\ info.is_long) /\ ~end
    <3> DEFINE got == Append(rd.got, cell)
    <3>1. /\ got \in Seq(Int) /\ Len(got) = Len(rd.got) + 1 /\ got[Len(rd.got) + 1] = cell
          /\ \A j \in 1 .. Len(rd.got) : got[j] = rd.got[j]
      BY <1>2, <2>5
    <3>2. new = [rd EXCEPT !.got = got]
      BY <2>7
    <3> HIDE DEF got
    <3>3. /\ new \in ReaderRecords /\ new.name = rd.name /\ new.api = rd.api /\ new.pc = "copy"
          /\ new.pi = rd.pi /\ new.could = rd.could /\ new.inPlace = rd.inPlace
          /\ new.serial = rd.serial /\ new.len = rd.len /\ new.got = got
      BY <1>1, <3>1, <3>2 DEF ReaderRecords
    <3>4. ~asis => Len(got) <= rd.len
      <4>1. ~asis => Len(rd.got) # rd.len /\ Len(rd.got) <= rd.len
        BY <2>3, <2>4, <2>7, <2>10
      <4> QED
        BY <1>2, <3>1, <4>1
    <3>5. Len(got) < PROP_VALUE_MAX
      <4>1. CASE asis
        <5>1. Len(rd.got) + 1 # PROP_VALUE_MAX
          BY <2>2, <2>7, <4>1
        <5> QED
          BY <1>2, <2>5, <3>1, <5>1
      <4>2. CASE ~asis
        BY <1>2, <2>3, <2>5, <3>1, <3>4, <4>2
      <4> QED
        BY <4>1, <4>2
    <3>6. ASSUME rd.serial = info.serial
          PROVE  /\ rd.len = info.len
                 /\ Len(got) <= info.len
                 /\ \A j \in 1 .. Len(got) : got[j] = info.value[j]
      <4>1. /\ rd.len = info.len /\ Len(rd.got) <= info.len
            /\ \A j \in 1 .. Len(rd.got) : rd.got[j] = info.value[j]
        BY <2>3, <3>6
      <4>2. Len(got) <= info.len
        <5>1. CASE asis
          <6>1. info.value[info.len + 1] = NUL
            BY <2>2, <2>3, <3>6
          <6>2. Len(rd.got) # info.len
            BY <2>7, <5>1, <6>1
          <6> QED
            BY <1>2, <2>2, <3>1, <4>1, <6>2
        <5>2. CASE ~asis
          BY <3>4, <4>1, <5>2
        <5> QED
          BY <5>1, <5>2
      <4>3. ASSUME NEW j \in 1 .. Len(got) PROVE got[j] = info.value[j]
        <5>1. j \in 1 .. Len(rd.got) \/ j = Len(rd.got) + 1
          BY <1>2, <3>1
        <5> QED
          BY <3>1, <4>1, <5>1
      <4> QED
        BY <4>1, <4>2, <4>3
    <3>7. rd.api = "Read" \/ ~is_read_only(rd.name) => Len(got) <= rd.len
      BY <2>4, <3>4
    <3>8. Reads(new, a)
      <4>1. /\ Len(new.got) < PROP_VALUE_MAX
            /\ rd.api = "Read" \/ ~is_read_only(rd.name) => Len(new.got) <= rd.len
        BY <3>3, <3>5, <3>7
      <4>2. rd.serial = info.serial =>
              /\ rd.len = info.len
              /\ Len(new.got) <= info.len
              /\ \A j \in 1 .. Len(new.got) : new.got[j] = info.value[j]
        BY <3>3, <3>6
      <4>3. CopiedMore(rd, new, info)
        BY <1>4, <3>3, <4>1, <4>2 DEF CopiedMore
      <4>4. CopiedMore(rd, new, a.info[rd.pi])
        BY <2>1, <4>3
      <4> QED
        BY <1>1, <4>4, GotMore
    <3> QED
      BY <1>1, <3>3, <3>8 DEF ReaderOK, Finding, Reading, Current, Goes
  <2>8. CASE ~(asis /\ info.is_long) /\ end /\ asis
    <3>1. CanSee(rd, rd.got)
      <4>1. CASE rd.inPlace
        BY <1>2, <2>4, <2>8, <4>1 DEF CanSee, Told
      <4>2. CASE ~rd.inPlace
        <5>1. rd.serial = info.serial /\ info.serial % 2 = 0
          BY <2>3, <4>2
        <5>2. cell = NUL /\ ~info.is_long /\ rd.api = "ReadCallback"
          BY <2>8
        <5>3. Len(rd.got) + 1 \notin 1 .. info.len
          BY <2>2, <5>1, <5>2
        <5>4. Len(rd.got) = info.len
          BY <1>2, <2>2, <2>3, <5>1, <5>3
        <5>5. rd.got = [i \in 1 .. info.len |-> info.value[i]]
          BY <1>2, <2>2, <2>3, <5>1, <5>4, CellsAreValue
        <5>6. rd.got = ValueOf(info)["ReadCallback"]
          BY <5>2, <5>5 DEF ValueOf
        <5>7. rd.got \in rd.could
          BY <2>3, <5>1, <5>2, <5>6
        <5> QED
          BY <1>2, <5>7, CouldSee DEF Told
      <4> QED
        BY <4>1, <4>2
    <3>2. new = [rd EXCEPT !.pc = "wait", !.seen = rd.got]
      BY <2>8
    <3> QED
      BY <3>1, <3>2, SeesValue DEF Goes
  <2>9. CASE end /\ ~asis
    <3>1. new = [rd EXCEPT !.pc = "check"]
      BY <2>9
    <3>2. /\ new \in ReaderRecords /\ new.name = rd.name /\ new.api = rd.api /\ new.pc = "check"
          /\ new.pi = rd.pi /\ new.could = rd.could /\ new.inPlace = rd.inPlace
          /\ new.serial = rd.serial /\ new.len = rd.len /\ new.got = rd.got
      BY <1>1, <3>1 DEF ReaderRecords, Reading
    <3>3. Len(rd.got) = rd.len
      BY <2>9
    <3>4. Reads(new, a)
      BY <1>4, <2>1, <2>3, <2>4, <2>9, <3>2, <3>3 DEF Reads
    <3> QED
      BY <1>1, <3>2, <3>4 DEF ReaderOK, Finding, Reading, Current, Goes
  <2> QED
    BY <2>6, <2>7, <2>8, <2>9
<1> QED
  BY <1>3, <1>4

\* The comparison of the serial: what was copied is the value it stands for.
LEMMA CheckStep ==
    ASSUME NEW rd, NEW shown, NEW written, NEW here, NEW a, At(rd, shown, written, here, a),
           rd.pc = "check", NEW info, info = InfoAt(a, rd.pi), NEW new,
           new = IF info.serial = rd.serial /\ info.len = rd.len
                 THEN [rd EXCEPT !.pc = "wait", !.seen = rd.got] ELSE [rd EXCEPT !.pc = "serial"]
    PROVE  Goes(rd, shown, written, here, a, new)
<1>1. /\ rd \in ReaderRecords /\ here /\ ReaderOK(rd, shown, written, here, a) /\ Reads(rd, a)
      /\ rd.pi # 0 => info = a.info[rd.pi] /\ InfoOK(info) /\ info.name = rd.name
  BY ReadingFacts DEF Reading
<1>2. rd.got \in Seq(Int) /\ rd.api \in {"Read", "ReadCallback"}
  BY <1>1 DEF ReaderRecords
<1>3. CASE ~(info.serial = rd.serial /\ info.len = rd.len)
  BY <1>3, AgainStep DEF Reading
<1>4. CASE info.serial = rd.serial /\ info.len = rd.len
  <2>1. CanSee(rd, rd.got)
    <3>1. CASE rd.pi = 0
      <4>1. None \in rd.could /\ rd.got = <<>>
        BY <1>1, <3>1 DEF Reads
      <4>2. rd.got = Text(None)
        BY <4>1 DEF Text
      <4> QED
        BY <1>2, <4>1, <4>2 DEF CanSee, Told
    <3>2. CASE rd.pi # 0
      <4>1. info = a.info[rd.pi] /\ InfoOK(info) /\ info.name = rd.name
        BY <1>1, <3>2
      <4>2. info.len \in Nat /\ info.is_long \in BOOLEAN /\ (info.is_long => is_read_only(info.name))
        BY <4>1 DEF InfoOK, Info
      <4>3. /\ info.serial % 2 = 0 /\ ValueOf(info)[rd.api] \in rd.could
            /\ Len(rd.got) = info.len /\ (rd.api = "Read" \/ ~is_read_only(rd.name))
            /\ \A j \in 1 .. Len(rd.got) : rd.got[j] = info.value[j]
        BY <1>1, <1>4, <3>2, <4>1 DEF Reads
      <4>4. rd.got = [i \in 1 .. info.len |-> info.value[i]]
        BY <1>2, <4>2, <4>3, CellsAreValue
      <4>5. rd.got = ValueOf(info)[rd.api]
        <5>1. CASE rd.api = "Read"
          BY <4>4, <5>1 DEF ValueOf
        <5>2. CASE rd.api = "ReadCallback"
          <6>1. ~info.is_long
            BY <4>1, <4>2, <4>3, <5>2
          <6> QED
            BY <4>4, <5>2, <6>1 DEF ValueOf
        <5> QED
          BY <1>2, <5>1, <5>2
      <4> QED
        BY <1>2, <4>3, <4>5, CouldSee DEF Told
    <3> QED
      BY <3>1, <3>2
  <2>2. new = [rd EXCEPT !.pc = "wait", !.seen = rd.got]
    BY <1>4
  <2> QED
    BY <2>1, <2>2, SeesValue DEF Goes
<1> QED
  BY <1>3, <1>4

\* A reader that has read waits for the next change.
LEMMA WaitStep ==
    ASSUME NEW rd, NEW shown, NEW written, NEW here, NEW a, At(rd, shown, written, here, a),
           rd.pc \in {"wait", "load"}, NEW pc \in {"wait", "waiting", "load"}, NEW new,
           new = [rd EXCEPT !.pc = pc]
    PROVE  Goes(rd, shown, written, here, a, new)
<1>1. rd \in ReaderRecords /\ ReaderOK(rd, shown, written, here, a)
  BY DEF At
<1>2. /\ new \in ReaderRecords /\ new.name = rd.name /\ new.api = rd.api /\ new.pc = pc
      /\ new.seen = rd.seen /\ new.could = rd.could /\ new.inPlace = rd.inPlace
  BY <1>1 DEF ReaderRecords
<1>3. Current(rd)
  BY <1>1 DEF ReaderOK
<1>4. Current(new)
  BY <1>2, <1>3 DEF Current
<1> QED
  BY <1>1, <1>2, <1>4 DEF ReaderOK, Finding, Reading, Goes

\* The area of the property does not open.
LEMMA DeniedStep ==
    ASSUME NEW rd, NEW shown, NEW written, NEW here, NEW a, At(rd, shown, written, here, a),
           rd.pc = "denied", NEW new, new = [rd EXCEPT !.pc = "wait", !.seen = <<>>]
    PROVE  Goes(rd, shown, written, here, a, new)
<1>1. shown = Gone
  BY DEF At, ReaderOK
<1> QED
  BY <1>1, SeesNothing DEF Goes

-----------------------------------------------------------------------------
\* Everything but the readers, as it was.
LEMMA RestStays ==
    ASSUME Areas, Agree, OddIsWritten, MutOK, ToolOK, Lasting,
           UNCHANGED <<world, contextOf, area, serial_, mut, value, crashed>>, UNCHANGED toolVars
    PROVE  /\ Areas' /\ Agree' /\ OddIsWritten' /\ MutOK' /\ ToolOK' /\ Lasting'
           /\ \A n : GetPropAreaForName(n)' = GetPropAreaForName(n)
           /\ \A n : Written(n)' = Written(n)
<1>1. \A n : GetPropAreaForName(n)' = GetPropAreaForName(n)
  BY DEF GetPropAreaForName, map_prop_area, World
<1>2. \A n : find(n)' = find(n)
  BY <1>1 DEF find
<1>3. \A n : Written(n)' = Written(n)
  BY DEF Written
<1>4. Areas'
  BY DEF Areas
<1>5. Agree'
  BY <1>1 DEF Agree
<1>6. OddIsWritten'
  BY <1>1, <1>2, <1>3 DEF OddIsWritten, Odd
<1>7. MutOK'
  <2>1. Context' = Context
    BY <1>1 DEF Context
  <2>2. Area' = Area
    BY <2>1 DEF Area
  <2> QED
    BY <2>1, <2>2 DEF MutOK
<1>8. ToolOK'
  <2>1. Requests'
    BY DEF ToolOK, Requests, toolVars, Name, Value
  <2>2. Owner'
    BY DEF ToolOK, Owner, toolVars, Name, Value
  <2>3. tool.op = "delete" /\ tool # Resting => Persisting'
    BY DEF ToolOK, Persisting, toolVars, Name
  <2> QED
    BY <2>1, <2>2, <2>3 DEF ToolOK, toolVars
<1>9. Lasting'
  <2>1. stored(last.name, last.persist)' = stored(last.name, last.persist)
    BY <1>1, <1>2 DEF stored, persist_getprop, toolVars
  <2>2. detect_protocol_version' = detect_protocol_version
    BY DEF detect_protocol_version, World
  <2> QED
    BY <2>1, <2>2 DEF Lasting, toolVars
<1> QED
  BY <1>1, <1>3, <1>4, <1>5, <1>6, <1>7, <1>8, <1>9

\* What a reader stands before.
LEMMA ReaderAt ==
    ASSUME Inv, NEW r \in Readers
    PROVE  At(reads[r], value[reads[r].name], Written(reads[r].name),
              GetPropAreaForName(reads[r].name) # None, TheArea(r))
<1>1. reads[r] \in ReaderRecords /\ reads[r].name \in Names
  BY DEF Inv, ReadersOK, ReaderRecords
<1>2. reads[r].name \in Names_ /\ value[reads[r].name] \in Shown
  BY <1>1, NamesAreNames DEF Inv, Areas
<1>3. Written(reads[r].name) \in BOOLEAN
  BY DEF Written
<1>4. GetPropAreaForName(reads[r].name) = None => value[reads[r].name] = Gone
  BY <1>1 DEF Inv, Agree
<1>5. GetPropAreaForName(reads[r].name) # None =>
        AreaOK(TheArea(r)) /\ Holds(TheArea(r), reads[r].name, value[reads[r].name])
  <2> SUFFICES ASSUME GetPropAreaForName(reads[r].name) # None
               PROVE  AreaOK(TheArea(r)) /\ Holds(TheArea(r), reads[r].name, value[reads[r].name])
    OBVIOUS
  <2>1. GetPropAreaForName(reads[r].name) \in DOMAIN area
    BY <1>1, Place DEF Inv
  <2> QED
    BY <1>1, <2>1 DEF Inv, Areas, Agree, TheArea
<1> QED
  BY <1>1, <1>2, <1>3, <1>4, <1>5 DEF At, Inv, ReadersOK

\* A reader's step that keeps its record sound keeps everything.
LEMMA OneReads ==
    ASSUME Inv, UNCHANGED <<world, contextOf, area, serial_, mut, value, crashed>>, UNCHANGED toolVars,
           NEW r \in Readers, NEW new, reads' = [reads EXCEPT ![r] = new],
           Goes(reads[r], value[reads[r].name], Written(reads[r].name),
                GetPropAreaForName(reads[r].name) # None, TheArea(r), new)
    PROVE  Inv'
<1>1. /\ Areas' /\ Agree' /\ OddIsWritten' /\ MutOK' /\ ToolOK' /\ Lasting'
      /\ \A n : GetPropAreaForName(n)' = GetPropAreaForName(n)
      /\ \A n : Written(n)' = Written(n)
  BY RestStays DEF Inv
<1>2. reads \in [Readers -> ReaderRecords] /\ new \in ReaderRecords /\ new.name = reads[r].name
  BY DEF Inv, ReadersOK, Goes
<1>3. reads' \in [Readers -> ReaderRecords]
  BY <1>2
<1>4. ASSUME NEW q \in Readers
      PROVE  ReaderOK(reads[q], value[reads[q].name], Written(reads[q].name),
                      GetPropAreaForName(reads[q].name) # None, TheArea(q))'
  <2>1. CASE q = r
    <3>1. reads'[q] = new
      BY <1>2, <2>1
    <3>2. TheArea(q)' = TheArea(r)
      BY <1>1, <1>2, <3>1 DEF TheArea
    <3> QED
      BY <1>1, <1>2, <3>1, <3>2 DEF Goes
  <2>2. CASE q # r
    <3>1. reads'[q] = reads[q]
      BY <1>2, <2>2
    <3>2. TheArea(q)' = TheArea(q)
      BY <1>1, <3>1 DEF TheArea
    <3> QED
      BY <1>1, <3>1, <3>2 DEF Inv, ReadersOK
  <2> QED
    BY <2>1, <2>2
<1>5. ReadersOK'
  BY <1>3, <1>4 DEF ReadersOK
<1> QED
  BY <1>1, <1>5 DEF Inv

\* Every step of a reader keeps the invariant.
LEMMA ReadKeeps == ASSUME Inv, NEW r \in Readers, ReadStep(r) PROVE Inv'
<1> DEFINE rd == reads[r]
           shown == value[reads[r].name]
           written == Written(reads[r].name)
           here == GetPropAreaForName(reads[r].name) # None
           a == TheArea(r)
<1>1. At(rd, shown, written, here, a)
  BY ReaderAt
<1>2. UNCHANGED <<world, contextOf, area, serial_, mut, value, crashed>> /\ UNCHANGED toolVars
  BY DEF ReadStep, Read
<1>3. serial_ \in Nat
  BY DEF Inv, Areas
<1> SUFFICES \E new : reads' = [reads EXCEPT ![r] = new] /\ Goes(rd, shown, written, here, a, new)
  BY <1>2, OneReads
<1>4. ASSUME BeginFind(r, serial_)
      PROVE  \E new : reads' = [reads EXCEPT ![r] = new] /\ Goes(rd, shown, written, here, a, new)
  <2> DEFINE pc == IF here THEN "children" ELSE "denied"
             new == [rd EXCEPT !.old = serial_, !.at = 0, !.i = 1, !.got = <<>>,
                               !.could = {shown[rd.api]}, !.inPlace = written, !.pc = pc]
  <2>1. reads' = [reads EXCEPT ![r] = new]
    BY <1>4 DEF BeginFind, Change, Written
  <2>2. Goes(rd, shown, written, here, a, new)
    <3> HIDE DEF rd, shown, written, here, a
    <3> QED
      BY <1>1, <1>3, Begins
  <2> QED
    BY <2>1, <2>2
<1>5. CASE AreaSerial(r)
  BY <1>4, <1>5 DEF AreaSerial
<1>6. CASE Denied(r)
  <2> DEFINE new == [rd EXCEPT !.pc = "wait", !.seen = <<>>]
  <2>1. rd.pc = "denied" /\ reads' = [reads EXCEPT ![r] = new]
    BY <1>6 DEF Denied, Seen, Change
  <2>2. Goes(rd, shown, written, here, a, new)
    <3> HIDE DEF rd, shown, written, here, a
    <3> QED
      BY <1>1, <2>1, DeniedStep
  <2> QED
    BY <2>1, <2>2
<1>7. CASE LoadChildren(r)
  <2> DEFINE child == a.bt[rd.at].link["children"]
             new == IF child = 0 THEN [rd EXCEPT !.pc = "wait", !.seen = <<>>]
                    ELSE [rd EXCEPT !.at = child, !.pc = "sibling"]
  <2>1. rd.pc = "children" /\ reads' = [reads EXCEPT ![r] = new]
    BY <1>7 DEF LoadChildren, Seen, Change
  <2>2. Goes(rd, shown, written, here, a, new)
    <3> HIDE DEF rd, shown, written, here, a
    <3> QED
      BY <1>1, <2>1, ChildrenStep
  <2> QED
    BY <2>1, <2>2
<1>8. CASE LoadSibling(r)
  <2> DEFINE node == a.bt[rd.at]
             next == node.link[Side(rd.name[rd.i], node)]
             new == IF node.token = rd.name[rd.i]
                    THEN IF rd.i = Len(rd.name) THEN [rd EXCEPT !.pc = "prop"]
                         ELSE [rd EXCEPT !.i = rd.i + 1, !.pc = "children"]
                    ELSE IF next = 0 THEN [rd EXCEPT !.pc = "wait", !.seen = <<>>]
                    ELSE [rd EXCEPT !.at = next]
  <2>1. rd.pc = "sibling" /\ reads' = [reads EXCEPT ![r] = new]
    BY <1>8, SMTT(30) DEF LoadSibling, Seen, Change, To
  <2>2. Goes(rd, shown, written, here, a, new)
    <3> HIDE DEF rd, shown, written, here, a
    <3> QED
      BY <1>1, <2>1, SiblingStep, Zenon
  <2> QED
    BY <2>1, <2>2, ZenonT(30)
<1>9. CASE LoadProp(r)
  <2> DEFINE new == IF a.bt[rd.at].prop = 0 THEN [rd EXCEPT !.pc = "wait", !.seen = <<>>]
                    ELSE [rd EXCEPT !.pc = "reload"]
  <2>1. rd.pc = "prop" /\ reads' = [reads EXCEPT ![r] = new]
    BY <1>9 DEF LoadProp, Seen, Change, To
  <2>2. Goes(rd, shown, written, here, a, new)
    <3> HIDE DEF rd, shown, written, here, a
    <3> QED
      BY <1>1, <2>1, PropStep
  <2> QED
    BY <2>1, <2>2
<1>10. CASE ReloadProp(r)
  <2> DEFINE new == [rd EXCEPT !.pi = a.bt[rd.at].prop, !.pc = "serial"]
  <2>1. rd.pc = "reload" /\ reads' = [reads EXCEPT ![r] = new]
    BY <1>10 DEF ReloadProp, Change
  <2>2. Goes(rd, shown, written, here, a, new)
    <3> HIDE DEF rd, shown, written, here, a
    <3> QED
      BY <1>1, <2>1, ReloadStep
  <2> QED
    BY <2>1, <2>2
<1>11. CASE Serial(r)
  <2> DEFINE info == InfoAt(a, rd.pi)
             new == [rd EXCEPT !.serial = info.serial, !.len = info.len, !.got = <<>>,
                               !.pc = IF info.serial % 2 = 1 THEN "dirty" ELSE "copy"]
  <2>1. rd.pc = "serial" /\ reads' = [reads EXCEPT ![r] = new]
    BY <1>11 DEF Serial, Change
  <2>2. Goes(rd, shown, written, here, a, new)
    <3> HIDE DEF rd, shown, written, here, a
    <3> QED
      BY <1>1, <2>1, SerialStep
  <2> QED
    BY <2>1, <2>2
<1>12. CASE FutexWait(r)
  <2> DEFINE pc == IF InfoAt(a, rd.pi).serial = rd.serial THEN "asleep" ELSE "serial"
             new == [rd EXCEPT !.pc = pc]
  <2>1. rd.pc = "dirty" /\ reads' = [reads EXCEPT ![r] = new]
    BY <1>12 DEF FutexWait, Change, To
  <2>2. Goes(rd, shown, written, here, a, new)
    <3> HIDE DEF rd, shown, written, here, a
    <3> QED
      BY <1>1, <2>1, AgainStep DEF Reading
  <2> QED
    BY <2>1, <2>2
<1>13. CASE ReadCell(r)
  <2> DEFINE info == InfoAt(a, rd.pi)
             asis == rd.api = "ReadCallback" /\ is_read_only(rd.name) /\ rd.pi # 0
             cell == info.value[Len(rd.got) + 1]
             end == IF asis THEN cell = NUL ELSE Len(rd.got) = rd.len
             new == IF asis /\ info.is_long THEN [rd EXCEPT !.pc = "wait", !.seen = info.long_value]
                    ELSE IF ~end THEN [rd EXCEPT !.got = Append(rd.got, cell)]
                    ELSE IF asis THEN [rd EXCEPT !.pc = "wait", !.seen = rd.got]
                    ELSE [rd EXCEPT !.pc = "check"]
  <2>1. rd.pc = "copy" /\ reads' = [reads EXCEPT ![r] = new]
    BY <1>13 DEF ReadCell, NotCopied, Seen, Change, To
  <2>2. Goes(rd, shown, written, here, a, new)
    <3> HIDE DEF rd, shown, written, here, a
    <3> QED
      BY <1>1, <2>1, CellStep
  <2> QED
    BY <2>1, <2>2
<1>14. CASE CheckSerial(r)
  <2> DEFINE info == InfoAt(a, rd.pi)
             new == IF info.serial = rd.serial /\ info.len = rd.len
                    THEN [rd EXCEPT !.pc = "wait", !.seen = rd.got] ELSE [rd EXCEPT !.pc = "serial"]
  <2>1. rd.pc = "check" /\ reads' = [reads EXCEPT ![r] = new]
    BY <1>14 DEF CheckSerial, Seen, Change, To
  <2>2. Goes(rd, shown, written, here, a, new)
    <3> HIDE DEF rd, shown, written, here, a
    <3> QED
      BY <1>1, <2>1, CheckStep
  <2> QED
    BY <2>1, <2>2
<1>15. ASSUME NEW pc \in {"wait", "waiting", "load"}, rd.pc \in {"wait", "load"}, To(r, pc)
       PROVE  \E new : reads' = [reads EXCEPT ![r] = new] /\ Goes(rd, shown, written, here, a, new)
  <2> DEFINE new == [rd EXCEPT !.pc = pc]
  <2>1. reads' = [reads EXCEPT ![r] = new]
    BY <1>15 DEF Change, To
  <2>2. Goes(rd, shown, written, here, a, new)
    <3> HIDE DEF rd, shown, written, here, a
    <3> QED
      BY <1>1, <1>15, WaitStep
  <2> QED
    BY <2>1, <2>2
<1>16. CASE WaitAny(r)
  <2> DEFINE pc == IF serial_ = rd.old THEN "waiting" ELSE "load"
  <2>1. rd.pc \in {"wait", "load"} /\ To(r, pc) /\ pc \in {"wait", "waiting", "load"}
    BY <1>16 DEF WaitAny
  <2> HIDE DEF pc, rd, shown, written, here, a
  <2> QED
    BY <2>1, <1>15
<1>17. CASE LoadSerial(r)
  <2>1. CASE serial_ = rd.old
    <3>1. rd.pc \in {"wait", "load"} /\ To(r, "wait") /\ "wait" \in {"wait", "waiting", "load"}
      BY <1>17, <2>1 DEF LoadSerial
    <3> HIDE DEF rd, shown, written, here, a
    <3> QED
      BY <3>1, <1>15
  <2>2. CASE serial_ # rd.old
    BY <1>4, <1>17, <2>2 DEF LoadSerial
  <2> QED
    BY <2>1, <2>2
<1> QED
  BY <1>5, <1>6, <1>7, <1>8, <1>9, <1>10, <1>11, <1>12, <1>13, <1>14, <1>16, <1>17
     DEF ReadStep, Read

-----------------------------------------------------------------------------
(* The steps of the tool and of init *)

\* A step that stores nothing in the areas: nothing is written that was not, and what is
\* not written any more was finished, or its writer killed.
StoresNothing ==
    /\ UNCHANGED <<world, contextOf, area, serial_, reads, value>>
    /\ crashed' \in BOOLEAN /\ (crashed => crashed')
    /\ \A n : Written(n)' => Written(n)
    /\ \A n : Written(n) => Written(n)' \/ crashed'

\* The areas and the readers are then as sound as before.
LEMMA StoreStays ==
    ASSUME Areas, Agree, OddIsWritten, ReadersOK, StoresNothing
    PROVE  /\ Areas' /\ Agree' /\ OddIsWritten' /\ ReadersOK'
           /\ \A n : GetPropAreaForName(n)' = GetPropAreaForName(n) /\ find(n)' = find(n)
           /\ detect_protocol_version' = detect_protocol_version
<1>1. \A n : GetPropAreaForName(n)' = GetPropAreaForName(n)
  BY DEF GetPropAreaForName, map_prop_area, World, StoresNothing
<1>2. \A n : find(n)' = find(n)
  BY <1>1 DEF find, StoresNothing
<1>3. Areas'
  BY DEF Areas, StoresNothing
<1>4. Agree'
  BY <1>1 DEF Agree, StoresNothing
<1>5. OddIsWritten'
  BY <1>1, <1>2 DEF OddIsWritten, Odd, StoresNothing
<1>6. ASSUME NEW r \in Readers
      PROVE  ReaderOK(reads[r], value[reads[r].name], Written(reads[r].name),
                      GetPropAreaForName(reads[r].name) # None, TheArea(r))'
  <2>1. TheArea(r)' = TheArea(r)
    BY <1>1 DEF TheArea, StoresNothing
  <2>2. ReaderOK(reads[r], value[reads[r].name], Written(reads[r].name),
                 GetPropAreaForName(reads[r].name) # None, TheArea(r))
    BY DEF ReadersOK
  <2>3. ReaderOK(reads[r], value[reads[r].name], Written(reads[r].name)',
                 GetPropAreaForName(reads[r].name) # None, TheArea(r))
    BY <2>2 DEF ReaderOK, StoresNothing
  <2>4. UNCHANGED <<reads, value>>
    BY DEF StoresNothing
  <2> QED
    BY <1>1, <2>1, <2>3, <2>4
<1>7. ReadersOK'
  BY <1>6 DEF ReadersOK, StoresNothing
<1>8. detect_protocol_version' = detect_protocol_version
  BY DEF detect_protocol_version, World, StoresNothing
<1> QED
  BY <1>1, <1>2, <1>3, <1>4, <1>5, <1>7, <1>8

\* The mutation goes on, or there is none.
LEMMA MutStays ==
    ASSUME MutOK, StoresNothing, mut' \in {mut, Idle}
    PROVE  MutOK'
<1>1. CASE mut' = Idle
  BY <1>1 DEF MutOK
<1>2. CASE mut' = mut
  <2>1. UNCHANGED <<world, contextOf, area, value>>
    BY DEF StoresNothing
  <2>2. Context' = Context
    BY <1>2, <2>1 DEF Context, GetPropAreaForName, map_prop_area, World
  <2>3. Area' = Area
    BY <2>1, <2>2 DEF Area
  <2> QED
    BY <1>2, <2>1, <2>2, <2>3 DEF MutOK
<1> QED
  BY <1>1, <1>2

\* What a mutation starts from.
Starts(op, name, v, pi) ==
    /\ op \in {"delete", "add", "update"} /\ name \in Names /\ v \in Texts /\ pi \in Nat
    /\ op = "update" => pi # 0 /\ pi = find(name)
    /\ op = "add" => find(name) = 0

\* A mutation that starts is sound.
LEMMA MutStarts ==
    ASSUME Areas, NEW op, NEW name, NEW v, NEW pi, Starts(op, name, v, pi),
           mut' = Mutation(op, name, v, pi), UNCHANGED <<world, contextOf, area, value>>
    PROVE  /\ MutOK' /\ mut' # Idle /\ mut'.op = op /\ mut'.name = name /\ mut'.v = v
           /\ \A n : ~Written(n)'
<1> DEFINE refused == \/ op # "delete" /\ Len(v) >= PROP_VALUE_MAX
                         /\ (op = "update" \/ ~is_read_only(name))
                      \/ GetPropAreaForName(name) = None
           pc == IF refused THEN "return"
                 ELSE CASE op = "update" -> "dirty" [] op = "add" -> "find" [] OTHER -> "unlink"
           ret == IF refused THEN -1 ELSE 0
           none == 0
           one == 1
<1>1. /\ op \in {"delete", "add", "update"} /\ name \in Names /\ v \in Texts /\ pi \in Nat
      /\ Len(v) \in Nat
  BY DEF Starts, Texts
<1>2. mut' = [pc |-> pc, op |-> op, name |-> name, v |-> v, pi |-> pi, new |-> none, i |-> one,
              ret |-> ret]
  BY DEF Mutation
<1>3. /\ pc \in {"return", "dirty", "find", "unlink"} /\ ret \in {0, -1}
      /\ none \in Nat /\ one \in Nat /\ one = 1
  OBVIOUS
<1>4. /\ pc = "return" <=> refused
      /\ pc = "dirty" <=> ~refused /\ op = "update"
      /\ pc = "find" <=> ~refused /\ op = "add"
      /\ pc = "unlink" <=> ~refused /\ op = "delete"
      /\ ret = 0 <=> ~refused
  BY <1>1
<1>5. /\ ~refused => GetPropAreaForName(name) # None
      /\ ~refused /\ op = "update" => Len(v) < PROP_VALUE_MAX
      /\ ~refused /\ op = "add" /\ Len(v) >= PROP_VALUE_MAX => is_read_only(name)
      /\ refused /\ op = "delete" => GetPropAreaForName(name) = None
  BY <1>1, AreaAssumption
<1> HIDE DEF refused, pc, ret, none, one
<1>6. mut' \in Mutations
  BY <1>1, <1>2, <1>3 DEF Mutations
<1>7. /\ mut'.pc = pc /\ mut'.op = op /\ mut'.name = name /\ mut'.v = v /\ mut'.pi = pi
      /\ mut'.ret = ret /\ mut'.i = 1
  BY <1>2, <1>3
<1>8. mut' # Idle
  BY <1>3, <1>7 DEF Idle
<1>9. Context' = GetPropAreaForName(name)
  BY <1>7 DEF Context, GetPropAreaForName, map_prop_area, World
<1>10. Area' = area[GetPropAreaForName(name)]
  BY <1>9 DEF Area
<1>11. /\ ~refused /\ op = "update" => pi # 0 /\ pi = PropIn(area[GetPropAreaForName(name)].bt, name)
       /\ ~refused /\ op = "add" => PropIn(area[GetPropAreaForName(name)].bt, name) = 0
  BY <1>5 DEF Starts, find
<1>12. MutationOK(mut', GetPropAreaForName(name) # None, area[GetPropAreaForName(name)], value[name])
  BY <1>3, <1>4, <1>5, <1>6, <1>7, <1>11 DEF MutationOK, Outcome
<1>13. MutOK'
  BY <1>7, <1>9, <1>10, <1>12 DEF MutOK
<1>14. \A n : ~Written(n)'
  BY <1>3, <1>7 DEF Written
<1> QED
  BY <1>7, <1>8, <1>13, <1>14

\* find is the offset of a prop_info, or 0.
LEMMA FindIsNat == ASSUME Areas, Agree, NEW n \in Names PROVE find(n) \in Nat
<1>1. CASE GetPropAreaForName(n) = None
  BY <1>1 DEF find
<1>2. CASE GetPropAreaForName(n) # None
  <2> DEFINE a == area[GetPropAreaForName(n)]
  <2>1. AreaOK(a) /\ Holds(a, n, value[n]) /\ find(n) = PropIn(a.bt, n)
    BY <1>2, Place DEF Agree, Areas, find
  <2> HIDE DEF a
  <2>2. PropIn(a.bt, n) = 0 \/ PropIn(a.bt, n) \in DOMAIN a.info
    BY <2>1 DEF Holds
  <2> QED
    BY <2>1, <2>2 DEF AreaOK
<1> QED
  BY <1>1, <1>2

\* The tool that is not idle, and the property it is about.
LEMMA Busy ==
    ASSUME ToolOK
    PROVE  /\ tool.pc = "idle" <=> tool = Resting
           /\ tool # Resting =>
                /\ tool \in ToolRecords /\ tool.op \in {"set", "delete"} /\ Name \in Names
                /\ tool.op = "set" => /\ tool.sets # <<>> /\ Len(tool.sets) \in Nat /\ Value \in Texts
                                      /\ tool.sets \in Seq([name : Names, value : Texts])
                /\ tool.op = "set" <=> tool.pc \notin Deleting
<1>1. tool # Resting =>
        /\ tool \in ToolRecords /\ tool.op \in {"set", "delete"} /\ tool.pc # "idle"
        /\ tool.name \in Names /\ tool.sets \in Seq([name : Names, value : Texts])
        /\ tool.op = "set" => tool.sets # <<>> /\ tool.pc \notin Deleting
        /\ tool.op = "delete" => tool.pc \in Deleting
  BY DEF ToolOK, ToolRecords
<1>2. tool # Resting /\ tool.op = "set" =>
        /\ Head(tool.sets) \in [name : Names, value : Texts] /\ Len(tool.sets) \in Nat
  <2> DEFINE S == [name : Names, value : Texts]
  <2> HIDE DEF S
  <2>1. ASSUME NEW s \in Seq(S), s # <<>> PROVE Head(s) \in S /\ Len(s) \in Nat
    BY <2>1
  <2> QED
    BY <1>1, <2>1 DEF S
<1>3. tool # Resting /\ tool.op = "set" => Name \in Names /\ Value \in Texts
  BY <1>2 DEF Name, Value
<1>4. tool # Resting /\ tool.op = "delete" => Name \in Names
  BY <1>1 DEF Name
<1>5. tool = Resting => tool.pc = "idle"
  BY DEF Resting
<1> QED
  BY <1>1, <1>2, <1>3, <1>4, <1>5

\* The mutation that is not idle.
LEMMA BusyMut == ASSUME MutOK PROVE mut.pc = "idle" <=> mut = Idle
<1>1. mut # Idle => mut.pc # "idle"
  BY DEF MutOK, MutationOK, Mutations
<1>2. mut = Idle => mut.pc = "idle"
  BY DEF Idle
<1> QED
  BY <1>1, <1>2

\* A property that shows a value is read as that value, once nobody writes it.
LEMMA ShownIsRead ==
    ASSUME Areas, Agree, OddIsWritten, NEW n \in Names, NEW v \in Texts, value[n] = Shows(v),
           ~Written(n), ~crashed, NEW persist
    PROVE  stored(n, persist) = v
<1>1. v \in Seq(Int) /\ v # None /\ value[n] # Gone /\ value[n].ReadCallback = v
  <2>1. v \in Seq(Int)
    BY DEF Texts
  <2>2. v # None
    BY <2>1, AreaAssumption
  <2>3. value[n].ReadCallback = v
    BY DEF Shows
  <2> QED
    BY <2>1, <2>2, <2>3 DEF Gone
<1>2. GetPropAreaForName(n) # None
  BY <1>1 DEF Agree
<1> DEFINE a == area[GetPropAreaForName(n)]
           pi == PropIn(a.bt, n)
<1>3. AreaOK(a) /\ Holds(a, n, value[n]) /\ find(n) = pi
  BY <1>2, Place DEF Agree, Areas, find
<1>4. pi # 0 => a.info[pi].serial % 2 # 1
  BY <1>2, <1>3 DEF OddIsWritten, Odd
<1> HIDE DEF a
<1>5. pi # 0 /\ pi \in DOMAIN a.info
  BY <1>1, <1>3 DEF Holds
<1>6. a.info[pi].serial \in Nat
  BY <1>3, <1>5 DEF AreaOK, InfoOK, Info
<1>7. a.info[pi].serial % 2 = 0
  BY <1>4, <1>5, <1>6
<1>8. ValueOf(a.info[pi]) = value[n]
  BY <1>3, <1>5, <1>7 DEF Holds
<1> QED
  BY <1>1, <1>3, <1>5, <1>8 DEF stored, a

-----------------------------------------------------------------------------
\* What is left to show of a step of the tool or of init.
LEMMA Together ==
    ASSUME Inv, StoresNothing, MutOK', ToolOK', Lasting'
    PROVE  Inv'
BY StoreStays DEF Inv

\* A step that leaves the mutation alone.
LEMMA LeavesMut == ASSUME Inv, UNCHANGED areaVars PROVE StoresNothing /\ MutOK'
<1>1. StoresNothing
  BY DEF StoresNothing, areaVars, Inv, Areas, Written
<1> QED
  BY <1>1, MutStays DEF Inv, areaVars

\* A step that takes the code of the mutation.
LEMMA EndsMut ==
    ASSUME Inv, mut.pc = "return", mut' = Idle,
           UNCHANGED <<world, contextOf, area, serial_, reads, value, crashed>>
    PROVE  StoresNothing /\ MutOK'
<1>1. \A n : ~Written(n) /\ ~Written(n)'
  BY DEF Written, Idle
<1>2. StoresNothing
  BY <1>1 DEF StoresNothing, Inv, Areas
<1> QED
  BY <1>2, MutStays DEF Inv

\* A step that starts a mutation.
LEMMA StartsMut ==
    ASSUME Inv, MutIdle, NEW op, NEW name, NEW v, NEW pi, Starts(op, name, v, pi),
           mut' = Mutation(op, name, v, pi),
           UNCHANGED <<world, contextOf, area, serial_, reads, value, crashed>>
    PROVE  StoresNothing /\ MutOK' /\ mut' # Idle /\ mut'.op = op /\ mut'.name = name /\ mut'.v = v
<1>1. \A n : ~Written(n)
  BY DEF Written, MutIdle
<1>2. MutOK' /\ mut' # Idle /\ mut'.op = op /\ mut'.name = name /\ mut'.v = v /\ \A n : ~Written(n)'
  BY MutStarts DEF Inv
<1>3. StoresNothing
  BY <1>1, <1>2 DEF StoresNothing, Inv, Areas
<1> QED
  BY <1>2, <1>3

\* The requests and the mutation's owner, where the tool waits for neither.
LEMMA PlainTool ==
    ASSUME ToolOK, UNCHANGED requests, answer' \in {"none", "success", "refused"},
           tool'.pc \notin Own \cup {"answer"},
           \A i \in DOMAIN requests : ~requests[i].waits,
           mut' = Idle \/ (mut' = mut /\ tool.pc \notin Own)
    PROVE  Requests' /\ Owner'
<1>1. Requests'
  BY DEF ToolOK, Requests
<1>2. tool'.pc \notin Own
  OBVIOUS
<1>3. Owner'
  BY <1>2 DEF ToolOK, Owner, Own
<1> QED
  BY <1>1, <1>3

\* Nobody waits where the tool does not, or has its answer.
LEMMA NoneWaits ==
    ASSUME ToolOK, tool.pc # "answer" \/ answer # "none"
    PROVE  \A i \in DOMAIN requests : ~requests[i].waits
BY DEF ToolOK, Requests

\* The tool after a call: at rest, or at the next line of the file.
NextCall ==
    \/ tool' = Resting
    \/ /\ tool' \in ToolRecords /\ tool'.op = "set" /\ tool'.sets # <<>> /\ tool'.pc = "set"
       /\ tool' # Resting

\* One line of the file less, or none left.
LEMMA NextLine ==
    ASSUME tool \in ToolRecords, tool.op = "set" => tool.sets # <<>>, NEW late \in BOOLEAN, EndCall(late),
           value \in [Names -> Shown]
    PROVE  /\ NextCall /\ (tool.op = "delete" => tool' = Resting)
           /\ tool' # Resting => tool'.late = late /\ Name' \in Names /\ tool'.was = value[Name']
<1> DEFINE S == [name : Names, value : Texts]
           rest == Tail(tool.sets)
           was == value[Head(rest).name]
<1>1. tool.sets \in Seq(S)
  BY DEF ToolRecords
<1>2. CASE tool.op = "set" /\ Len(tool.sets) > 1
  <2> HIDE DEF S
  <2>1. rest \in Seq(S) /\ rest # <<>> /\ Head(rest) \in S
    <3>1. tool.sets # <<>>
      BY <1>2
    <3>2. rest \in Seq(S) /\ Len(rest) = Len(tool.sets) - 1 /\ Len(tool.sets) \in Nat
      BY <1>1, <3>1, HeadTailProperties
    <3>3. Len(rest) > 0
      BY <1>2, <3>2
    <3> HIDE DEF rest
    <3>4. rest \in Seq(S) /\ rest # <<>>
      BY <3>2, <3>3
    <3>5. Head(rest) \in S
      BY <3>4, HeadTailProperties
    <3> QED
      BY <3>4, <3>5
  <2>2. tool' = [tool EXCEPT !.sets = rest, !.pc = "set", !.late = late, !.was = was]
    BY <1>2 DEF EndCall
  <2>3. Head(rest).name \in Names
    BY <2>1 DEF S
  <2>4. was \in Shown
    BY <2>3
  <2>5. was = value[Head(rest).name]
    OBVIOUS
  <2> HIDE DEF rest, was
  <2>6. rest \in Seq([name : Names, value : Texts])
    BY <2>1 DEF S
  <2>7. /\ tool' \in ToolRecords /\ tool'.op = "set" /\ tool'.sets = rest /\ tool'.pc = "set"
        /\ tool'.late = late /\ tool'.was = was
    BY <1>2, <2>2, <2>4, <2>6 DEF ToolRecords
  <2>8. tool' # Resting
    BY <2>7 DEF Resting
  <2>9. Name' = Head(rest).name
    BY <2>7 DEF Name
  <2> QED
    BY <1>2, <2>1, <2>3, <2>5, <2>7, <2>8, <2>9 DEF NextCall
<1>3. CASE ~(tool.op = "set" /\ Len(tool.sets) > 1)
  BY <1>3 DEF EndCall, NextCall
<1> QED
  BY <1>2, <1>3

\* Done leads there.
LEMMA DoneNext ==
    ASSUME ToolOK, Areas, tool # Resting, NEW ret, NEW long, Done(ret, long)
    PROVE  /\ NextCall /\ (tool.op = "delete" => tool' = Resting)
           /\ tool' # Resting => tool'.late = tool.late /\ Name' \in Names /\ tool'.was = value[Name']
<1>1. tool \in ToolRecords /\ tool.late \in BOOLEAN /\ (tool.op = "set" => tool.sets # <<>>)
  BY DEF ToolOK, ToolRecords
<1>2. EndCall(tool.late) /\ value \in [Names -> Shown]
  BY DEF Done, Areas
<1> QED
  BY <1>1, <1>2, NextLine

\* The tool after a call is sound.
LEMMA NextCallOK ==
    ASSUME ToolOK, NextCall, UNCHANGED disk, Requests', Owner'
    PROVE  ToolOK'
<1>1. CASE tool' = Resting
  BY <1>1 DEF ToolOK
<1>2. CASE tool' # Resting
  BY <1>2 DEF NextCall, ToolOK, Deleting
<1> QED
  BY <1>1, <1>2

\* A call ends, and whatever ran for it has ended.
LEMMA CallEnds ==
    ASSUME Inv, StoresNothing, MutOK', tool # Resting, NEW ret, NEW long, Done(ret, long),
           \A i \in DOMAIN requests : ~requests[i].waits,
           UNCHANGED <<requests, disk>>, answer' \in {"none", "success", "refused"},
           mut' = Idle \/ (mut' = mut /\ tool.pc \notin Own),
           Lasting'
    PROVE  Inv'
<1>1. ToolOK
  BY DEF Inv
<1>2. NextCall
  BY <1>1, DoneNext DEF Inv
<1>3. tool'.pc \notin Own \cup {"answer"}
  BY <1>2 DEF NextCall, Resting, Own
<1>4. Requests' /\ Owner'
  BY <1>1, <1>3, PlainTool
<1>5. ToolOK'
  BY <1>1, <1>2, <1>4, NextCallOK
<1> QED
  BY <1>5, Together

-----------------------------------------------------------------------------
\* A step of the tool within a call: sets a field or two, and runs on.
LEMMA RunsOn ==
    ASSUME Inv, StoresNothing, MutOK', tool' \in ToolRecords, tool'.op = "set", tool'.sets # <<>>,
           tool'.pc \notin Deleting, tool'.pc \in {"reset", "request", "answer"} => tool'.trigger,
           UNCHANGED disk, Requests', Owner'
    PROVE  Inv'
<1>1. tool' # Resting
  BY DEF ToolRecords, Resting
<1>2. ToolOK'
  BY <1>1 DEF ToolOK, Inv
<1>3. Lasting'
  BY <1>1 DEF Lasting
<1> QED
  BY <1>2, <1>3, Together

\* What is read of the property of the call that returned.
LEMMA LastReads ==
    ASSUME StoresNothing, UNCHANGED disk, NEW n, NEW p, last'.name = n, last'.persist = p
    PROVE  stored(last.name, last.persist)' = stored(n, p)
BY DEF stored, find, GetPropAreaForName, map_prop_area, World, persist_getprop, StoresNothing

\* The fields of the tool where only pc is set.
LEMMA ToFields ==
    ASSUME tool \in ToolRecords,
           NEW pc \in {"set", "update", "add", "reset", "request", "answer", "delete", "collect", "encode",
                       "rename", "unlink", "del", "deleted"},
           To_(pc)
    PROVE  /\ tool' \in ToolRecords /\ tool'.pc = pc /\ tool'.op = tool.op /\ tool'.sets = tool.sets
           /\ tool'.trigger = tool.trigger /\ tool'.name = tool.name /\ tool'.late = tool.late
           /\ tool'.list = tool.list /\ tool'.persist = tool.persist /\ tool'.failed = tool.failed
           /\ tool'.asked = tool.asked /\ tool'.was = tool.was
           /\ Name' = Name /\ Value' = Value /\ tool' # Resting
<1>1. /\ tool' \in ToolRecords /\ tool'.pc = pc /\ tool'.op = tool.op /\ tool'.sets = tool.sets
      /\ tool'.trigger = tool.trigger /\ tool'.name = tool.name /\ tool'.late = tool.late
      /\ tool'.list = tool.list /\ tool'.persist = tool.persist /\ tool'.failed = tool.failed
      /\ tool'.asked = tool.asked /\ tool'.was = tool.was
  BY DEF To_, ToolRecords
<1>2. Name' = Name /\ Value' = Value
  BY <1>1 DEF Name, Value
<1> QED
  BY <1>1, <1>2 DEF Resting

\* resetprop_main
LEMMA MainKeeps ==
    ASSUME Inv, NEW command \in World.commands, resetprop_main(command)
    PROVE  Inv'
<1>1. /\ tool.pc = "idle" /\ UNCHANGED areaVars /\ UNCHANGED <<requests, answer, disk, tmp, last>>
  BY DEF resetprop_main
<1>2. /\ command.op \in {"set", "delete"}
      /\ command.trigger \in BOOLEAN /\ command.persist \in BOOLEAN
      /\ command.name \in Names
      /\ command.sets \in Seq([name : Names, value : Texts])
      /\ command.op = "set" => command.sets # <<>>
  BY WorldAssumption DEF World, Inv, Areas, Texts
<1> DEFINE pc == IF command.op = "delete" THEN "delete" ELSE "set"
           late == requests # <<>>
           nothing == None
           no == FALSE
           was == value[IF command.op = "delete" THEN command.name ELSE Head(command.sets).name]
<1>3. tool' = [pc |-> pc, op |-> command.op, sets |-> command.sets, trigger |-> command.trigger,
               persist |-> command.persist, asked |-> command.persist, name |-> command.name,
               list |-> nothing, was |-> was, late |-> late, failed |-> no]
  BY DEF resetprop_main
<1>w. was \in Shown
  <2>1. command.op = "set" => Head(command.sets).name \in Names
    <3> DEFINE S == [name : Names, value : Texts]
    <3>1. command.sets \in Seq(S)
      BY <1>2
    <3> HIDE DEF S
    <3>2. command.op = "set" => Head(command.sets) \in S
      BY <1>2, <3>1, HeadTailProperties
    <3> QED
      BY <3>2 DEF S
  <2> QED
    BY <2>1, <1>2 DEF Inv, Areas
<1>4. /\ pc \in {"delete", "set"} /\ late \in BOOLEAN /\ no \in BOOLEAN
      /\ nothing \in {None} \cup [Names -> Opt]
      /\ (pc = "delete" <=> command.op = "delete")
      /\ (~late => requests = <<>>)
  OBVIOUS
<1> HIDE DEF pc, late, nothing, no, was
<1>5. /\ tool' \in ToolRecords /\ tool'.pc = pc /\ tool'.op = command.op
      /\ tool'.sets = command.sets /\ tool'.late = late /\ tool'.asked = tool'.persist
  BY <1>2, <1>3, <1>4, <1>w DEF ToolRecords
<1>6. tool' # Resting
  BY <1>4, <1>5 DEF Resting
<1>7. StoresNothing /\ MutOK'
  BY <1>1, LeavesMut
<1>8. ToolOK
  BY DEF Inv
<1>9. tool'.pc \notin Own \cup {"answer"} /\ tool.pc \notin Own /\ tool.pc # "answer"
  BY <1>1, <1>4, <1>5 DEF Own
<1>10. Requests' /\ Owner'
  <2>1. \A i \in DOMAIN requests : ~requests[i].waits
    BY <1>8, <1>9, NoneWaits
  <2>2. answer' \in {"none", "success", "refused"} /\ mut' = mut
    BY <1>1, <1>8 DEF ToolOK, Requests, areaVars
  <2> QED
    BY <1>1, <1>8, <1>9, <2>1, <2>2, PlainTool
<1>11. tool'.op = "delete" => Persisting'
  BY <1>1, <1>4, <1>5 DEF Persisting
<1>12. ToolOK'
  BY <1>1, <1>2, <1>4, <1>5, <1>8, <1>10, <1>11 DEF ToolOK, Deleting
<1>13. Lasting'
  BY <1>6 DEF Lasting
<1> QED
  BY <1>7, <1>12, <1>13, Together

\* setprop
LEMMA SetpropKeeps == ASSUME Inv, setprop PROVE Inv'
<1>1. /\ tool.pc = "set" /\ MutIdle /\ UNCHANGED <<requests, answer, disk>>
      /\ UNCHANGED <<world, contextOf, area, serial_, reads, value, crashed>>
      /\ ToolOK /\ MutOK /\ Areas /\ Agree /\ mut = Idle
  BY BusyMut DEF setprop, MutIdle, Inv
<1>2. /\ tool # Resting /\ tool \in ToolRecords /\ tool.op = "set" /\ Name \in Names
      /\ Value \in Texts /\ tool.sets # <<>>
  BY <1>1, Busy DEF Deleting
<1>3. /\ \A i \in DOMAIN requests : ~requests[i].waits
      /\ answer' \in {"none", "success", "refused"} /\ tool.pc \notin Own
  BY <1>1, NoneWaits DEF ToolOK, Requests, Own
<1>4. CASE ~check_legal_property_name(Name)
  <2>1. Done(1, FALSE) /\ mut' = mut
    BY <1>4 DEF setprop
  <2>2. StoresNothing /\ MutOK'
    BY <1>1, <2>1, LeavesMut DEF areaVars
  <2>3. Lasting'
    <3>1. last'.ret = 1
      BY <2>1 DEF Done
    <3> QED
      BY <3>1 DEF Lasting
  <2> QED
    BY <1>1, <1>2, <1>3, <2>1, <2>2, <2>3, CallEnds
<1>5. CASE check_legal_property_name(Name)
  <2> DEFINE pi == find(Name)
  <2>1. pi \in Nat
    BY <1>1, <1>2, FindIsNat
  <2>2. CASE tool.trigger /\ pi # 0 /\ is_read_only(Name)
    <3>1. To_("reset") /\ mut' = Mutation("delete", Name, <<>>, 0)
      BY <1>5, <2>2 DEF setprop
    <3>2. Starts("delete", Name, <<>>, 0)
      BY <1>2 DEF Starts, Texts
    <3>3. StoresNothing /\ MutOK' /\ mut' # Idle /\ mut'.op = "delete" /\ mut'.name = Name
      BY <1>1, <3>1, <3>2, StartsMut
    <3>4. /\ tool' \in ToolRecords /\ tool'.pc = "reset" /\ tool'.op = tool.op
          /\ tool'.sets = tool.sets /\ tool'.trigger = tool.trigger /\ Name' = Name
      BY <1>2, <3>1, ToFields
    <3>5. Requests'
      BY <1>1, <1>3, <3>4 DEF ToolOK, Requests
    <3>6. Owner'
      BY <3>3, <3>4 DEF Owner, Own
    <3> QED
      BY <1>1, <1>2, <2>2, <3>3, <3>4, <3>5, <3>6, RunsOn DEF Deleting
  <2>3. CASE tool.trigger /\ ~(pi # 0 /\ is_read_only(Name))
    <3>1. To_("request") /\ mut' = mut
      BY <1>5, <2>3 DEF setprop
    <3>2. StoresNothing /\ MutOK'
      BY <1>1, <3>1, LeavesMut DEF areaVars
    <3>3. /\ tool' \in ToolRecords /\ tool'.pc = "request" /\ tool'.op = tool.op
          /\ tool'.sets = tool.sets /\ tool'.trigger = tool.trigger
      BY <1>2, <3>1, ToFields
    <3>4. Requests' /\ Owner'
      BY <1>1, <1>3, <3>1, <3>3, PlainTool DEF Own
    <3> QED
      BY <1>1, <1>2, <2>3, <3>2, <3>3, <3>4, RunsOn DEF Deleting
  <2>4. CASE ~tool.trigger
    <3> DEFINE op == IF pi # 0 THEN "update" ELSE "add"
               at == IF pi # 0 THEN pi ELSE 0
    <3>1. To_(op) /\ mut' = Mutation(op, Name, Value, at)
      BY <1>5, <2>4 DEF setprop
    <3>2. Starts(op, Name, Value, at)
      BY <1>2, <2>1 DEF Starts
    <3>9. op \in {"update", "add"}
      OBVIOUS
    <3> HIDE DEF op, at
    <3>3. StoresNothing /\ MutOK' /\ mut' # Idle /\ mut'.op = op /\ mut'.name = Name /\ mut'.v = Value
      BY <1>1, <3>1, <3>2, StartsMut
    <3>4. /\ tool' \in ToolRecords /\ tool'.pc = op /\ tool'.op = tool.op
          /\ tool'.sets = tool.sets /\ tool'.trigger = tool.trigger /\ Name' = Name /\ Value' = Value
      BY <1>2, <3>1, <3>9, ToFields
    <3>5. Requests'
      BY <1>1, <1>3, <3>4, <3>9 DEF ToolOK, Requests
    <3>6. Owner'
      BY <3>3, <3>4, <3>9 DEF Owner, Own
    <3> QED
      BY <1>1, <1>2, <3>3, <3>4, <3>5, <3>6, <3>9, RunsOn DEF Deleting
  <2> QED
    BY <2>2, <2>3, <2>4
<1> QED
  BY <1>4, <1>5

\* mutated
LEMMA MutatedKeeps == ASSUME Inv, mutated PROVE Inv'
<1> DEFINE long == tool.pc = "update" /\ mut.ret = 0 /\ Area.info[mut.pi].is_long
<1>1. /\ tool.pc \in {"update", "add"} /\ mut.pc = "return" /\ mut' = Idle
      /\ UNCHANGED <<requests, answer, disk>>
      /\ UNCHANGED <<world, contextOf, area, serial_, reads, value, crashed>>
      /\ Done(mut.ret, long)
      /\ ToolOK /\ MutOK /\ Areas /\ Agree /\ OddIsWritten
  BY DEF mutated, Inv
<1>2. /\ tool # Resting /\ tool \in ToolRecords /\ tool.op = "set" /\ Name \in Names
      /\ Value \in Texts /\ tool.sets # <<>>
  BY <1>1, Busy DEF Deleting
<1>3. /\ \A i \in DOMAIN requests : ~requests[i].waits
      /\ answer' \in {"none", "success", "refused"}
  BY <1>1, NoneWaits DEF ToolOK, Requests
<1>4. StoresNothing /\ MutOK'
  BY <1>1, EndsMut
<1>5. mut # Idle /\ mut.op = tool.pc /\ mut.name = Name /\ mut.v = Value
  BY <1>1 DEF ToolOK, Owner
<1>6. MutationOK(mut, Context # None, Area, value[Name])
  BY <1>1, <1>5 DEF MutOK
<1>7. Lasting'
  <2> SUFFICES ASSUME mut.ret = 0, ~crashed, ~long, requests = <<>>
               PROVE  stored(Name, tool.asked) = Value
    <3>1. /\ last'.op = "set" /\ last'.name = Name /\ last'.ret = mut.ret /\ last'.persist = tool.asked
          /\ last'.value = Value /\ last'.long = long /\ last'.late = (tool.late \/ requests # <<>>)
      BY <1>1, <1>2 DEF Done
    <3>2. requests' = requests /\ mut' = Idle /\ crashed' = crashed
      BY <1>1
    <3>3. stored(last.name, last.persist)' = stored(Name, tool.asked)
      BY <1>1, <1>4, <3>1, LastReads
    <3> HIDE DEF long
    <3> QED
      BY <3>1, <3>2, <3>3 DEF Lasting
  <2>1. value[Name] = Shows(Value)
    BY <1>1, <1>5, <1>6 DEF MutationOK, Outcome
  <2>2. ~Written(Name)
    BY <1>1 DEF Written
  <2>3. stored(Name, tool.asked) = Value
    BY <1>1, <1>2, <2>1, <2>2, ShownIsRead
  <2> QED
    BY <2>3
<1> HIDE DEF long
<1> QED
  BY <1>1, <1>2, <1>3, <1>4, <1>7, CallEnds

-----------------------------------------------------------------------------
\* reset
LEMMA ResetKeeps == ASSUME Inv, reset PROVE Inv'
<1>1. /\ tool.pc = "reset" /\ mut.pc = "return" /\ mut' = Idle /\ To_("request")
      /\ UNCHANGED <<requests, answer, disk>>
      /\ UNCHANGED <<world, contextOf, area, serial_, reads, value, crashed>> /\ ToolOK
  BY DEF reset, Inv
<1>2. /\ tool # Resting /\ tool \in ToolRecords /\ tool.op = "set" /\ tool.sets # <<>>
      /\ tool.trigger
  BY <1>1, Busy DEF Deleting, ToolOK
<1>3. StoresNothing /\ MutOK'
  BY <1>1, EndsMut
<1>4. /\ tool' \in ToolRecords /\ tool'.pc = "request" /\ tool'.op = tool.op
      /\ tool'.sets = tool.sets /\ tool'.trigger = tool.trigger
  BY <1>1, <1>2, ToFields
<1>5. Requests' /\ Owner'
  <2>1. \A i \in DOMAIN requests : ~requests[i].waits
    BY <1>1, NoneWaits
  <2>2. answer' \in {"none", "success", "refused"}
    BY <1>1 DEF ToolOK, Requests
  <2> QED
    BY <1>1, <1>4, <2>1, <2>2, PlainTool DEF Own
<1> QED
  BY <1>1, <1>2, <1>3, <1>4, <1>5, RunsOn DEF Deleting

\* __system_property_set
LEMMA RequestKeeps == ASSUME Inv, __system_property_set PROVE Inv'
<1>1. /\ tool.pc = "request" /\ answer = "none" /\ UNCHANGED areaVars /\ UNCHANGED disk /\ ToolOK
  BY DEF __system_property_set, Inv
<1>2. /\ tool # Resting /\ tool \in ToolRecords /\ tool.op = "set" /\ tool.sets # <<>>
      /\ tool.trigger /\ Name \in Names /\ Value \in Texts
  BY <1>1, Busy DEF Deleting, ToolOK
<1>3. StoresNothing /\ MutOK' /\ mut' = mut
  BY <1>1, LeavesMut DEF areaVars
<1>4. \A i \in DOMAIN requests : ~requests[i].waits
  BY <1>1, NoneWaits
<1>5. CASE Done(-1, FALSE) /\ UNCHANGED <<requests, answer>>
  <2>1. last'.ret = -1
    BY <1>5 DEF Done
  <2>2. Lasting'
    BY <2>1 DEF Lasting
  <2>3. answer' \in {"none", "success", "refused"} /\ tool.pc \notin Own
    BY <1>1, <1>5 DEF Own
  <2> QED
    BY <1>1, <1>2, <1>3, <1>4, <1>5, <2>2, <2>3, CallEnds
<1>6. CASE /\ requests' = Append(requests, [name |-> Name, value |-> Value, waits |-> TRUE])
           /\ To_("answer") /\ answer' = answer
  <2> DEFINE S == [name : Names, value : Texts, waits : BOOLEAN]
             new == [name |-> Name, value |-> Value, waits |-> TRUE]
  <2>1. requests \in Seq(S) /\ new \in S /\ Len(requests) \in Nat
    BY <1>1, <1>2 DEF ToolOK, Requests
  <2>2. /\ requests' = Append(requests, new)
        /\ new.name = Name /\ new.value = Value
    BY <1>6
  <2> HIDE DEF S, new
  <2>3. /\ requests' \in Seq(S) /\ Len(requests') = Len(requests) + 1
        /\ requests'[Len(requests) + 1] = new
        /\ \A i \in 1 .. Len(requests) : requests'[i] = requests[i]
        /\ DOMAIN requests' = 1 .. Len(requests) + 1 /\ DOMAIN requests = 1 .. Len(requests)
    BY <2>1, <2>2
  <2>4. /\ tool' \in ToolRecords /\ tool'.pc = "answer" /\ tool'.op = tool.op
        /\ tool'.sets = tool.sets /\ tool'.trigger = tool.trigger /\ Name' = Name /\ Value' = Value
    BY <1>2, <1>6, ToFields
  <2>5. Requests'
    <3>1. requests' \in Seq([name : Names, value : Texts, waits : BOOLEAN])
      BY <2>3 DEF S
    <3>2. answer' = "none"
      BY <1>1, <1>6
    <3>3. ASSUME NEW i \in DOMAIN requests', requests'[i].waits
          PROVE  i = Len(requests') /\ requests'[i].name = Name' /\ requests'[i].value = Value'
      <4>1. i \notin 1 .. Len(requests)
        BY <1>4, <2>3, <3>3
      <4>2. i = Len(requests) + 1
        BY <2>1, <2>3, <4>1
      <4> QED
        BY <2>2, <2>3, <2>4, <4>2
    <3> QED
      BY <2>4, <3>1, <3>2, <3>3 DEF Requests
  <2>6. Owner'
    <3>1. mut # Idle =>
            /\ requests # <<>> /\ mut.name = Head(requests).name /\ mut.v = Head(requests).value
            /\ mut.op \in {"update", "add"}
            /\ mut.op = "update" => ~is_read_only(mut.name)
      BY <1>1 DEF ToolOK, Owner, Own
    <3>2. requests # <<>> => requests' # <<>> /\ Head(requests') = Head(requests)
      BY <2>1, <2>2, HeadTailAppend
    <3> QED
      BY <1>3, <2>4, <3>1, <3>2 DEF Owner, Own
  <2> QED
    BY <1>1, <1>2, <1>3, <2>4, <2>5, <2>6, RunsOn DEF Deleting
<1> QED
  BY <1>5, <1>6 DEF __system_property_set

\* answered
LEMMA AnsweredKeeps == ASSUME Inv, answered PROVE Inv'
<1> DEFINE ret == IF detect_protocol_version = 2 /\ answer # "success" THEN -1 ELSE 0
<1>1. /\ tool.pc = "answer" /\ answer # "none" /\ UNCHANGED areaVars /\ UNCHANGED <<requests, disk>>
      /\ answer' = "none" /\ Done(ret, FALSE)
      /\ ToolOK /\ Areas /\ Agree /\ OddIsWritten
  BY DEF answered, Inv
<1>2. /\ tool # Resting /\ tool \in ToolRecords /\ tool.op = "set" /\ tool.sets # <<>>
      /\ tool.trigger /\ Name \in Names /\ Value \in Texts
  BY <1>1, Busy DEF Deleting, ToolOK
<1>3. StoresNothing /\ MutOK' /\ mut' = mut
  BY <1>1, LeavesMut DEF areaVars
<1>4. \A i \in DOMAIN requests : ~requests[i].waits
  BY <1>1, NoneWaits
<1>5. detect_protocol_version \in {1, 2} /\ detect_protocol_version' = detect_protocol_version
  BY <1>3, StoreStays DEF detect_protocol_version, Inv
<1>6. Lasting'
  <2>1. /\ last'.op = "set" /\ last'.name = Name /\ last'.ret = ret /\ last'.persist = tool.asked
        /\ last'.value = Value /\ last'.trigger
    BY <1>1, <1>2 DEF Done
  <2>2. CASE detect_protocol_version = 1
    BY <1>5, <2>1, <2>2 DEF Lasting
  <2>3. CASE detect_protocol_version = 2 /\ answer # "success"
    <3>1. last'.ret = -1
      BY <2>1, <2>3
    <3> QED
      BY <3>1 DEF Lasting
  <2>4. CASE answer = "success"
    <3>1. requests = <<>> /\ mut = Idle /\ value[Name] = Shows(Value)
      BY <1>1, <2>4 DEF ToolOK, Requests
    <3>2. ~Written(Name)
      BY <3>1 DEF Written, Idle
    <3>3. ~crashed => stored(Name, tool.asked) = Value
      BY <1>1, <1>2, <3>1, <3>2, ShownIsRead
    <3>4. stored(last.name, last.persist)' = stored(Name, tool.asked)
      BY <1>1, <1>3, <2>1, LastReads
    <3>5. requests' = <<>> /\ mut' = Idle /\ crashed' = crashed
      BY <1>1, <1>3, <3>1 DEF areaVars
    <3> QED
      BY <2>1, <3>3, <3>4, <3>5 DEF Lasting
  <2> QED
    BY <1>5, <2>2, <2>3, <2>4
<1> HIDE DEF ret
<1>7. answer' \in {"none", "success", "refused"} /\ tool.pc \notin Own
  BY <1>1 DEF Own
<1> QED
  BY <1>1, <1>2, <1>3, <1>4, <1>6, <1>7, CallEnds

\* The requests that nobody waits for any more.
LEMMA Forgotten ==
    ASSUME ToolOK
    PROVE  /\ Forget(requests) \in Seq([name : Names, value : Texts, waits : BOOLEAN])
           /\ \A i \in DOMAIN Forget(requests) : ~Forget(requests)[i].waits
           /\ requests # <<>> => /\ Forget(requests) # <<>>
                                 /\ Head(Forget(requests)).name = Head(requests).name
                                 /\ Head(Forget(requests)).value = Head(requests).value
<1> DEFINE S == [name : Names, value : Texts, waits : BOOLEAN]
           f == Forget(requests)
<1>1. requests \in Seq(S)
  BY DEF ToolOK, Requests
<1>2. Len(requests) \in Nat /\ DOMAIN requests = 1 .. Len(requests)
  BY <1>1
<1>3. ASSUME NEW i \in 1 .. Len(requests)
      PROVE  /\ [requests[i] EXCEPT !.waits = FALSE] \in S
             /\ [requests[i] EXCEPT !.waits = FALSE].name = requests[i].name
             /\ [requests[i] EXCEPT !.waits = FALSE].value = requests[i].value
             /\ ~[requests[i] EXCEPT !.waits = FALSE].waits
  <2>1. requests[i] \in S
    <3> HIDE DEF S
    <3> QED
      BY <1>1
  <2> QED
    BY <2>1
<1>4. f = [i \in 1 .. Len(requests) |-> [requests[i] EXCEPT !.waits = FALSE]]
  BY <1>2 DEF Forget
<1>5. DOMAIN f = 1 .. Len(requests) /\ \A i \in 1 .. Len(requests) : f[i] = [requests[i] EXCEPT !.waits = FALSE]
  BY <1>4
<1>6. \A i \in 1 .. Len(requests) : f[i] \in S /\ ~f[i].waits /\ f[i].name = requests[i].name
                                     /\ f[i].value = requests[i].value
  BY <1>3, <1>5
<1>7. f = [i \in 1 .. Len(requests) |-> f[i]]
  BY <1>4
<1> HIDE DEF f, S
<1>8. f \in Seq(S) /\ Len(f) = Len(requests)
  <2>1. f \in [1 .. Len(requests) -> S]
    BY <1>6, <1>7
  <2> QED
    BY <1>2, <2>1
<1>9. ASSUME requests # <<>>
      PROVE  f # <<>> /\ Head(f).name = Head(requests).name /\ Head(f).value = Head(requests).value
  <2>1. Len(requests) > 0
    BY <1>1, <1>9
  <2>2. 1 \in 1 .. Len(requests) /\ Head(requests) = requests[1] /\ Head(f) = f[1]
    BY <1>1, <1>2, <1>8, <2>1
  <2>3. f # <<>>
    BY <1>8, <2>1
  <2> QED
    BY <1>6, <2>2, <2>3
<1> QED
  BY <1>5, <1>6, <1>8, <1>9 DEF f, S

\* timed_out
LEMMA TimedOutKeeps == ASSUME Inv, timed_out PROVE Inv'
<1>1. /\ tool.pc = "answer" /\ answer = "none" /\ UNCHANGED areaVars /\ UNCHANGED <<answer, disk>>
      /\ requests' = Forget(requests) /\ ToolOK
  BY DEF timed_out, Inv
<1>2. tool # Resting /\ tool \in ToolRecords /\ tool.op = "set" /\ Len(tool.sets) \in Nat
  BY <1>1, Busy DEF Deleting
<1>3. StoresNothing /\ MutOK' /\ mut' = mut
  BY <1>1, LeavesMut DEF areaVars
<1>4. NextCall
  <2>1. EndCall(TRUE) /\ (tool.op = "set" => tool.sets # <<>>) /\ value \in [Names -> Shown]
    BY <1>1, <1>2 DEF timed_out, ToolOK, Inv, Areas
  <2> QED
    BY <1>2, <2>1, NextLine
<1>5. tool'.pc \notin Own \cup {"answer"}
  BY <1>4 DEF NextCall, Resting, Own
<1>6. Requests'
  BY <1>1, <1>5, Forgotten DEF Requests
<1>7. Owner'
  <2>1. mut # Idle =>
          /\ requests # <<>> /\ mut.name = Head(requests).name /\ mut.v = Head(requests).value
          /\ mut.op \in {"update", "add"}
          /\ mut.op = "update" => ~is_read_only(mut.name)
    BY <1>1 DEF ToolOK, Owner, Own
  <2> QED
    BY <1>1, <1>3, <1>5, <2>1, Forgotten DEF Owner, Own
<1>8. ToolOK'
  BY <1>1, <1>4, <1>6, <1>7, NextCallOK
<1>9. Lasting'
  <2>1. last'.late
    BY DEF timed_out
  <2> QED
    BY <2>1 DEF Lasting
<1> QED
  BY <1>3, <1>8, <1>9, Together

-----------------------------------------------------------------------------
\* The tool while it deletes.
LEMMA DeleteFacts ==
    ASSUME Inv, tool.pc \in Deleting
    PROVE  /\ ToolOK /\ tool # Resting /\ tool \in ToolRecords /\ tool.op = "delete" /\ Persisting
           /\ Name = tool.name /\ Name \in Names /\ disk \in [Names -> Opt]
           /\ \A i \in DOMAIN requests : ~requests[i].waits
           /\ answer \in {"none", "success", "refused"}
<1>1. ToolOK /\ tool # Resting
  BY DEF Inv, Deleting, Resting
<1>2. tool \in ToolRecords /\ tool.op = "delete" /\ Name \in Names
  BY <1>1, Busy
<1>3. Persisting /\ disk \in [Names -> Opt] /\ answer \in {"none", "success", "refused"}
  BY <1>1, <1>2 DEF ToolOK, Requests
<1>4. \A i \in DOMAIN requests : ~requests[i].waits
  BY <1>1, NoneWaits DEF Deleting
<1> QED
  BY <1>1, <1>2, <1>3, <1>4 DEF Name

\* A step of the deletion.
LEMMA DeleteRuns ==
    ASSUME Inv, tool.pc \in Deleting, StoresNothing, MutOK', UNCHANGED <<requests, answer>>,
           tool' \in ToolRecords, tool'.op = "delete", tool'.pc \in Deleting,
           disk' \in [Names -> Opt], Owner', Persisting'
    PROVE  Inv'
<1>1. /\ ToolOK /\ \A i \in DOMAIN requests : ~requests[i].waits
      /\ answer \in {"none", "success", "refused"}
  BY DeleteFacts
<1>2. tool' # Resting /\ tool'.pc \notin {"answer", "reset", "request"}
  BY DEF Deleting, Resting
<1>3. Requests'
  BY <1>1, <1>2 DEF ToolOK, Requests
<1>4. ToolOK'
  BY <1>2, <1>3 DEF ToolOK
<1>5. Lasting'
  BY <1>2 DEF Lasting
<1> QED
  BY <1>4, <1>5, Together

\* A step of the deletion that has to do with files alone.
LEMMA FilesOnly ==
    ASSUME Inv, tool.pc \in Deleting \ {"deleted"}, UNCHANGED areaVars, UNCHANGED <<requests, answer>>,
           tool' \in ToolRecords, tool'.op = "delete", tool'.pc \in Deleting \ {"deleted"},
           disk' \in [Names -> Opt], Persisting'
    PROVE  Inv'
<1>1. StoresNothing /\ MutOK' /\ mut' = mut
  BY LeavesMut DEF areaVars
<1>2. tool.pc \in Deleting /\ tool.pc \notin Own /\ tool'.pc \notin Own \cup {"answer"}
  BY DEF Own, Deleting
<1>3. Owner'
  BY <1>1, <1>2, DeleteFacts, PlainTool
<1> QED
  BY <1>1, <1>2, <1>3, DeleteRuns

\* The fields of the tool after persist_deleteprop.
LEMMA PersistedFields ==
    ASSUME tool \in ToolRecords, tool.op = "delete", NEW ok \in BOOLEAN,
           NEW failed \in BOOLEAN,
           tool' = [tool EXCEPT !.pc = "del", !.persist = ok, !.failed = failed]
    PROVE  /\ tool' \in ToolRecords /\ tool'.pc = "del" /\ tool'.persist = ok /\ tool'.op = "delete"
           /\ tool'.late = tool.late /\ tool'.name = tool.name /\ Name' = Name
           /\ tool'.failed = failed
<1>1. /\ tool' \in ToolRecords /\ tool'.pc = "del" /\ tool'.persist = ok /\ tool'.op = "delete"
      /\ tool'.late = tool.late /\ tool'.name = tool.name /\ tool'.failed = failed
  BY DEF ToolRecords
<1> QED
  BY <1>1 DEF Name

\* Persisted says so.
LEMMA PersistedIs ==
    ASSUME tool \in ToolRecords, NEW ok, Persisted(ok)
    PROVE  /\ tool.failed \in BOOLEAN
           /\ tool' = [tool EXCEPT !.pc = "del", !.persist = ok, !.failed = tool.failed]
<1>1. tool' = [tool EXCEPT !.pc = "del", !.persist = ok]
  BY DEF Persisted
<1> QED
  BY <1>1 DEF ToolRecords

\* Where a file operation failed, the deletion goes on, and anything is excused.
LEMMA FailedKeeps ==
    ASSUME Inv, tool.pc \in Deleting \ {"deleted"}, UNCHANGED areaVars,
           UNCHANGED <<requests, answer, disk>>, NEW ok \in BOOLEAN, FileFailed(ok)
    PROVE  Inv'
<1>1. /\ tool \in ToolRecords /\ tool.op = "delete" /\ Persisting /\ disk \in [Names -> Opt]
  BY DeleteFacts
<1> DEFINE yes == TRUE
<1>2. tool' = [tool EXCEPT !.pc = "del", !.persist = ok, !.failed = yes] /\ yes \in BOOLEAN /\ yes
  BY DEF FileFailed
<1> HIDE DEF yes
<1>3. /\ tool' \in ToolRecords /\ tool'.pc = "del" /\ tool'.op = "delete"
      /\ tool'.late = tool.late /\ tool'.failed = yes
  BY <1>1, <1>2, PersistedFields
<1>4. Persisting'
  BY <1>1, <1>2, <1>3 DEF Persisting
<1>5. tool'.pc \in Deleting \ {"deleted"}
  BY <1>3 DEF Deleting
<1> QED
  BY <1>1, <1>3, <1>4, <1>5, FilesOnly

\* deleteprop
LEMMA DeletepropKeeps == ASSUME Inv, deleteprop PROVE Inv'
<1>1. tool.pc = "delete" /\ UNCHANGED areaVars /\ UNCHANGED <<requests, answer, disk, tmp>>
  BY DEF deleteprop
<1>2. tool.pc \in Deleting \ {"deleted"} /\ tool.pc \in Deleting
  BY <1>1 DEF Deleting
<1>3. /\ ToolOK /\ tool # Resting /\ tool \in ToolRecords /\ tool.op = "delete" /\ Persisting
      /\ disk \in [Names -> Opt] /\ answer \in {"none", "success", "refused"}
      /\ \A i \in DOMAIN requests : ~requests[i].waits
  BY <1>2, DeleteFacts
<1>4. CASE Done(1, FALSE)
  <2>1. last'.ret = 1
    BY <1>4 DEF Done
  <2>2. Lasting'
    BY <2>1 DEF Lasting
  <2>3. StoresNothing /\ MutOK' /\ mut' = mut
    BY <1>1, LeavesMut DEF areaVars
  <2>4. answer' \in {"none", "success", "refused"} /\ tool.pc \notin Own
    BY <1>1, <1>3 DEF Own
  <2> QED
    BY <1>1, <1>3, <1>4, <2>2, <2>3, <2>4, CallEnds
<1>5. CASE ~Done(1, FALSE)
  <2> DEFINE pc == IF tool.persist /\ IsPersist(Name)
                   THEN IF World.use_pb THEN "collect" ELSE "unlink" ELSE "del"
  <2>1. To_(pc)
    BY <1>5 DEF deleteprop
  <2>2. pc \in {"collect", "unlink", "del"} /\ (pc = "del" => ~(tool.persist /\ IsPersist(Name)))
    OBVIOUS
  <2> HIDE DEF pc
  <2>3. /\ tool' \in ToolRecords /\ tool'.pc = pc /\ tool'.op = tool.op /\ tool'.late = tool.late
        /\ tool'.persist = tool.persist /\ Name' = Name /\ tool'.asked = tool.asked
    BY <1>3, <2>1, <2>2, ToFields
  <2>4. Persisting'
    BY <1>1, <1>3, <2>2, <2>3 DEF Persisting
  <2>5. tool'.pc \in Deleting \ {"deleted"}
    BY <2>2, <2>3 DEF Deleting
  <2> QED
    BY <1>1, <1>2, <1>3, <2>3, <2>4, <2>5, FilesOnly
<1> QED
  BY <1>4, <1>5

\* unlink
LEMMA UnlinkFileKeeps == ASSUME Inv, unlink PROVE Inv'
<1> DEFINE ok == disk[Name] # None
<1>1. tool.pc = "unlink" /\ UNCHANGED areaVars /\ UNCHANGED <<requests, answer, tmp>>
  BY DEF unlink
<1>2. tool.pc \in Deleting \ {"deleted"} /\ tool.pc \in Deleting
  BY <1>1 DEF Deleting
<1>3. /\ tool \in ToolRecords /\ tool.op = "delete" /\ Persisting
      /\ Name \in Names /\ disk \in [Names -> Opt]
  BY <1>2, DeleteFacts
<1>4. CASE Persisted(ok) /\ disk' = [disk EXCEPT ![Name] = None]
  <2>1. disk' \in [Names -> Opt] /\ disk'[Name] = None /\ ok \in BOOLEAN
    BY <1>3, <1>4 DEF Opt
  <2>a. Persisted(ok)
    BY <1>4
  <2> HIDE DEF ok
  <2>2. /\ tool' \in ToolRecords /\ tool'.pc = "del" /\ tool'.persist = ok /\ tool'.op = "delete"
        /\ tool'.late = tool.late /\ Name' = Name
    BY <1>3, <2>1, <2>a, PersistedIs, PersistedFields
  <2>3. Persisting'
    BY <1>1, <1>3, <2>1, <2>2 DEF Persisting
  <2>4. tool'.pc \in Deleting \ {"deleted"}
    BY <2>2 DEF Deleting
  <2> QED
    BY <1>1, <1>2, <2>1, <2>2, <2>3, <2>4, FilesOnly
<1>5. CASE FileFailed(FALSE) /\ UNCHANGED disk
  BY <1>1, <1>2, <1>5, FailedKeeps
<1> QED
  BY <1>4, <1>5 DEF unlink

\* collect_props: a temporary file that creat left as it was has no record but those that
\* are still to be deleted, so it has none if there are no others.
LEMMA CollectKeeps == ASSUME Inv, Files, collect_props PROVE Inv'
<1> DEFINE list == [n \in Names |-> IF n = Name THEN None ELSE disk[n]]
           none == [n \in Names |-> None]
<1>1. tool.pc = "collect" /\ UNCHANGED areaVars /\ UNCHANGED <<requests, answer, disk>>
  BY DEF collect_props
<1>2. tool.pc \in Deleting \ {"deleted"} /\ tool.pc \in Deleting
  BY <1>1 DEF Deleting
<1>3. /\ tool \in ToolRecords /\ tool.op = "delete" /\ Persisting
      /\ Name \in Names /\ disk \in [Names -> Opt]
  BY <1>2, DeleteFacts
<1>4. CASE disk[Name] = None /\ Persisted(FALSE)
  <2>1. Persisted(FALSE)
    BY <1>4
  <2>2. /\ tool' \in ToolRecords /\ tool'.pc = "del" /\ tool'.persist = FALSE /\ tool'.op = "delete"
        /\ tool'.late = tool.late /\ Name' = Name
    BY <1>3, <2>1, PersistedIs, PersistedFields
  <2>3. Persisting'
    BY <1>1, <1>3, <1>4, <2>2 DEF Persisting
  <2>4. tool'.pc \in Deleting \ {"deleted"}
    BY <2>2 DEF Deleting
  <2> QED
    BY <1>1, <1>2, <1>3, <2>2, <2>3, <2>4, FilesOnly
<1>a. list \in [Names -> Opt] /\ list[Name] = None /\ \A n \in Names \ {Name} : list[n] = disk[n]
  BY <1>3 DEF Opt
<1>b. none \in [Names -> Opt] /\ \A n \in Names : none[n] = None
  BY DEF Opt
<1>5. CASE tool' = [tool EXCEPT !.pc = "encode", !.list = list] /\ tmp' = none
  <2> HIDE DEF list, none
  <2>1. /\ tool' \in ToolRecords /\ tool'.pc = "encode" /\ tool'.op = "delete" /\ tool'.list = list
        /\ tool'.late = tool.late /\ tool'.name = tool.name
    BY <1>3, <1>5, <1>a DEF ToolRecords
  <2>2. Name' = Name
    BY <1>3, <2>1 DEF Name
  <2>3. Persisting'
    BY <1>1, <1>3, <1>5, <1>a, <1>b, <2>1, <2>2 DEF Persisting
  <2>4. tool'.pc \in Deleting \ {"deleted"}
    BY <2>1 DEF Deleting
  <2> QED
    BY <1>1, <1>2, <1>3, <2>1, <2>3, <2>4, FilesOnly
<1>6. CASE FileFailed(FALSE)
  BY <1>1, <1>2, <1>6, FailedKeeps
<1>7. CASE /\ disk[Name] # None /\ list = none
           /\ tool' = [tool EXCEPT !.pc = "rename", !.list = list, !.failed = TRUE]
           /\ UNCHANGED tmp
  <2>1. tmp \in {None, list}
    <3> SUFFICES ASSUME tmp # None PROVE tmp = list
      OBVIOUS
    <3>1. PICK m \in Names : /\ tmp \in [Names -> Opt] /\ disk[m] # None
                             /\ \A n \in Names : tmp[n] # None => n # m /\ disk[n] # None
      BY DEF Files
    <3>2. \A n \in Names \ {Name} : disk[n] = None
      BY <1>7, <1>a, <1>b
    <3>3. \A n \in Names : tmp[n] = None
      BY <3>1, <3>2
    <3> QED
      BY <1>7, <1>b, <3>1, <3>3
  <2> HIDE DEF list, none
  <2>2. /\ tool' \in ToolRecords /\ tool'.pc = "rename" /\ tool'.op = "delete" /\ tool'.list = list
        /\ tool'.late = tool.late /\ tool'.name = tool.name
    BY <1>3, <1>7, <1>a DEF ToolRecords
  <2>3. Name' = Name
    BY <1>3, <2>2 DEF Name
  <2>4. Persisting'
    BY <1>1, <1>3, <1>7, <1>a, <2>1, <2>2, <2>3 DEF Persisting
  <2>5. tool'.pc \in Deleting \ {"deleted"}
    BY <2>2 DEF Deleting
  <2> QED
    BY <1>1, <1>2, <1>3, <2>2, <2>4, <2>5, FilesOnly
<1> QED
  BY <1>4, <1>5, <1>6, <1>7 DEF collect_props

\* prop_encode
LEMMA EncodeKeeps == ASSUME Inv, prop_encode PROVE Inv'
<1>1. /\ tool.pc = "encode" /\ UNCHANGED areaVars /\ UNCHANGED <<requests, answer, disk>>
  BY DEF prop_encode
<1>2. tool.pc \in Deleting \ {"deleted"} /\ tool.pc \in Deleting
  BY <1>1 DEF Deleting
<1>3. /\ tool \in ToolRecords /\ tool.op = "delete" /\ Persisting
      /\ Name \in Names /\ disk \in [Names -> Opt]
  BY <1>2, DeleteFacts
<1>4. /\ tool.list \in [Names -> Opt] /\ tool.list[Name] = None
      /\ ~tool.late => \A n \in Names \ {Name} : tool.list[n] = disk[n]
      /\ tmp \in [Names -> Opt] /\ \A n \in Names : tmp[n] \in {None, tool.list[n]}
      /\ ~tool.late => requests = <<>>
  BY <1>1, <1>3 DEF Persisting
<1> DEFINE left == {n \in Names : tool.list[n] # None /\ tmp[n] = None}
<1>5. CASE left = {} /\ To_("rename") /\ UNCHANGED tmp
  <2>1. \A n \in Names : tmp[n] = tool.list[n]
    BY <1>4, <1>5
  <2>2. tmp = tool.list
    BY <1>4, <2>1
  <2>3. /\ tool' \in ToolRecords /\ tool'.pc = "rename" /\ tool'.op = "delete" /\ tool'.late = tool.late
        /\ tool'.list = tool.list /\ Name' = Name
    BY <1>3, <1>5, ToFields
  <2>4. Persisting'
    BY <1>1, <1>4, <1>5, <2>2, <2>3 DEF Persisting
  <2>5. tool'.pc \in Deleting \ {"deleted"}
    BY <2>3 DEF Deleting
  <2> QED
    BY <1>1, <1>2, <1>3, <2>3, <2>4, <2>5, FilesOnly
<1>6. ASSUME NEW n \in left, tmp' = [tmp EXCEPT ![n] = tool.list[n]], UNCHANGED tool
      PROVE  Inv'
  <2>1. tmp' \in [Names -> Opt] /\ \A m \in Names : tmp'[m] \in {None, tool.list[m]}
    BY <1>4, <1>6
  <2>2. Name' = Name
    BY <1>6 DEF Name
  <2>3. Persisting'
    BY <1>1, <1>4, <1>6, <2>1, <2>2 DEF Persisting
  <2> QED
    BY <1>1, <1>2, <1>3, <1>6, <2>3, FilesOnly
<1>7. CASE FileFailed(FALSE)
  BY <1>1, <1>2, <1>7, FailedKeeps
<1> QED
  BY <1>5, <1>6, <1>7 DEF prop_encode

\* rename
LEMMA RenameKeeps == ASSUME Inv, rename PROVE Inv'
<1>1. /\ tool.pc = "rename" /\ UNCHANGED areaVars /\ UNCHANGED <<requests, answer>>
  BY DEF rename
<1>2. tool.pc \in Deleting \ {"deleted"} /\ tool.pc \in Deleting
  BY <1>1 DEF Deleting
<1>3. tool \in ToolRecords /\ tool.op = "delete" /\ Persisting
  BY <1>2, DeleteFacts
<1>4. CASE tmp # None /\ disk' = tmp /\ Persisted(TRUE)
  <2>1. tmp = tool.list /\ tool.list \in [Names -> Opt] /\ tool.list[Name] = None
    BY <1>1, <1>3, <1>4 DEF Persisting
  <2>2. Persisted(TRUE) /\ disk' = tool.list
    BY <1>4, <2>1
  <2>3. /\ tool' \in ToolRecords /\ tool'.pc = "del" /\ tool'.op = "delete"
        /\ tool'.late = tool.late /\ Name' = Name
    BY <1>1, <1>3, <2>2, PersistedIs, PersistedFields
  <2>4. Persisting'
    BY <1>1, <1>3, <2>1, <2>2, <2>3 DEF Persisting
  <2>5. tool'.pc \in Deleting \ {"deleted"}
    BY <2>3 DEF Deleting
  <2> QED
    BY <1>1, <1>2, <2>1, <2>2, <2>3, <2>4, <2>5, FilesOnly
<1>5. CASE FileFailed(TRUE) /\ UNCHANGED <<disk, tmp>>
  BY <1>1, <1>2, <1>5, FailedKeeps
<1> QED
  BY <1>4, <1>5 DEF rename

\* del
LEMMA DelKeeps == ASSUME Inv, del PROVE Inv'
<1>1. /\ tool.pc = "del" /\ MutIdle /\ mut' = Mutation("delete", Name, <<>>, 0) /\ To_("deleted")
      /\ UNCHANGED <<requests, answer, disk, tmp>>
      /\ UNCHANGED <<world, contextOf, area, serial_, reads, value, crashed>>
  BY DEF del
<1>2. tool.pc \in Deleting
  BY <1>1 DEF Deleting
<1>3. /\ tool \in ToolRecords /\ tool.op = "delete" /\ Persisting
      /\ Name \in Names /\ disk \in [Names -> Opt]
  BY <1>2, DeleteFacts
<1>4. Starts("delete", Name, <<>>, 0)
  BY <1>3 DEF Starts, Texts
<1>5. StoresNothing /\ MutOK' /\ mut' # Idle /\ mut'.op = "delete" /\ mut'.name = Name
  BY <1>1, <1>4, StartsMut
<1>6. /\ tool' \in ToolRecords /\ tool'.pc = "deleted" /\ tool'.op = tool.op /\ tool'.late = tool.late
      /\ tool'.asked = tool.asked /\ tool'.failed = tool.failed /\ Name' = Name
  BY <1>1, <1>3, ToFields
<1>7. Owner'
  BY <1>5, <1>6 DEF Owner, Own
<1>8. Persisting'
  BY <1>1, <1>3, <1>6 DEF Persisting
<1>9. tool'.pc \in Deleting
  BY <1>6 DEF Deleting
<1> QED
  BY <1>1, <1>2, <1>3, <1>5, <1>6, <1>7, <1>8, <1>9, DeleteRuns

\* deleted
LEMMA DeletedKeeps == ASSUME Inv, deleted PROVE Inv'
<1> DEFINE ret == IF mut.ret # 0 /\ ~(tool.persist /\ IsPersist(Name)) THEN 1 ELSE 0
<1>1. /\ tool.pc = "deleted" /\ mut.pc = "return" /\ mut' = Idle /\ Done(ret, FALSE)
      /\ UNCHANGED <<requests, answer, disk, tmp>>
      /\ UNCHANGED <<world, contextOf, area, serial_, reads, value, crashed>>
  BY DEF deleted
<1>2. tool.pc \in Deleting
  BY <1>1 DEF Deleting
<1>3. /\ ToolOK /\ tool # Resting /\ tool \in ToolRecords /\ tool.op = "delete" /\ Persisting
      /\ Name \in Names /\ disk \in [Names -> Opt]
      /\ answer \in {"none", "success", "refused"}
      /\ \A i \in DOMAIN requests : ~requests[i].waits
  BY <1>2, DeleteFacts
<1>4. StoresNothing /\ MutOK'
  BY <1>1, EndsMut
<1>5. mut # Idle /\ mut.op = "delete" /\ mut.name = Name
  BY <1>1, <1>3 DEF ToolOK, Owner
<1>6. find(Name) = 0
  <2>1. Context = GetPropAreaForName(Name)
    BY <1>5 DEF Context
  <2>2. MutationOK(mut, Context # None, Area, value[mut.name])
    BY <1>5 DEF Inv, MutOK
  <2>3. Context # None => PropIn(Area.bt, Name) = 0
    BY <1>1, <1>5, <2>2 DEF MutationOK, Outcome
  <2> QED
    BY <2>1, <2>3 DEF find, Area
<1>7. Lasting'
  <2>1. /\ last'.name = Name /\ last'.persist = tool.asked /\ last'.value = None
        /\ last'.late = (tool.late \/ requests # <<>>) /\ last'.failed = tool.failed
    BY <1>1, <1>3 DEF Done
  <2>2. stored(last.name, last.persist)' = stored(Name, tool.asked)
    BY <1>1, <1>4, <2>1, LastReads
  <2>3. ~tool.late /\ ~tool.failed => stored(Name, tool.asked) = None
    <3>1. ~tool.late /\ ~tool.failed /\ tool.asked /\ IsPersist(Name) => disk[Name] = None
      BY <1>1, <1>3 DEF Persisting
    <3> QED
      BY <1>6, <3>1 DEF stored, persist_getprop
  <2> QED
    BY <1>1, <2>1, <2>2, <2>3 DEF Lasting
<1> HIDE DEF ret
<1> QED
  BY <1>1, <1>3, <1>4, <1>7, CallEnds

-----------------------------------------------------------------------------
\* While init has something to do, what a call left behind is excused.
LEMMA StillExcused ==
    ASSUME Lasting, requests # <<>>, UNCHANGED <<tool, last, world, crashed>>
    PROVE  Lasting'
BY DEF Lasting, detect_protocol_version, World

\* Whatever the tool deletes meanwhile, init's steps are excused.
LEMMA DeletesMeanwhile ==
    ASSUME ToolOK, tool # Resting, tool.op = "delete", requests # <<>>, UNCHANGED <<tool, tmp>>
    PROVE  Persisting'
<1>1. Persisting
  BY DEF ToolOK
<1>2. tool.late
  BY <1>1 DEF Persisting, ToolOK, ToolRecords
<1>3. Name' = Name
  BY DEF Name
<1> QED
  BY <1>1, <1>2, <1>3 DEF Persisting

\* The requests without the first: nobody else waits.
LEMMA TailRequests ==
    ASSUME ToolOK, requests # <<>>
    PROVE  /\ Head(requests) \in [name : Names, value : Texts, waits : BOOLEAN]
           /\ Tail(requests) \in Seq([name : Names, value : Texts, waits : BOOLEAN])
           /\ Head(requests).waits => /\ Tail(requests) = <<>> /\ tool.pc = "answer" /\ answer = "none"
                                      /\ Head(requests).name = Name /\ Head(requests).value = Value
           /\ \A i \in DOMAIN Tail(requests) : Tail(requests)[i].waits =>
                /\ i = Len(Tail(requests)) /\ tool.pc = "answer" /\ answer = "none"
                /\ Tail(requests)[i].name = Name /\ Tail(requests)[i].value = Value
                /\ ~Head(requests).waits
<1> DEFINE S == [name : Names, value : Texts, waits : BOOLEAN]
           t == Tail(requests)
<1>1. requests \in Seq(S)
  BY DEF ToolOK, Requests
<1>2. \A i \in DOMAIN requests : requests[i].waits =>
        /\ i = Len(requests) /\ tool.pc = "answer" /\ answer = "none"
        /\ requests[i].name = Name /\ requests[i].value = Value
  BY DEF ToolOK, Requests
<1> HIDE DEF S
<1>3. /\ Head(requests) \in S /\ t \in Seq(S) /\ Len(t) = Len(requests) - 1
      /\ \A i \in 1 .. Len(t) : t[i] = requests[i + 1]
  BY <1>1, HeadTailProperties
<1>4. Len(requests) \in Nat /\ DOMAIN requests = 1 .. Len(requests) /\ Len(requests) > 0
      /\ Head(requests) = requests[1]
  BY <1>1
<1> HIDE DEF t
<1>5. DOMAIN t = 1 .. Len(t) /\ Len(t) \in Nat
  BY <1>3
<1>6. ASSUME Head(requests).waits
      PROVE  /\ t = <<>> /\ tool.pc = "answer" /\ answer = "none"
             /\ Head(requests).name = Name /\ Head(requests).value = Value
  <2>1. 1 \in DOMAIN requests
    BY <1>4
  <2>2. 1 = Len(requests) /\ tool.pc = "answer" /\ answer = "none"
        /\ requests[1].name = Name /\ requests[1].value = Value
    BY <1>2, <1>4, <1>6, <2>1
  <2>3. t = <<>>
    <3>1. Len(t) = Len(requests) - 1 /\ Len(requests) = 1
      BY <1>3, <2>2
    <3>2. Len(t) = 0
      BY <3>1
    <3> QED
      BY <1>3, <3>2, EmptySeq
  <2> QED
    BY <1>4, <2>2, <2>3
<1>7. ASSUME NEW i \in DOMAIN t, t[i].waits
      PROVE  /\ i = Len(t) /\ tool.pc = "answer" /\ answer = "none"
             /\ t[i].name = Name /\ t[i].value = Value /\ ~Head(requests).waits
  <2>1. i \in 1 .. Len(t) /\ i + 1 \in DOMAIN requests /\ t[i] = requests[i + 1]
    BY <1>3, <1>4, <1>5
  <2>2. i + 1 = Len(requests) /\ tool.pc = "answer" /\ answer = "none"
        /\ t[i].name = Name /\ t[i].value = Value
    BY <1>2, <1>7, <2>1
  <2>3. ~Head(requests).waits
    <3>1. Head(requests).waits => Len(t) = 0
      BY <1>6
    <3> QED
      BY <1>5, <2>1, <3>1
  <2> QED
    BY <1>3, <1>4, <1>5, <2>1, <2>2, <2>3
<1> QED
  BY <1>3, <1>6, <1>7 DEF S, t

\* init's code for the first request, and the others left.
LEMMA RequestsLeft ==
    ASSUME ToolOK, requests # <<>>, UNCHANGED tool, requests' = Tail(requests),
           NEW code \in {"success", "refused"},
           answer' = IF Head(requests).waits THEN code ELSE answer,
           Head(requests).waits /\ code = "success" => mut' = Idle /\ value'[Name] = Shows(Value)
    PROVE  Requests'
<1>1. Name' = Name /\ Value' = Value
  BY DEF Name, Value
<1>2. answer \in {"none", "success", "refused"} /\ ~(tool.pc = "answer" /\ answer = "success")
  BY DEF ToolOK, Requests
<1>3. CASE Head(requests).waits
  <2>1. requests' = <<>> /\ answer' = code
    BY <1>3, TailRequests
  <2>2. requests' \in Seq([name : Names, value : Texts, waits : BOOLEAN])
    BY TailRequests
  <2>3. \A i \in DOMAIN requests' : FALSE
    <3>1. DOMAIN requests' = DOMAIN << >>
      BY <2>1
    <3>2. DOMAIN << >> = {}
      OBVIOUS
    <3> QED
      BY <3>1, <3>2
  <2> QED
    BY <1>1, <1>3, <2>1, <2>2, <2>3 DEF Requests
<1>4. CASE ~Head(requests).waits
  <2>1. answer' = answer
    BY <1>4
  <2> QED
    BY <1>1, <1>2, <2>1, TailRequests DEF Requests
<1> QED
  BY <1>3, <1>4

\* ServiceTakes
LEMMA TakesKeeps == ASSUME Inv, ServiceTakes PROVE Inv'
<1> DEFINE request == Head(requests)
           pi == find(request.name)
<1>1. /\ requests # <<>> /\ MutIdle /\ UNCHANGED <<tool, tmp, calls, last>>
      /\ UNCHANGED <<world, contextOf, area, serial_, reads, value, crashed>>
      /\ ToolOK /\ MutOK /\ Areas /\ Agree /\ Lasting /\ mut = Idle
  BY BusyMut DEF ServiceTakes, MutIdle, Inv
<1>2. request \in [name : Names, value : Texts, waits : BOOLEAN]
  BY <1>1, TailRequests
<1>3. request.name \in Names /\ request.value \in Texts
  BY <1>2
<1>4. pi \in Nat
  BY <1>1, <1>3, FindIsNat
<1>5. Lasting'
  BY <1>1, StillExcused
<1>6. tool # Resting /\ tool.op = "delete" => Persisting'
  BY <1>1, DeletesMeanwhile
<1>7. tool.pc \notin Own
  BY <1>1 DEF ToolOK, Owner, Own
<1>8. CASE pi # 0 /\ is_read_only(request.name)
  <2>1. /\ answer' = IF request.waits THEN "refused" ELSE answer
        /\ requests' = Tail(requests) /\ UNCHANGED <<mut, disk>>
    BY <1>8 DEF ServiceTakes
  <2>2. Requests'
    BY <1>1, <2>1, RequestsLeft
  <2>3. Owner'
    BY <1>1, <1>7, <2>1 DEF Owner, Own
  <2>4. ToolOK'
    BY <1>1, <1>6, <2>1, <2>2, <2>3 DEF ToolOK
  <2>5. StoresNothing /\ MutOK'
    BY <1>1, <2>1, LeavesMut DEF areaVars
  <2> QED
    BY <1>5, <2>4, <2>5, Together
<1>9. CASE ~(pi # 0 /\ is_read_only(request.name))
  <2> DEFINE op == IF pi # 0 THEN "update" ELSE "add"
  <2>1. /\ mut' = Mutation(op, request.name, request.value, pi) /\ UNCHANGED <<answer, requests>>
        /\ disk' = IF IsPersist(request.name) /\ mut'.ret = 0
                   THEN [disk EXCEPT ![request.name] = request.value] ELSE disk
    BY <1>9 DEF ServiceTakes
  <2>2. Starts(op, request.name, request.value, pi)
    BY <1>3, <1>4 DEF Starts
  <2>3. op \in {"update", "add"} /\ (op = "update" => ~is_read_only(request.name))
    BY <1>9
  <2>4. disk' \in [Names -> Opt]
    <3>1. disk \in [Names -> Opt] /\ request.value \in Opt
      BY <1>1, <1>3 DEF ToolOK, Opt, Told, Texts
    <3> QED
      BY <1>3, <2>1, <3>1
  <2> HIDE DEF op, pi
  <2>5. /\ StoresNothing /\ MutOK' /\ mut' # Idle /\ mut'.op = op /\ mut'.name = request.name
        /\ mut'.v = request.value
    BY <1>1, <2>1, <2>2, StartsMut
  <2>6. Requests'
    <3>1. Name' = Name /\ Value' = Value
      BY <1>1 DEF Name, Value
    <3> QED
      BY <1>1, <2>1, <3>1 DEF ToolOK, Requests
  <2>7. Owner'
    BY <1>1, <1>7, <2>1, <2>3, <2>5 DEF Owner, Own
  <2>8. ToolOK'
    BY <1>1, <1>6, <2>4, <2>6, <2>7 DEF ToolOK
  <2> QED
    BY <1>5, <2>5, <2>8, Together
<1> QED
  BY <1>8, <1>9

\* ServiceAnswers: what was asked for is shown.
LEMMA AnswersKeeps == ASSUME Inv, ServiceAnswers PROVE Inv'
<1> DEFINE code == IF mut.ret = 0 THEN "success" ELSE "refused"
<1>1. /\ requests # <<>> /\ mut.pc = "return" /\ UNCHANGED <<tool, disk, tmp, calls, last>>
      /\ UNCHANGED <<world, contextOf, area, serial_, reads, value, crashed>>
      /\ mut' = Idle /\ requests' = Tail(requests) /\ tool.pc \notin Own
      /\ answer' = IF Head(requests).waits THEN code ELSE answer
      /\ ToolOK /\ MutOK /\ Areas /\ Agree /\ Lasting /\ mut # Idle
  BY BusyMut DEF ServiceAnswers, Inv, Own
<1>2. StoresNothing /\ MutOK'
  BY <1>1, EndsMut
<1>3. Lasting'
  BY <1>1, StillExcused
<1>4. tool # Resting /\ tool.op = "delete" => Persisting'
  BY <1>1, DeletesMeanwhile
<1>5. /\ mut.name = Head(requests).name /\ mut.v = Head(requests).value
      /\ mut.op \in {"update", "add"} /\ (mut.op = "update" => ~is_read_only(mut.name))
  BY <1>1 DEF ToolOK, Owner
<1>6. mut.ret = 0 => value[mut.name] = Shows(mut.v)
  <2> SUFFICES ASSUME mut.ret = 0 PROVE value[mut.name] = Shows(mut.v)
    OBVIOUS
  <2>1. /\ MutationOK(mut, Context # None, Area, value[mut.name])
        /\ Context # None => AreaOK(Area) /\ Holds(Area, mut.name, value[mut.name])
    BY <1>1, MutFacts
  <2>2. CASE mut.op = "add"
    BY <1>1, <2>1, <2>2 DEF MutationOK, Outcome
  <2>3. CASE mut.op = "update"
    <3>1. /\ Context # None /\ mut.pi # 0 /\ mut.pi = PropIn(Area.bt, mut.name)
          /\ Area.info[mut.pi].is_long \/ value[mut.name] = Shows(mut.v)
      BY <1>1, <2>1, <2>3 DEF MutationOK, Outcome
    <3>2. mut.pi \in DOMAIN Area.info /\ Area.info[mut.pi].name = mut.name
      BY <2>1, <3>1 DEF Holds
    <3>3. Area.info[mut.pi].is_long => is_read_only(mut.name)
      BY <2>1, <3>1, <3>2 DEF AreaOK, InfoOK
    <3> QED
      BY <1>5, <2>3, <3>1, <3>3
  <2> QED
    BY <1>5, <2>2, <2>3
<1>7. Requests'
  <2>1. code \in {"success", "refused"} /\ (code = "success" => mut.ret = 0)
    OBVIOUS
  <2>2. Head(requests).waits => Head(requests).name = Name /\ Head(requests).value = Value
    BY <1>1, TailRequests
  <2> HIDE DEF code
  <2>3. Head(requests).waits /\ code = "success" => mut' = Idle /\ value'[Name] = Shows(Value)
    BY <1>1, <1>5, <1>6, <2>1, <2>2
  <2> QED
    BY <1>1, <2>1, <2>3, RequestsLeft
<1>8. Owner'
  BY <1>1 DEF Owner, Own
<1>9. ToolOK'
  BY <1>1, <1>4, <1>7, <1>8 DEF ToolOK
<1> QED
  BY <1>2, <1>3, <1>9, Together

\* Kill: what it leaves odd it is named for.
LEMMA KillKeeps == ASSUME Inv, Kill PROVE Inv'
<1>1. /\ tool.pc # "idle" /\ crashed' = TRUE /\ tool' = Resting
      /\ mut' = IF tool.pc \in Own THEN Idle ELSE mut
      /\ requests' = Forget(requests) /\ answer' = "none"
      /\ UNCHANGED <<world, contextOf, area, serial_, reads, value, disk, tmp, calls, last>>
      /\ ToolOK
  BY DEF Kill, Inv, Own
<1>2. \A n : Written(n)' => Written(n)
  BY <1>1 DEF Written, Idle
<1>3. StoresNothing
  BY <1>1, <1>2 DEF StoresNothing
<1>4. MutOK'
  BY <1>1, <1>3, MutStays DEF Inv
<1>5. tool'.pc = "idle"
  BY <1>1 DEF Resting
<1>6. Requests'
  BY <1>1, <1>5, Forgotten DEF Requests
<1>7. Owner'
  <2>1. mut # Idle /\ tool.pc \notin Own =>
          /\ requests # <<>> /\ mut.name = Head(requests).name /\ mut.v = Head(requests).value
          /\ mut.op \in {"update", "add"}
          /\ mut.op = "update" => ~is_read_only(mut.name)
    BY <1>1 DEF ToolOK, Owner
  <2> QED
    BY <1>1, <1>5, <2>1, Forgotten DEF Owner, Own
<1>8. ToolOK'
  BY <1>1, <1>6, <1>7 DEF ToolOK
<1>9. Lasting'
  BY <1>1 DEF Lasting
<1> QED
  BY <1>3, <1>4, <1>8, <1>9, Together

\* The files stay as they are, or a persisted property is added.
LEMMA FilesStay ==
    ASSUME Files, UNCHANGED <<world, tmp>>,
           \A n \in Names : disk[n] # None => disk'[n] # None,
           tool.pc \in {"encode", "rename"} => Name \in Names,
           UNCHANGED tool \/ tool'.pc \notin {"collect", "encode", "rename", "unlink"}
    PROVE  Files'
<1>1. World' = World
  BY DEF World
<1>2. tmp # None => \E m \in Names : /\ disk'[m] # None
                                     /\ \A n \in Names : tmp[n] # None => n # m /\ disk'[n] # None
  BY DEF Files
<1>3. UNCHANGED tool => Name' = Name
  BY DEF Name
<1>4. CASE UNCHANGED tool
  <2>2. tool.pc \in {"encode", "rename"} =>
          disk'[Name'] # None /\ \A n \in Names : tool'.list[n] # None => disk'[n] # None
    BY <1>3, <1>4 DEF Files
  <2> QED
    BY <1>1, <1>2, <1>4, <2>2 DEF Files
<1>5. CASE tool'.pc \notin {"collect", "encode", "rename", "unlink"}
  BY <1>1, <1>2, <1>5 DEF Files
<1> QED
  BY <1>4, <1>5

\* A temporary file that is written has some of the records that are left.
LEMMA FilesWritten ==
    ASSUME Files, Persisting, tool.pc \in {"encode", "rename"}, Name \in Names,
           NEW t \in [Names -> Opt], \A n \in Names : t[n] \in {None, tool.list[n]}
    PROVE  /\ World.use_pb
           /\ \E m \in Names : /\ disk[m] # None
                               /\ \A n \in Names : t[n] # None => n # m /\ disk[n] # None
<1>1. /\ World.use_pb /\ disk[Name] # None
      /\ \A n \in Names : tool.list[n] # None => disk[n] # None
  BY DEF Files
<1>2. tool.list[Name] = None
  BY DEF Persisting
<1>3. \A n \in Names : t[n] # None => n # Name /\ disk[n] # None
  BY <1>1, <1>2
<1> QED
  BY <1>1, <1>3

\* Every step keeps the files.
LEMMA FilesKeep == ASSUME Inv, Files, [Next]_vars PROVE Files'
<1> DEFINE Plain == UNCHANGED tool \/ tool'.pc \notin {"collect", "encode", "rename", "unlink"}
<1>a. /\ ToolOK /\ disk \in [Names -> Opt]
      /\ tool.pc \in Deleting => /\ tool \in ToolRecords /\ tool.op = "delete" /\ Persisting
                                 /\ Name = tool.name /\ Name \in Names
  BY DeleteFacts DEF Inv, ToolOK
<1>b. ASSUME Done(1, FALSE) \/ (\E ret, long : Done(ret, long)), tool # Resting
      PROVE  tool'.pc \notin {"collect", "encode", "rename", "unlink"}
  <2>1. NextCall
    BY <1>b, DoneNext DEF Inv
  <2> QED
    BY <2>1 DEF NextCall, Resting
<1>c. tool.pc \in {"encode", "rename"} => Name \in Names
  BY <1>a DEF Deleting
<1>0. ASSUME UNCHANGED <<world, tmp, disk>>, Plain PROVE Files'
  BY <1>0, <1>c, FilesStay
<1>1. CASE UNCHANGED vars
  BY <1>0, <1>1 DEF vars, areaVars, toolVars
<1>2. ASSUME NEW command \in World.commands, resetprop_main(command) PROVE Files'
  BY <1>0, <1>2 DEF resetprop_main, areaVars
<1>3. CASE setprop
  <2>1. tool # Resting
    BY <1>3 DEF setprop, Resting
  <2>2. Plain
    <3>1. CASE Done(1, FALSE)
      BY <1>b, <2>1, <3>1
    <3>2. ASSUME NEW pc \in {"reset", "request", "update", "add"}, To_(pc)
          PROVE  Plain
      <4>1. tool \in ToolRecords
        BY <1>a, <2>1 DEF ToolOK
      <4>2. tool'.pc = pc
        BY <3>2, <4>1, ToFields
      <4> QED
        BY <4>2
    <3> HIDE DEF Plain
    <3> QED
      BY <1>3, <3>1, <3>2 DEF setprop
  <2> QED
    BY <1>0, <1>3, <2>2 DEF setprop
<1>4. CASE mutated
  <2>1. tool # Resting
    BY <1>4 DEF mutated, Resting
  <2> QED
    BY <1>0, <1>4, <1>b, <2>1 DEF mutated
<1>5. CASE reset
  <2>1. tool \in ToolRecords
    BY <1>5, <1>a DEF reset, ToolOK, Resting
  <2>2. tool'.pc = "request"
    BY <1>5, <2>1, ToFields DEF reset
  <2> QED
    BY <1>0, <1>5, <2>2 DEF reset
<1>6. CASE __system_property_set
  <2>1. tool # Resting /\ tool \in ToolRecords
    BY <1>6, <1>a DEF __system_property_set, ToolOK, Resting
  <2>2. UNCHANGED <<world, tmp, disk>>
    BY <1>6 DEF __system_property_set, areaVars
  <2>3. CASE Done(-1, FALSE)
    BY <1>0, <1>b, <2>1, <2>2, <2>3
  <2>4. CASE To_("answer")
    <3>1. tool'.pc = "answer"
      BY <2>1, <2>4, ToFields
    <3> QED
      BY <1>0, <2>2, <3>1
  <2> QED
    BY <1>6, <2>3, <2>4 DEF __system_property_set
<1>7. CASE answered
  <2>1. tool # Resting
    BY <1>7 DEF answered, Resting
  <2> QED
    BY <1>0, <1>7, <1>b, <2>1 DEF answered, areaVars
<1>8. CASE timed_out
  <2>1. tool # Resting /\ tool \in ToolRecords /\ (tool.op = "set" => tool.sets # <<>>)
    BY <1>8, <1>a DEF timed_out, ToolOK, Resting
  <2>2. NextCall
    BY <1>8, <2>1, NextLine DEF timed_out, Inv, Areas
  <2>3. tool'.pc \notin {"collect", "encode", "rename", "unlink"}
    BY <2>2 DEF NextCall, Resting
  <2> QED
    BY <1>0, <1>8, <2>3 DEF timed_out, areaVars
<1>9. CASE deleteprop
  <2>1. tool.pc \in Deleting /\ tool # Resting
    BY <1>9 DEF deleteprop, Deleting, Resting
  <2>2. CASE Done(1, FALSE)
    BY <1>0, <1>9, <1>b, <2>1, <2>2 DEF deleteprop, areaVars
  <2>3. CASE ~Done(1, FALSE)
    <3> DEFINE pc == IF tool.persist /\ IsPersist(Name)
                     THEN IF World.use_pb THEN "collect" ELSE "unlink" ELSE "del"
    <3>1. To_(pc)
      BY <1>9, <2>3 DEF deleteprop
    <3>2. /\ pc \in {"collect", "unlink", "del"} /\ (pc = "collect" => World.use_pb)
          /\ (pc = "unlink" => ~World.use_pb)
      OBVIOUS
    <3> HIDE DEF pc
    <3>3. tool'.pc = pc
      BY <1>a, <2>1, <3>1, <3>2, ToFields
    <3>4. UNCHANGED <<world, tmp, disk>> /\ World' = World
      BY <1>9 DEF deleteprop, areaVars, World
    <3> QED
      BY <3>2, <3>3, <3>4 DEF Files
  <2> QED
    BY <2>2, <2>3
<1>10. CASE unlink
  <2>1. tool.pc \in Deleting /\ tool.pc = "unlink" /\ tmp' = tmp /\ World' = World
    BY <1>10 DEF unlink, Deleting, areaVars, World
  <2>2. tmp = None
    BY <2>1 DEF Files
  <2>3. tool'.pc = "del"
    BY <1>10, <1>a, <2>1 DEF unlink, Persisted, FileFailed, ToolRecords
  <2> QED
    BY <2>1, <2>2, <2>3 DEF Files
<1>11. CASE collect_props
  <2> DEFINE list == [n \in Names |-> IF n = Name THEN None ELSE disk[n]]
             none == [n \in Names |-> None]
  <2>1. /\ tool.pc \in Deleting /\ tool.pc = "collect" /\ UNCHANGED <<world, disk>> /\ World' = World
    BY <1>11 DEF collect_props, Deleting, areaVars, World
  <2>2. World.use_pb
    BY <2>1 DEF Files
  <2>3. CASE Persisted(FALSE) /\ UNCHANGED tmp
    <3>1. tool'.pc = "del"
      BY <1>a, <2>1, <2>3 DEF Persisted, ToolRecords
    <3> QED
      BY <1>0, <2>1, <2>3, <3>1
  <2>4. CASE FileFailed(FALSE) /\ UNCHANGED tmp
    <3>1. tool'.pc = "del"
      BY <1>a, <2>1, <2>4 DEF FileFailed, ToolRecords
    <3> QED
      BY <1>0, <2>1, <2>4, <3>1
  <2>5. list \in [Names -> Opt] /\ \A n \in Names : list[n] # None => disk[n] # None
    BY <1>a DEF Opt
  <2>6. none \in [Names -> Opt] /\ \A n \in Names : none[n] = None
    BY DEF Opt
  <2>7. CASE /\ disk[Name] # None /\ tmp' = none
             /\ tool' = [tool EXCEPT !.pc = "encode", !.list = list]
    <3> HIDE DEF list, none
    <3>1. /\ tool'.pc = "encode" /\ tool'.list = list /\ tool'.op = tool.op /\ tool'.name = tool.name
      BY <1>a, <2>1, <2>7 DEF ToolRecords
    <3>2. Name' = Name /\ Name \in Names
      BY <1>a, <2>1, <3>1 DEF Name
    <3>3. \E m \in Names : /\ disk'[m] # None
                           /\ \A n \in Names : tmp'[n] # None => n # m /\ disk'[n] # None
      BY <2>1, <2>6, <2>7, <3>2
    <3> QED
      BY <2>1, <2>2, <2>5, <2>6, <2>7, <3>1, <3>2, <3>3 DEF Files
  <2>8. CASE /\ disk[Name] # None /\ list = none /\ UNCHANGED tmp
             /\ tool' = [tool EXCEPT !.pc = "rename", !.list = list, !.failed = TRUE]
    <3> HIDE DEF list, none
    <3>1. /\ tool'.pc = "rename" /\ tool'.list = list /\ tool'.op = tool.op /\ tool'.name = tool.name
      BY <1>a, <2>1, <2>8 DEF ToolRecords
    <3>2. Name' = Name /\ Name \in Names
      BY <1>a, <2>1, <3>1 DEF Name
    <3> QED
      BY <2>1, <2>2, <2>5, <2>8, <3>1, <3>2 DEF Files
  <2> QED
    BY <1>11, <2>3, <2>4, <2>7, <2>8 DEF collect_props
<1>12. CASE prop_encode
  <2>1. /\ tool.pc \in Deleting /\ tool.pc = "encode" /\ UNCHANGED <<world, disk>> /\ World' = World
    BY <1>12 DEF prop_encode, Deleting, areaVars, World
  <2>2. /\ tool.list \in [Names -> Opt] /\ tmp \in [Names -> Opt]
        /\ \A n \in Names : tmp[n] \in {None, tool.list[n]}
    BY <1>a, <2>1 DEF Persisting
  <2>3. CASE To_("rename") /\ UNCHANGED tmp
    <3>1. /\ tool'.pc = "rename" /\ tool'.list = tool.list /\ Name' = Name
      BY <1>a, <2>1, <2>3, ToFields
    <3> QED
      BY <2>1, <2>3, <3>1 DEF Files
  <2>4. ASSUME NEW n \in Names, tmp' = [tmp EXCEPT ![n] = tool.list[n]], UNCHANGED tool
        PROVE  Files'
    <3>1. tmp' \in [Names -> Opt] /\ \A k \in Names : tmp'[k] \in {None, tool.list[k]}
      BY <2>2, <2>4
    <3>2. /\ World.use_pb
          /\ \E m \in Names : /\ disk[m] # None
                              /\ \A k \in Names : tmp'[k] # None => k # m /\ disk[k] # None
      BY <1>a, <2>1, <3>1, FilesWritten
    <3>3. Name' = Name
      BY <2>4 DEF Name
    <3> QED
      BY <2>1, <2>4, <3>1, <3>2, <3>3 DEF Files
  <2>5. CASE FileFailed(FALSE) /\ UNCHANGED tmp
    <3>1. tool'.pc = "del"
      BY <1>a, <2>1, <2>5 DEF FileFailed, ToolRecords
    <3> QED
      BY <1>0, <2>1, <2>5, <3>1
  <2> QED
    BY <1>12, <2>3, <2>4, <2>5 DEF prop_encode
<1>13. CASE rename
  <2>1. tool.pc \in Deleting /\ tool.pc = "rename" /\ World' = World /\ world' = world
    BY <1>13 DEF rename, Deleting, areaVars, World
  <2>2. tool'.pc = "del"
    BY <1>13, <1>a, <2>1 DEF rename, Persisted, FileFailed, ToolRecords
  <2>3. CASE tmp' = None
    BY <2>1, <2>2, <2>3 DEF Files
  <2>4. CASE UNCHANGED <<disk, tmp>>
    BY <1>0, <2>1, <2>2, <2>4
  <2> QED
    BY <1>13, <2>3, <2>4 DEF rename
<1>14. CASE del
  <2>1. tool.pc \in Deleting
    BY <1>14 DEF del, Deleting
  <2>2. tool'.pc = "deleted"
    BY <1>14, <1>a, <2>1, ToFields DEF del
  <2> QED
    BY <1>0, <1>14, <2>2 DEF del
<1>15. CASE deleted
  <2>1. tool # Resting
    BY <1>15 DEF deleted, Resting
  <2> QED
    BY <1>0, <1>15, <1>b, <2>1 DEF deleted
<1>16. CASE ServiceTakes
  <2>1. /\ requests # <<>> /\ UNCHANGED <<tool, tmp, world>>
        /\ disk' = disk \/ disk' = [disk EXCEPT ![Head(requests).name] = Head(requests).value]
    BY <1>16 DEF ServiceTakes
  <2>2. Head(requests).value # None
    <3>1. Head(requests).value \in Texts
      BY <1>a, <2>1, TailRequests
    <3> QED
      BY <3>1, AreaAssumption DEF Texts
  <2>3. \A n \in Names : disk[n] # None => disk'[n] # None
    BY <1>a, <2>1, <2>2
  <2> QED
    BY <1>c, <2>1, <2>3, FilesStay
<1>17. CASE ServiceAnswers
  BY <1>0, <1>17 DEF ServiceAnswers
<1>18. CASE Kill
  <2>1. tool'.pc = "idle"
    BY <1>18 DEF Kill, Resting
  <2> QED
    BY <1>0, <1>18, <2>1 DEF Kill
<1>19. CASE MutateStep
  BY <1>0, <1>19 DEF MutateStep, Mutate, toolVars
<1>20. ASSUME NEW r \in Readers, ReadStep(r) PROVE Files'
  BY <1>0, <1>20 DEF ReadStep, Read, toolVars
<1> QED
  BY <1>1, <1>2, <1>3, <1>4, <1>5, <1>6, <1>7, <1>8, <1>9, <1>10, <1>11, <1>12, <1>13, <1>14,
     <1>15, <1>16, <1>17, <1>18, <1>19, <1>20 DEF Next, Tool, Service

\* A step in which nothing happens.
LEMMA StutterKeeps == ASSUME Inv, UNCHANGED vars PROVE Inv'
<1>1. UNCHANGED <<world, contextOf, area, serial_, mut, value, crashed>> /\ UNCHANGED toolVars
      /\ UNCHANGED areaVars
  BY DEF vars, areaVars
<1>2. ToolOK' /\ Lasting'
  BY <1>1, RestStays DEF Inv
<1>3. StoresNothing /\ MutOK'
  BY <1>1, LeavesMut
<1> QED
  BY <1>2, <1>3, Together

\* Every step keeps the invariant.
LEMMA NextKeeps == ASSUME Inv, Files, [Next]_vars PROVE Inv'
<1>1. CASE UNCHANGED vars
  BY <1>1, StutterKeeps
<1>2. CASE Tool
  BY <1>2, SetpropKeeps, MutatedKeeps, ResetKeeps, RequestKeeps, AnsweredKeeps, DeletepropKeeps,
     UnlinkFileKeeps, CollectKeeps, EncodeKeeps, RenameKeeps, DelKeeps, DeletedKeeps DEF Tool
<1>3. CASE Service
  BY <1>3, TakesKeeps, AnswersKeeps DEF Service
<1> QED
  BY <1>1, <1>2, <1>3, MainKeeps, TimedOutKeeps, KillKeeps, MutateKeeps, ReadKeeps DEF Next

-----------------------------------------------------------------------------
\* The areas of the boot.
LEMMA InitAreas == ASSUME Init PROVE Areas /\ Agree /\ OddIsWritten
<1>1. /\ world \in DOMAIN Worlds /\ contextOf = ContextsIn(world) /\ area = AreasIn(world)
      /\ serial_ = 0 /\ value = ValuesIn(world) /\ crashed = FALSE /\ mut = Idle
  BY SMTT(30) DEF Init
<1> DEFINE places == {ContextsIn(world)[n] : n \in Names} \ {None}
<1>2. DOMAIN area = places /\ area = [c \in DOMAIN area |-> area[c]]
  BY <1>1, Zenon DEF AreasIn, BootArea
<1>3. None \notin DOMAIN area /\ contextOf \in [Names -> {None} \cup DOMAIN area]
  BY <1>1, <1>2 DEF ContextsIn
<1>4. \A c \in DOMAIN area : AreaOK(area[c])
  BY <1>1, BootAssumption
<1>5. ASSUME NEW n \in Names
      PROVE  IF contextOf[n] \in {None} \cup Worlds[world].denied THEN value[n] = Gone
             ELSE /\ Holds(area[contextOf[n]], n, value[n])
                  /\ PropIn(area[contextOf[n]].bt, n) # 0 =>
                       area[contextOf[n]].info[PropIn(area[contextOf[n]].bt, n)].serial = 0
  <2>1. CASE contextOf[n] \in {None} \cup Worlds[world].denied
    BY <1>1, <2>1 DEF ValuesIn
  <2>2. CASE contextOf[n] \notin {None} \cup Worlds[world].denied
    BY <1>1, <2>2, BootAssumption
  <2> QED
    BY <2>1, <2>2
<1>6. ASSUME NEW n \in Names PROVE value[n] \in Shown
  <2>1. value[n] = Gone \/ \E v : value[n] = Shows(v)
    BY <1>1 DEF ValuesIn
  <2>2. Gone \in Shown
    BY DEF Gone, Shown, Opt
  <2>3. CASE value[n] # Gone
    <3>1. value[n].ReadCallback \in Told /\ value[n].Read \in Seq(Int)
      BY <1>5, <2>3 DEF Holds, Told
    <3>2. PICK v : value[n] = Shows(v)
      BY <2>1, <2>3
    <3>3. value[n] = [ReadCallback |-> value[n].ReadCallback, Read |-> value[n].Read]
      BY <3>2 DEF Shows
    <3> QED
      BY <3>1, <3>3 DEF Shown, Opt, Told
  <2> QED
    BY <2>2, <2>3
<1>7. value \in [Names -> Shown]
  <2>1. value = [n \in Names |-> value[n]]
    BY <1>1 DEF ValuesIn
  <2> QED
    BY <1>6, <2>1
<1>8. \A n \in Names : GetPropAreaForName(n) =
        IF contextOf[n] \in {None} \cup Worlds[world].denied THEN None ELSE contextOf[n]
  BY DEF GetPropAreaForName, map_prop_area, World
<1>9. Areas
  BY <1>1, <1>2, <1>3, <1>4, <1>7 DEF Areas
<1>10. Agree
  BY <1>3, <1>5, <1>8 DEF Agree
<1>11. ASSUME NEW n \in Names, Odd(n) PROVE FALSE
  <2>1. GetPropAreaForName(n) = contextOf[n] /\ contextOf[n] \notin {None} \cup Worlds[world].denied
    BY <1>8, <1>11 DEF Odd
  <2>2. area[contextOf[n]].info[find(n)].serial = 0
    BY <1>5, <1>11, <2>1 DEF Odd, find
  <2>3. 0 % 2 # 1
    OBVIOUS
  <2> QED
    BY <1>11, <2>1, <2>2, <2>3 DEF Odd
<1>12. OddIsWritten
  BY <1>11 DEF OddIsWritten
<1> QED
  BY <1>9, <1>10, <1>12

\* The readers before their first read.
LEMMA InitReaders == ASSUME Init PROVE ReadersOK
<1>1. mut = Idle /\ world \in DOMAIN Worlds
  BY DEF Init
<1>2. /\ World.apis \subseteq {"Read", "ReadCallback"} /\ World.watched \subseteq Names
  BY <1>1, WorldAssumption DEF World
<1>3. ASSUME NEW api \in {"Read", "ReadCallback"}, NEW n \in Names
      PROVE  Reader(api, n) \in ReaderRecords /\ Reader(api, n).pc = "start"
  <2> DEFINE none == <<>>
             nobody == {}
  <2>1. none \in Seq(Int) /\ nobody \in SUBSET Opt
    OBVIOUS
  <2>2. Reader(api, n) =
          [pc |-> "start", api |-> api, name |-> n, old |-> 0, at |-> 0, i |-> 1, pi |-> 0,
           serial |-> 0, len |-> 0, got |-> none, seen |-> none, could |-> nobody, inPlace |-> FALSE]
    BY DEF Reader
  <2> HIDE DEF none, nobody
  <2> QED
    BY <2>1, <2>2 DEF ReaderRecords, Told
<1>4. reads \in [Readers -> {Reader(api, n) : api \in World.apis, n \in World.watched}]
  BY DEF Init
<1>5. ASSUME NEW r \in Readers PROVE reads[r] \in ReaderRecords /\ reads[r].pc = "start"
  <2>1. PICK api \in World.apis, n \in World.watched : reads[r] = Reader(api, n)
    BY <1>4
  <2>2. api \in {"Read", "ReadCallback"} /\ n \in Names
    BY <1>2
  <2> QED
    BY <1>3, <2>1, <2>2
<1>6. \A n : ~Written(n)
  BY <1>1 DEF Written, Idle
<1>7. ASSUME NEW r \in Readers
      PROVE  ReaderOK(reads[r], value[reads[r].name], Written(reads[r].name),
                      GetPropAreaForName(reads[r].name) # None, TheArea(r))
  BY <1>5, <1>6 DEF ReaderOK, Current, Finding, Reading
<1>8. reads \in [Readers -> ReaderRecords]
  BY <1>4, <1>5
<1> QED
  BY <1>7, <1>8 DEF ReadersOK

\* The invariant holds initially.
LEMMA InitInv == ASSUME Init PROVE Inv
<1>1. /\ mut = Idle /\ tool = Resting /\ requests = <<>> /\ answer = "none" /\ last = NoCall
      /\ disk = World.disk /\ world \in DOMAIN Worlds
  BY DEF Init
<1>2. MutOK
  BY <1>1 DEF MutOK
<1>3. disk \in [Names -> Opt]
  BY <1>1, WorldAssumption DEF World, Opt, Told
<1>4. Requests
  <2>1. requests \in Seq([name : Names, value : Texts, waits : BOOLEAN])
    BY <1>1, EmptySeq
  <2>2. DOMAIN << >> = {}
    OBVIOUS
  <2>3. DOMAIN requests = {}
    BY <1>1, <2>2
  <2>4. tool.pc # "answer"
    BY <1>1 DEF Resting
  <2> QED
    BY <1>1, <2>1, <2>3, <2>4 DEF Requests
<1>5. Owner
  BY <1>1 DEF Owner, Resting, Own
<1>6. ToolOK
  BY <1>1, <1>3, <1>4, <1>5 DEF ToolOK
<1>7. Lasting
  BY <1>1 DEF Lasting, NoCall
<1> QED
  BY <1>2, <1>6, <1>7, InitAreas, InitReaders DEF Inv

\* There is no temporary file yet.
LEMMA InitFiles == ASSUME Init PROVE Files
BY DEF Init, Files, Resting

\* Every reachable state of the property area, its readers, the mutation in progress, the
\* tool and init satisfies the inductive invariant.
THEOREM InvHolds == Spec => [](Inv /\ Files)
<1>1. Init => Inv /\ Files
  BY InitInv, InitFiles
<1>2. Inv /\ Files /\ [Next]_vars => (Inv /\ Files)'
  BY NextKeeps, FilesKeep
<1> QED
  BY <1>1, <1>2, PTL DEF Spec

\* What Find with Read or ReadCallback returns is a value the property had during the
\* read, for every set of names and values and any number of readers: the loads of the
\* trie, the serial and the characters never combine into anything else.
THEOREM ReadIsCurrentHolds == Spec => []ReadIsCurrent
<1>1. Inv => ReadIsCurrent
  BY DEF Inv, ReadersOK, ReaderOK, Current, ReadIsCurrent
<1> QED
  BY <1>1, InvHolds, PTL

-----------------------------------------------------------------------------
(* What a call that fails leaves *)

\* The property of the running call is as it was, or was deleted to be set anew.
Kept ==
    \/ value[Name] = tool.was
    \/ tool.op = "set" /\ tool.trigger /\ is_read_only(Name) /\ value[Name] = Gone

\* The mutation has shown nothing of itself, and if it is over it never will.
Unpublished ==
    \/ mut = Idle \/ mut.pc \in {"find", "link", "unlink", "dirty"}
    \/ mut.pc = "return" /\ mut.ret # 0

\* While no older request is with init, nothing but the call itself mutates.
Untouched ==
    (tool # Resting /\ ~tool.late) =>
        /\ tool.pc # "answer" => requests = <<>>
        /\ tool.pc = "answer" => IF answer = "none" THEN Len(requests) = 1 /\ Head(requests).waits
                                 ELSE requests = <<>> /\ mut = Idle
        /\ tool.pc = "reset" => is_read_only(Name)
        /\ Unpublished /\ ~(tool.pc = "answer" /\ answer = "success") => Kept

\* After a call that failed everything is at rest, and as it was.
Refused ==
    (tool = Resting /\ last.op # "none" /\ ~last.late /\ ~crashed /\ last.ret # 0) =>
        mut = Idle /\ requests = <<>> /\ ErrorIsUndone

Undone == Untouched /\ Refused

\* A step within a call that shows nothing.
LEMMA StillUntouched ==
    ASSUME Untouched, tool # Resting, tool' # Resting, UNCHANGED <<value, requests>>,
           tool'.late = tool.late, tool'.was = tool.was, tool'.op = tool.op,
           tool'.trigger = tool.trigger, Name' = Name, tool.pc # "answer", tool'.pc # "answer",
           tool'.pc = "reset" => is_read_only(Name), Unpublished
    PROVE  Undone'
<1>1. Refused'
  BY DEF Refused
<1>2. ~tool.late => requests = <<>> /\ Kept
  BY DEF Untouched
<1>3. Kept => Kept'
  BY DEF Kept
<1> QED
  BY <1>1, <1>2, <1>3 DEF Undone, Untouched

\* A call that is over: the next line of the file finds the property as it is.
LEMMA EndsUndone ==
    ASSUME Inv, Untouched, tool # Resting, NEW ret, NEW long, Done(ret, long), UNCHANGED value,
           tool.late \/ (requests = <<>> /\ requests' = <<>>),
           tool.late \/ ret = 0 \/ (Kept /\ mut' = Idle)
    PROVE  Undone'
<1>1. /\ NextCall
      /\ tool' # Resting => tool'.late = tool.late /\ Name' \in Names /\ tool'.was = value[Name']
  BY DoneNext DEF Inv
<1>2. tool' # Resting => tool'.pc = "set"
  BY <1>1 DEF NextCall
<1>3. Untouched'
  BY <1>1, <1>2 DEF Untouched, Kept
<1>4. /\ last'.op = tool.op /\ last'.name = Name /\ last'.ret = ret /\ last'.was = tool.was
      /\ last'.trigger = tool.trigger /\ last'.late = (tool.late \/ requests # <<>>)
  BY DEF Done
<1>5. Kept => ErrorIsUndone'
  BY <1>4 DEF Kept, ErrorIsUndone
<1>6. Refused'
  BY <1>4, <1>5 DEF Refused
<1> QED
  BY <1>3, <1>6 DEF Undone

\* Where the tool runs no mutation and no request is with init, none runs.
LEMMA NothingRuns ==
    ASSUME Inv, tool.pc \notin Own, requests = <<>>
    PROVE  mut = Idle
BY DEF Inv, ToolOK, Owner

\* A step of a mutation shows something, or nothing is shown by it nor was before.
LEMMA MutateShows ==
    ASSUME Inv, MutateStep, Unpublished'
    PROVE  UNCHANGED value /\ Unpublished /\ mut # Idle
<1>1. mut.pc \in {"find", "link", "unlink", "dirty", "copy", "clean", "wake", "bump", "wakeall"}
  BY DEF MutateStep, Mutate, Allocate, Link, Unlink, Dirty, Copy, Clean, Wake, Bump, WakeAll
<1>2. mut # Idle /\ mut \in Mutations
  BY <1>1 DEF Idle, Inv, MutOK, MutationOK
<1>3. ASSUME NEW pc, Goto(pc), pc \notin {"find", "link", "unlink", "dirty", "return", "idle"} PROVE FALSE
  BY <1>2, <1>3 DEF Goto, Mutations, Unpublished, Idle
<1>4. CASE Allocate
  <2>1. UNCHANGED value /\ mut.pc = "find"
    BY <1>4 DEF Allocate
  <2> QED
    BY <1>2, <2>1 DEF Unpublished
<1>5. CASE Link
  <2>1. mut.pc = "link" /\ (Goto("bump") \/ (Goto("find") /\ UNCHANGED value))
    BY <1>5 DEF Link
  <2> QED
    BY <1>2, <1>3, <2>1 DEF Unpublished
<1>6. CASE Unlink
  <2>1. mut.pc = "unlink" /\ (Goto("bump") \/ UNCHANGED value)
    BY <1>6 DEF Unlink
  <2> QED
    BY <1>2, <1>3, <2>1 DEF Unpublished
<1>7. CASE Dirty
  <2>1. mut.pc = "dirty" /\ UNCHANGED value
    BY <1>7 DEF Dirty
  <2> QED
    BY <1>2, <2>1 DEF Unpublished
<1>8. CASE Copy
  <2>1. mut'.pc \in {"copy", "clean"}
    BY <1>2, <1>8 DEF Copy, Mutations
  <2> QED
    BY <2>1 DEF Unpublished, Idle
<1>9. CASE Clean
  BY <1>3, <1>9 DEF Clean
<1>10. CASE Wake
  BY <1>3, <1>10 DEF Wake
<1>11. CASE Bump
  BY <1>3, <1>11 DEF Bump
<1>12. CASE WakeAll
  <2>1. mut'.pc = "return" /\ mut'.ret = 0
    BY <1>2, <1>12 DEF WakeAll, Return, Mutations
  <2> QED
    BY <2>1 DEF Unpublished, Idle
<1> QED
  BY <1>2, <1>4, <1>5, <1>6, <1>7, <1>8, <1>9, <1>10, <1>11, <1>12 DEF MutateStep, Mutate

\* The steps of the tool that sets.
LEMMA SetsUndone ==
    ASSUME Inv, Undone, setprop \/ mutated \/ reset \/ __system_property_set \/ answered
    PROVE  Undone'
<1>1. /\ tool # Resting /\ ToolOK /\ tool \in ToolRecords /\ Untouched
      /\ tool.pc \in {"set", "update", "add", "reset", "request", "answer"}
      /\ tool.op = "set"
  <2>1. tool.pc \in {"set", "update", "add", "reset", "request", "answer"}
    <3>1. setprop => tool.pc = "set"
      BY DEF setprop
    <3>2. mutated => tool.pc \in {"update", "add"}
      BY DEF mutated
    <3>3. reset => tool.pc = "reset"
      BY DEF reset
    <3>4. __system_property_set => tool.pc = "request"
      BY DEF __system_property_set
    <3>5. answered => tool.pc = "answer"
      BY DEF answered
    <3> QED
      BY <3>1, <3>2, <3>3, <3>4, <3>5
  <2>3. tool # Resting
    BY <2>1 DEF Resting
  <2>2. tool.pc \notin Deleting
    BY <2>1 DEF Deleting
  <2> QED
    BY <2>1, <2>2, <2>3, Busy DEF Inv, Undone
<1>2. ~tool.late /\ tool.pc # "answer" => requests = <<>>
  BY <1>1 DEF Untouched
<1>3. CASE setprop
  <2>1. tool.pc = "set" /\ mut = Idle /\ UNCHANGED <<value, requests>>
    BY <1>3, BusyMut DEF setprop, MutIdle, Inv
  <2>2. ~tool.late => Kept
    BY <1>1, <2>1 DEF Untouched, Unpublished
  <2>3. CASE Done(1, FALSE) /\ UNCHANGED mut
    BY <1>1, <1>2, <2>1, <2>2, <2>3, EndsUndone
  <2>4. ASSUME NEW pc \in {"reset", "request", "update", "add"}, To_(pc),
               pc = "reset" => is_read_only(Name)
        PROVE  Undone'
    <3>1. /\ tool'.pc = pc /\ tool'.op = tool.op /\ tool'.trigger = tool.trigger
          /\ tool'.late = tool.late /\ tool'.was = tool.was /\ Name' = Name /\ tool' # Resting
      BY <1>1, <2>4, ToFields
    <3>2. Unpublished
      BY <2>1 DEF Unpublished
    <3> QED
      BY <1>1, <2>1, <2>4, <3>1, <3>2, StillUntouched
  <2>5. CASE check_legal_property_name(Name)
    <3>1. (To_("reset") /\ is_read_only(Name)) \/ To_("request") \/ To_("update") \/ To_("add")
      BY <1>3, <2>5 DEF setprop
    <3>2. CASE To_("reset") /\ is_read_only(Name)
      BY <2>4, <3>2
    <3>3. CASE To_("request")
      BY <2>4, <3>3
    <3>4. CASE To_("update")
      BY <2>4, <3>4
    <3>5. CASE To_("add")
      BY <2>4, <3>5
    <3> QED
      BY <3>1, <3>2, <3>3, <3>4, <3>5
  <2>6. CASE ~check_legal_property_name(Name)
    BY <1>3, <2>3, <2>6 DEF setprop
  <2> QED
    BY <2>5, <2>6
<1>4. CASE mutated
  <2> DEFINE long == tool.pc = "update" /\ mut.ret = 0 /\ Area.info[mut.pi].is_long
  <2>1. /\ tool.pc \in {"update", "add"} /\ mut.pc = "return" /\ mut' = Idle
        /\ UNCHANGED <<value, requests>> /\ Done(mut.ret, long)
    BY <1>4 DEF mutated
  <2>2. ~tool.late /\ mut.ret # 0 => Kept
    BY <1>1, <2>1 DEF Untouched, Unpublished
  <2> HIDE DEF long
  <2> QED
    BY <1>1, <1>2, <2>1, <2>2, EndsUndone
<1>5. CASE reset
  <2>1. /\ tool.pc = "reset" /\ mut.pc = "return" /\ mut' = Idle /\ UNCHANGED <<value, requests>>
        /\ To_("request")
    BY <1>5 DEF reset
  <2>2. /\ tool'.pc = "request" /\ tool'.op = tool.op /\ tool'.trigger = tool.trigger
        /\ tool'.late = tool.late /\ tool'.was = tool.was /\ Name' = Name /\ tool' # Resting
    BY <1>1, <2>1, ToFields
  <2>3. value[Name] = Gone
    <3>1. mut # Idle /\ mut.op = "delete" /\ mut.name = Name /\ Name \in Names
      BY <1>1, <2>1, Busy DEF ToolOK, Owner
    <3>2. /\ MutationOK(mut, Context # None, Area, value[mut.name])
          /\ Context # None => Holds(Area, mut.name, value[mut.name])
      BY <3>1, MutFacts DEF Inv
    <3>3. CASE Context # None
      BY <2>1, <3>1, <3>2, <3>3 DEF MutationOK, Outcome, Holds
    <3>4. CASE Context = None
      BY <3>1, <3>4 DEF Inv, Agree, Context
    <3> QED
      BY <3>3, <3>4
  <2>4. ~tool.late => tool.trigger /\ is_read_only(Name)
    BY <1>1, <2>1 DEF Untouched, ToolOK
  <2>5. ~tool.late => Kept'
    BY <1>1, <2>1, <2>2, <2>3, <2>4 DEF Kept
  <2>6. Untouched'
    BY <1>2, <2>1, <2>2, <2>5 DEF Untouched
  <2>7. Refused'
    BY <2>2 DEF Refused
  <2> QED
    BY <2>6, <2>7 DEF Undone
<1>6. CASE __system_property_set
  <2>1. /\ tool.pc = "request" /\ answer = "none" /\ UNCHANGED value /\ mut' = mut
    BY <1>6 DEF __system_property_set, areaVars
  <2>2. ~tool.late => mut = Idle
    BY <1>2, <2>1, NothingRuns DEF Own
  <2>3. ~tool.late => Kept
    BY <1>1, <2>1, <2>2 DEF Untouched, Unpublished
  <2>4. CASE Done(-1, FALSE) /\ UNCHANGED requests
    BY <1>1, <1>2, <2>1, <2>2, <2>3, <2>4, EndsUndone
  <2>5. CASE /\ requests' = Append(requests, [name |-> Name, value |-> Value, waits |-> TRUE])
             /\ To_("answer") /\ UNCHANGED answer
    <3>1. /\ tool'.pc = "answer" /\ tool'.op = tool.op /\ tool'.trigger = tool.trigger
          /\ tool'.late = tool.late /\ tool'.was = tool.was /\ Name' = Name /\ tool' # Resting
      BY <1>1, <2>5, ToFields
    <3>2. ~tool.late => Len(requests') = 1 /\ Head(requests').waits
      BY <1>2, <2>1, <2>5
    <3>3. ~tool.late => Kept'
      BY <2>1, <2>3, <3>1 DEF Kept
    <3>4. Untouched'
      BY <2>1, <2>5, <3>1, <3>2, <3>3 DEF Untouched
    <3>5. Refused'
      BY <3>1 DEF Refused
    <3> QED
      BY <3>4, <3>5 DEF Undone
  <2> QED
    BY <1>6, <2>4, <2>5 DEF __system_property_set
<1>7. CASE answered
  <2> DEFINE ret == IF detect_protocol_version = 2 /\ answer # "success" THEN -1 ELSE 0
  <2>1. /\ tool.pc = "answer" /\ answer # "none" /\ UNCHANGED <<value, requests>> /\ mut' = mut
        /\ Done(ret, FALSE)
    BY <1>7 DEF answered, areaVars
  <2>2. ~tool.late => requests = <<>> /\ mut = Idle /\ (answer # "success" => Kept)
    BY <1>1, <2>1 DEF Untouched, Unpublished
  <2>3. ret = 0 \/ answer # "success"
    OBVIOUS
  <2> HIDE DEF ret
  <2> QED
    BY <1>1, <2>1, <2>2, <2>3, EndsUndone
<1> QED
  BY <1>3, <1>4, <1>5, <1>6, <1>7

\* The steps of the tool that deletes.
LEMMA DeletesUndone ==
    ASSUME Inv, Undone,
           \/ deleteprop \/ unlink \/ collect_props \/ prop_encode \/ rename
           \/ del \/ deleted
    PROVE  Undone'
<1>1. /\ tool.pc \in Deleting /\ UNCHANGED <<value, requests>> /\ tool.pc \notin {"answer", "reset"}
  BY DEF deleteprop, unlink, collect_props, prop_encode, rename, del, deleted, areaVars, Deleting
<1>2. /\ tool # Resting /\ ToolOK /\ tool \in ToolRecords /\ Untouched /\ tool.op = "delete"
  BY <1>1, DeleteFacts DEF Undone
<1>3. ~tool.late => requests = <<>>
  BY <1>1, <1>2 DEF Untouched
<1>4. CASE deleted
  <2> DEFINE ret == IF mut.ret # 0 /\ ~(tool.persist /\ IsPersist(Name)) THEN 1 ELSE 0
  <2>1. mut.pc = "return" /\ mut' = Idle /\ Done(ret, FALSE)
    BY <1>4 DEF deleted
  <2>2. ret = 0 \/ mut.ret # 0
    OBVIOUS
  <2> HIDE DEF ret
  <2>3. ~tool.late /\ mut.ret # 0 => Kept
    BY <1>1, <1>2, <2>1 DEF Untouched, Unpublished
  <2> QED
    BY <1>1, <1>2, <1>3, <2>1, <2>2, <2>3, EndsUndone
<1>5. CASE ~deleted
  <2>1. (tool.pc \notin Own /\ mut' = mut) \/ mut = Idle
    <3>1. CASE del
      BY <3>1, BusyMut DEF del, MutIdle, Inv, Own
    <3>2. CASE ~del
      BY <1>5, <3>2 DEF deleteprop, unlink, collect_props, prop_encode, rename, areaVars, Own
    <3> QED
      BY <3>1, <3>2
  <2>2. ~tool.late => mut = Idle
    BY <1>3, <2>1, NothingRuns
  <2>3. tool.late \/ Unpublished
    BY <2>2 DEF Unpublished
  <2>4. CASE Done(1, FALSE) /\ mut' = mut
    <3>1. ~tool.late => Kept
      BY <1>1, <1>2, <2>3 DEF Untouched
    <3> QED
      BY <1>1, <1>2, <1>3, <2>2, <2>4, <3>1, EndsUndone
  <2>5. ASSUME tool'.op = tool.op, tool'.trigger = tool.trigger, tool'.late = tool.late,
               tool'.was = tool.was, Name' = Name, tool'.pc \in Deleting, tool' # Resting
        PROVE  Undone'
    <3>1. tool'.pc \notin {"answer", "reset"}
      BY <2>5 DEF Deleting
    <3>2. CASE tool.late
      <4>1. Untouched' /\ Refused'
        BY <2>5, <3>2 DEF Untouched, Refused
      <4> QED
        BY <4>1 DEF Undone
    <3>3. CASE ~tool.late
      BY <1>1, <1>2, <2>3, <2>5, <3>1, <3>3, StillUntouched
    <3> QED
      BY <3>2, <3>3
  <2>6. ASSUME NEW pc \in {"collect", "unlink", "del", "rename", "deleted"}, To_(pc) PROVE Undone'
    <3>1. /\ tool'.pc = pc /\ tool'.op = tool.op /\ tool'.trigger = tool.trigger
          /\ tool'.late = tool.late /\ tool'.was = tool.was /\ Name' = Name /\ tool' # Resting
      BY <1>2, <2>6, ToFields
    <3> QED
      BY <2>5, <3>1 DEF Deleting
  <2>7. ASSUME tool'.op = tool.op, tool'.trigger = tool.trigger, tool'.late = tool.late,
               tool'.was = tool.was, tool'.name = tool.name, tool'.pc \in {"encode", "rename", "del"}
        PROVE  Undone'
    <3>1. Name' = Name
      BY <1>2, <2>7 DEF Name
    <3>2. tool' # Resting
      BY <2>7 DEF Resting
    <3> QED
      BY <2>5, <2>7, <3>1, <3>2 DEF Deleting
  <2>8. ASSUME NEW ok, Persisted(ok) \/ FileFailed(ok) PROVE Undone'
    <3>1. /\ tool'.op = tool.op /\ tool'.trigger = tool.trigger /\ tool'.late = tool.late
          /\ tool'.was = tool.was /\ tool'.name = tool.name /\ tool'.pc = "del"
      BY <1>2, <2>8 DEF Persisted, FileFailed, ToolRecords
    <3> QED
      BY <2>7, <3>1
  <2>9. CASE deleteprop
    <3> DEFINE pc == IF tool.persist /\ IsPersist(Name)
                     THEN IF World.use_pb THEN "collect" ELSE "unlink" ELSE "del"
    <3>1. Done(1, FALSE) \/ To_(pc)
      BY <2>9 DEF deleteprop
    <3>2. pc \in {"collect", "unlink", "del", "rename", "deleted"} /\ mut' = mut
      BY <2>9 DEF deleteprop, areaVars
    <3> HIDE DEF pc
    <3> QED
      BY <2>4, <2>6, <3>1, <3>2
  <2>10. CASE unlink \/ rename
    BY <2>8, <2>10 DEF unlink, rename
  <2>11. CASE collect_props
    <3> DEFINE list == [n \in Names |-> IF n = Name THEN None ELSE disk[n]]
    <3>1. CASE Persisted(FALSE) \/ FileFailed(FALSE)
      BY <2>8, <3>1
    <3>2. CASE \/ tool' = [tool EXCEPT !.pc = "encode", !.list = list]
               \/ tool' = [tool EXCEPT !.pc = "rename", !.list = list, !.failed = TRUE]
      <4> HIDE DEF list
      <4>1. /\ tool'.op = tool.op /\ tool'.trigger = tool.trigger /\ tool'.late = tool.late
            /\ tool'.was = tool.was /\ tool'.name = tool.name /\ tool'.pc \in {"encode", "rename"}
        BY <1>2, <3>2 DEF ToolRecords
      <4> QED
        BY <2>7, <4>1
    <3> QED
      BY <2>11, <3>1, <3>2 DEF collect_props
  <2>12. CASE prop_encode
    <3>1. CASE UNCHANGED tool
      <4>1. Name' = Name
        BY <3>1 DEF Name
      <4> QED
        BY <1>1, <1>2, <2>5, <3>1, <4>1
    <3> QED
      BY <2>6, <2>8, <2>12, <3>1 DEF prop_encode
  <2>13. CASE del
    BY <2>6, <2>13 DEF del
  <2> QED
    BY <1>5, <2>9, <2>10, <2>11, <2>12, <2>13
<1> QED
  BY <1>4, <1>5

\* Nobody and nothing touches what the call is about, but the call.
LEMMA RestUndone ==
    ASSUME Inv, Undone, UNCHANGED <<tool, last, requests, answer>>, UNCHANGED <<value, crashed>>, UNCHANGED mut
    PROVE  Undone'
<1>1. Name' = Name
  BY DEF Name
<1> QED
  BY <1>1 DEF Undone, Untouched, Refused, Kept, Unpublished, ErrorIsUndone

\* The steps of init: only the request of the call itself is with it.
LEMMA ServiceUndone == ASSUME Inv, Undone, Service PROVE Undone'
<1>1. /\ requests # <<>> /\ UNCHANGED <<tool, value, last, crashed>> /\ ToolOK /\ Name' = Name
  BY DEF Service, ServiceTakes, ServiceAnswers, Inv, Name
<1>2. Refused'
  <2> SUFFICES ASSUME tool' = Resting, last'.op # "none", ~last'.late, ~crashed', last'.ret # 0
               PROVE  FALSE
    BY DEF Refused
  <2> QED
    BY <1>1 DEF Undone, Refused
<1>3. CASE tool = Resting \/ tool.late
  BY <1>1, <1>2, <1>3 DEF Undone, Untouched
<1>4. CASE tool # Resting /\ ~tool.late
  <2>1. tool.pc = "answer" /\ answer = "none" /\ Len(requests) = 1 /\ Head(requests).waits
    BY <1>1, <1>4 DEF Undone, Untouched
  <2>2. Tail(requests) = <<>>
    BY <1>1, <2>1, TailRequests
  <2>3. Unpublished => Kept
    BY <1>4, <2>1 DEF Undone, Untouched
  <2>4. Kept => Kept'
    BY <1>1 DEF Kept
  <2>5. CASE ServiceTakes /\ requests' = requests
    <3>1. Unpublished /\ answer' = answer
      BY <2>5, BusyMut DEF ServiceTakes, MutIdle, Unpublished, Inv
    <3>2. Untouched'
      BY <1>1, <2>1, <2>3, <2>4, <2>5, <3>1 DEF Untouched
    <3> QED
      BY <1>2, <3>2 DEF Undone
  <2>6. CASE ServiceTakes /\ requests' # requests
    <3>1. requests' = <<>> /\ answer' = "refused" /\ mut' = Idle /\ Unpublished
      BY <2>1, <2>2, <2>6, BusyMut DEF ServiceTakes, MutIdle, Unpublished, Inv
    <3>2. Untouched'
      BY <1>1, <2>1, <2>3, <2>4, <3>1 DEF Untouched
    <3> QED
      BY <1>2, <3>2 DEF Undone
  <2>7. CASE ServiceAnswers
    <3>1. /\ requests' = <<>> /\ mut' = Idle /\ mut.pc = "return"
          /\ answer' = IF mut.ret = 0 THEN "success" ELSE "refused"
      BY <2>1, <2>2, <2>7 DEF ServiceAnswers
    <3>2. answer' \in {"success", "refused"} /\ (answer' = "refused" => Unpublished)
      BY <3>1 DEF Unpublished
    <3>3. Untouched'
      BY <1>1, <2>1, <2>3, <2>4, <3>1, <3>2 DEF Untouched
    <3> QED
      BY <1>2, <3>3 DEF Undone
  <2> QED
    BY <2>5, <2>6, <2>7 DEF Service
<1> QED
  BY <1>3, <1>4

\* Every step.
LEMMA UndoneKeeps == ASSUME Inv, Undone, [Next]_vars PROVE Undone'
<1>1. CASE UNCHANGED vars
  BY <1>1, RestUndone DEF vars, areaVars, toolVars
<1>2. ASSUME NEW command \in World.commands, resetprop_main(command) PROVE Undone'
  <2> DEFINE n == IF command.op = "delete" THEN command.name ELSE Head(command.sets).name
  <2>1. /\ tool'.was = value[n] /\ tool'.late = (requests # <<>>) /\ tool'.pc \in {"set", "delete"}
        /\ tool'.op = command.op /\ tool'.name = command.name /\ tool'.sets = command.sets
        /\ UNCHANGED <<value, requests>>
    BY <1>2 DEF resetprop_main, areaVars
  <2>2. Name' = n
    BY <2>1 DEF Name
  <2>3. tool' # Resting
    BY <2>1 DEF Resting
  <2>4. Kept'
    BY <2>1, <2>2 DEF Kept
  <2>5. Untouched' /\ Refused'
    BY <2>1, <2>3, <2>4 DEF Untouched, Refused
  <2> QED
    BY <2>5 DEF Undone
<1>3. CASE Tool
  BY <1>3, SetsUndone, DeletesUndone DEF Tool
<1>4. CASE timed_out
  <2>a. tool.pc = "answer" /\ EndCall(TRUE) /\ last'.late
    BY <1>4 DEF timed_out
  <2>b. tool # Resting
    BY <2>a DEF Resting
  <2>1. /\ tool # Resting /\ tool \in ToolRecords /\ (tool.op = "set" => tool.sets # <<>>)
        /\ EndCall(TRUE) /\ last'.late /\ value \in [Names -> Shown]
    BY <2>a, <2>b DEF Inv, ToolOK, Areas
  <2>2. tool' # Resting => tool'.late
    BY <2>1, NextLine
  <2>3. Untouched' /\ Refused'
    BY <2>1, <2>2 DEF Untouched, Refused
  <2> QED
    BY <2>3 DEF Undone
<1>5. CASE Service
  BY <1>5, ServiceUndone
<1>6. CASE Kill
  BY <1>6 DEF Kill, Undone, Untouched, Refused
<1>7. CASE MutateStep
  <2>1. UNCHANGED toolVars /\ UNCHANGED crashed /\ mut.pc # "idle" /\ Name' = Name
    BY <1>7 DEF MutateStep, Mutate, Allocate, Link, Unlink, Dirty, Copy, Clean, Wake, Bump, WakeAll,
           toolVars, Name
  <2>2. mut # Idle
    BY <2>1 DEF Idle
  <2>3. Unpublished' => UNCHANGED value /\ Unpublished
    BY <1>7, MutateShows
  <2>4. Untouched'
    BY <2>1, <2>2, <2>3 DEF toolVars, Undone, Untouched, Kept
  <2>5. Refused'
    BY <2>1, <2>2 DEF toolVars, Undone, Refused
  <2> QED
    BY <2>4, <2>5 DEF Undone
<1>8. ASSUME NEW r \in Readers, ReadStep(r) PROVE Undone'
  BY <1>8, RestUndone DEF ReadStep, Read, toolVars
<1> QED
  BY <1>1, <1>2, <1>3, <1>4, <1>5, <1>6, <1>7, <1>8 DEF Next

\* A setprop or deleteprop that returned 0 has done what it was asked for, whatever
\* protocol, area and persisted file it went through, and one that returned anything else
\* has left the property as it was, but for the excuses of the code that the property names.
THEOREM ReturnedIsDoneHolds == Spec => []ReturnedIsDone
<1>1. Inv /\ Undone => ReturnedIsDone
  <2> SUFFICES ASSUME Inv, Undone, tool.pc = "idle", last.op # "none", ~last.late, ~crashed
               PROVE  IF last.ret = 0 THEN SuccessIsDone ELSE ErrorIsUndone
    BY DEF ReturnedIsDone
  <2>1. tool = Resting
    BY Busy DEF Inv
  <2>2. last.ret # 0 => ErrorIsUndone
    BY <2>1 DEF Undone, Refused
  <2>3. ASSUME last.ret = 0 PROVE SuccessIsDone
    <3>1. stored(last.name, last.persist) = last.value =>
            getprop(last.name, last.persist) \in {last.value, Undefined}
      BY DEF getprop
    <3> QED
      BY <2>1, <2>3, <3>1 DEF Inv, Lasting, SuccessIsDone
  <2> QED
    BY <2>2, <2>3
<1>2. Init => Undone
  BY DEF Init, Undone, Untouched, Refused, NoCall
<1>3. Inv /\ Undone /\ [Next]_vars => Undone'
  BY UndoneKeeps
<1> QED
  BY <1>1, <1>2, <1>3, InvHolds, PTL DEF Spec

-----------------------------------------------------------------------------

\* What a step may do to the persisted properties.
PersistStep ==
    \A n \in Names : disk'[n] # disk[n] =>
         \/ /\ requests # <<>> /\ n = Head(requests).name /\ disk'[n] = Head(requests).value
            /\ UNCHANGED tool
         \/ tool.pc = "unlink" /\ n = tool.name /\ disk'[n] = None
         \/ /\ tool.pc = "rename" /\ disk' = tool.list
            /\ tool.late \/ (n = tool.name /\ disk'[n] = None)

\* The steps that touch the disk do no more.
LEMMA DiskSteps == ASSUME Inv, [Next]_vars PROVE PersistStep
<1>1. CASE UNCHANGED disk
  BY <1>1 DEF PersistStep
<1>2. CASE unlink
  <2>1. Name = tool.name /\ disk \in [Names -> Opt] /\ tool.pc = "unlink"
    BY <1>2, DeleteFacts DEF unlink, Deleting
  <2>2. disk' = [disk EXCEPT ![Name] = None] \/ UNCHANGED disk
    BY <1>2 DEF unlink
  <2> QED
    BY <2>1, <2>2 DEF PersistStep
<1>3. CASE rename /\ ~UNCHANGED disk
  <2>1. /\ Name = tool.name /\ tool.pc = "rename" /\ Persisting /\ disk \in [Names -> Opt]
    BY <1>3, DeleteFacts DEF rename, Deleting
  <2>2. disk' = tmp /\ tmp # None
    BY <1>3 DEF rename
  <2>3. /\ tmp = tool.list /\ tool.list[Name] = None
        /\ ~tool.late => \A n \in Names \ {Name} : tool.list[n] = disk[n]
    BY <2>1, <2>2 DEF Persisting
  <2> QED
    BY <2>1, <2>2, <2>3 DEF PersistStep
<1>4. CASE ServiceTakes
  <2>1. /\ requests # <<>> /\ UNCHANGED tool /\ disk \in [Names -> Opt]
        /\ disk' = disk \/ disk' = [disk EXCEPT ![Head(requests).name] = Head(requests).value]
    BY <1>4 DEF ServiceTakes, Inv, ToolOK
  <2> QED
    BY <2>1 DEF PersistStep
<1>5. UNCHANGED disk \/ unlink \/ rename \/ ServiceTakes
  BY DEF Next, vars, toolVars, Tool, Service, resetprop_main, setprop, mutated, reset,
         __system_property_set, answered, timed_out, deleteprop, collect_props, prop_encode, del,
         deleted, ServiceAnswers, Kill, MutateStep, ReadStep
<1> QED
  BY <1>1, <1>2, <1>3, <1>4, <1>5

\* A persisted property changes only as init was asked to, by the unlink of the file of
\* the property that is deleted, or by the rename of a complete new file that lacks that
\* property alone, for every content of the files and however the writes fail.
THEOREM PersistIntactHolds == Spec => PersistIntact
<1>1. Inv /\ [Next]_vars => [PersistStep]_vars
  BY DiskSteps
<1>2. PersistIntact <=> [][PersistStep]_vars
  BY PTL DEF PersistIntact, PersistStep
<1> QED
  BY <1>1, <1>2, InvHolds, PTL DEF Spec

-----------------------------------------------------------------------------
(* foreach_property *)

VisitLink(f, bt, o, l) == IF bt[o].link[l] = 0 THEN <<>> ELSE f[bt[o].link[l]]
VisitNode(f, bt, o) ==
    VisitLink(f, bt, o, "left") \o (IF bt[o].prop = 0 THEN <<>> ELSE <<bt[o].prop>>)
    \o VisitLink(f, bt, o, "children") \o VisitLink(f, bt, o, "right")
IsVisit(f, bt, D) == f = [o \in D |-> VisitNode(f, bt, o)]
Visit(bt) == CHOOSE f : IsVisit(f, bt, DOMAIN bt)

\* Links lead to larger offsets, so the recursion of foreach_property ends.
LEMMA VisitExists == ASSUME NEW bt, LinksOK(bt) PROVE \E f : IsVisit(f, bt, DOMAIN bt)
<1> DEFINE D == DOMAIN bt
           Q(k) == {o \in D : o >= k}
           Has(k) == \E f : IsVisit(f, bt, Q(k))
           B == AreaSize + 1
           T == {k \in 0 .. B : Has(k)}
<1>1. B \in Nat /\ D \subseteq 0 .. AreaSize /\ AreaSize \in Nat
  BY AreaAssumption DEF LinksOK
<1>2. \A o \in D, l \in Links : bt[o].link[l] # 0 => bt[o].link[l] \in D /\ bt[o].link[l] > o
  BY DEF LinksOK, LinkOK
<1>3. \A k \in 0 .. B : (\A j \in k + 1 .. B : j \in T) => k \in T
  <2> SUFFICES ASSUME NEW k \in 0 .. B, \A j \in k + 1 .. B : j \in T PROVE Has(k)
    OBVIOUS
  <2>1. CASE k = B
    <3>1. Q(k) = {}
      BY <1>1, <2>1
    <3>2. [o \in {} |-> 0] = [o \in Q(k) |-> VisitNode([q \in {} |-> 0], bt, o)]
      BY <3>1
    <3> QED
      BY <3>2 DEF IsVisit
  <2>2. CASE k # B
    <3>1. k + 1 \in T
      BY <1>1, <2>2
    <3>2. PICK f : f = [o \in Q(k + 1) |-> VisitNode(f, bt, o)]
      BY <3>1 DEF IsVisit
    <3> DEFINE g == [o \in Q(k) |-> VisitNode(f, bt, o)]
    <3>3. ASSUME NEW o \in Q(k), NEW l \in Links PROVE VisitLink(g, bt, o, l) = VisitLink(f, bt, o, l)
      <4>1. CASE bt[o].link[l] = 0
        BY <4>1 DEF VisitLink
      <4>2. CASE bt[o].link[l] # 0
        <5>1. bt[o].link[l] \in Q(k + 1) /\ bt[o].link[l] \in Q(k)
          BY <1>1, <1>2, <4>2
        <5>2. g[bt[o].link[l]] = f[bt[o].link[l]]
          BY <3>2, <5>1
        <5> QED
          BY <4>2, <5>2 DEF VisitLink
      <4> QED
        BY <4>1, <4>2
    <3> HIDE DEF g
    <3>4. \A o \in Q(k) : VisitNode(g, bt, o) = VisitNode(f, bt, o)
      BY <3>3 DEF VisitNode, Links
    <3>5. g = [o \in Q(k) |-> VisitNode(g, bt, o)]
      BY <3>4 DEF g
    <3> QED
      BY <3>5 DEF IsVisit
  <2> QED
    BY <2>1, <2>2
<1>4. 0 \in T
  <2> HIDE DEF T, B
  <2>1. \A k \in 0 .. B : k \in T
    BY <1>1, <1>3, Downward
  <2> QED
    BY <1>1, <2>1
<1>5. PICK f : IsVisit(f, bt, Q(0))
  BY <1>4
<1>6. Q(0) = DOMAIN bt
  BY <1>1
<1> QED
  BY <1>5, <1>6

\* foreach_property visits what its recursive definition says.
LEMMA VisitUnfolds ==
    ASSUME NEW bt, LinksOK(bt)
    PROVE  /\ foreach_property(bt) = Visit(bt)[0]
           /\ \A o \in DOMAIN bt : Visit(bt)[o] = VisitNode(Visit(bt), bt, o)
<1>1. IsVisit(Visit(bt), bt, DOMAIN bt)
  BY VisitExists DEF Visit
<1>2. foreach_property(bt) = Visit(bt)[0]
  BY DEF foreach_property, Visit, IsVisit, VisitNode, VisitLink
<1> QED
  BY <1>1, <1>2 DEF IsVisit

\* A sequence that lists the members of a set, each once.
Enumerates(s, S) == s \in Seq(Nat) /\ IsInjective(s) /\ Range(s) = S

\* Two of them in a row.
LEMMA EnumeratesBoth ==
    ASSUME NEW s, NEW S, NEW t, NEW T, Enumerates(s, S), Enumerates(t, T), S \cap T = {}
    PROVE  Enumerates(s \o t, S \cup T)
<1> DEFINE u == s \o t
           m == Len(s)
           n == Len(t)
<1>1. /\ s \in Seq(Nat) /\ t \in Seq(Nat) /\ m \in Nat /\ n \in Nat
      /\ DOMAIN s = 1 .. m /\ DOMAIN t = 1 .. n
  BY DEF Enumerates
<1>2. /\ u \in Seq(Nat) /\ Len(u) = m + n /\ DOMAIN u = 1 .. m + n
      /\ \A i \in 1 .. m + n : u[i] = IF i <= m THEN s[i] ELSE t[i - m]
  BY <1>1
<1>3. \A i, j \in 1 .. m : s[i] = s[j] => i = j
  BY <1>1 DEF Enumerates, IsInjective
<1>4. \A i, j \in 1 .. n : t[i] = t[j] => i = j
  BY <1>1 DEF Enumerates, IsInjective
<1>5. S = {s[i] : i \in 1 .. m} /\ T = {t[i] : i \in 1 .. n}
  BY <1>1 DEF Enumerates, Range
<1> HIDE DEF u, m, n
<1>6. ASSUME NEW i \in 1 .. m + n
      PROVE  \/ i \in 1 .. m /\ u[i] = s[i] /\ u[i] \in S
             \/ i - m \in 1 .. n /\ i > m /\ u[i] = t[i - m] /\ u[i] \in T
  <2>1. CASE i <= m
    <3>1. i \in 1 .. m /\ u[i] = s[i]
      BY <1>1, <1>2, <2>1
    <3> QED
      BY <1>5, <3>1
  <2>2. CASE ~(i <= m)
    <3>1. i - m \in 1 .. n /\ i > m /\ u[i] = t[i - m]
      BY <1>1, <1>2, <2>2
    <3> QED
      BY <1>5, <3>1
  <2> QED
    BY <2>1, <2>2
<1>7. ASSUME NEW i \in 1 .. m + n, NEW j \in 1 .. m + n, u[i] = u[j] PROVE i = j
  <2>1. CASE i \in 1 .. m /\ u[i] = s[i] /\ u[i] \in S
    <3>1. j \in 1 .. m /\ u[j] = s[j]
      BY <1>6, <1>7, <2>1
    <3> QED
      BY <1>3, <1>7, <2>1, <3>1
  <2>2. CASE i - m \in 1 .. n /\ i > m /\ u[i] = t[i - m] /\ u[i] \in T
    <3>1. j - m \in 1 .. n /\ u[j] = t[j - m]
      BY <1>6, <1>7, <2>2
    <3>2. i - m = j - m
      BY <1>4, <1>7, <2>2, <3>1
    <3> QED
      BY <1>1, <3>2
  <2> QED
    BY <1>6, <2>1, <2>2
<1>8. IsInjective(u)
  BY <1>2, <1>7 DEF IsInjective
<1>9. Range(u) = S \cup T
  <2>1. ASSUME NEW x \in Range(u) PROVE x \in S \cup T
    BY <1>2, <1>6, <2>1 DEF Range
  <2>2. ASSUME NEW x \in S PROVE x \in Range(u)
    <3>1. PICK i \in 1 .. m : x = s[i]
      BY <1>5
    <3>2. i \in 1 .. m + n /\ u[i] = s[i]
      BY <1>1, <1>2
    <3> QED
      BY <1>2, <3>1, <3>2 DEF Range
  <2>3. ASSUME NEW x \in T PROVE x \in Range(u)
    <3>1. PICK i \in 1 .. n : x = t[i]
      BY <1>5
    <3>2. i + m \in 1 .. m + n /\ ~(i + m <= m) /\ (i + m) - m = i
      BY <1>1
    <3>3. u[i + m] = t[i]
      BY <1>2, <3>2
    <3> QED
      BY <1>2, <3>1, <3>2, <3>3 DEF Range
  <2> QED
    BY <2>1, <2>2, <2>3
<1> QED
  BY <1>2, <1>8, <1>9 DEF Enumerates, u

-----------------------------------------------------------------------------
\* The nodes that links lead to from a node.
Closed(bt, T) ==
    \A x \in T, l \in Links : bt[x].link[l] # 0 => bt[x].link[l] \in T
Below(bt, o) ==
    {q \in DOMAIN bt : \A T \in SUBSET DOMAIN bt : o \in T /\ Closed(bt, T) => q \in T}

\* They are closed under links, and the least such set.
LEMMA BelowClosed ==
    ASSUME NEW bt, LinksOK(bt), NEW o \in DOMAIN bt
    PROVE  /\ o \in Below(bt, o) /\ Below(bt, o) \in SUBSET DOMAIN bt /\ Closed(bt, Below(bt, o))
           /\ \A T \in SUBSET DOMAIN bt : o \in T /\ Closed(bt, T) => Below(bt, o) \subseteq T
<1>1. \A x \in DOMAIN bt, l \in Links : bt[x].link[l] # 0 => bt[x].link[l] \in DOMAIN bt
  BY DEF LinksOK, LinkOK
<1>2. o \in Below(bt, o) /\ Below(bt, o) \in SUBSET DOMAIN bt
  BY DEF Below
<1>3. \A T \in SUBSET DOMAIN bt : o \in T /\ Closed(bt, T) => Below(bt, o) \subseteq T
  BY DEF Below
<1>4. ASSUME NEW x \in Below(bt, o), NEW l \in Links, bt[x].link[l] # 0
      PROVE  bt[x].link[l] \in Below(bt, o)
  <2>1. x \in DOMAIN bt /\ bt[x].link[l] \in DOMAIN bt
    BY <1>1, <1>4 DEF Below
  <2>2. ASSUME NEW T \in SUBSET DOMAIN bt, o \in T, Closed(bt, T) PROVE bt[x].link[l] \in T
    <3>1. x \in T
      BY <2>2 DEF Below
    <3> QED
      BY <1>4, <2>2, <3>1 DEF Closed
  <2> QED
    BY <2>1, <2>2 DEF Below
<1> QED
  BY <1>2, <1>3, <1>4 DEF Closed

\* They are larger.
LEMMA BelowLarger ==
    ASSUME NEW bt, LinksOK(bt), NEW o \in DOMAIN bt, NEW q \in Below(bt, o)
    PROVE  q \in DOMAIN bt /\ q \in Nat /\ o \in Nat /\ q >= o
<1> DEFINE T == {x \in DOMAIN bt : x >= o}
<1>1. DOMAIN bt \subseteq Nat
  BY AreaAssumption DEF LinksOK
<1>2. o \in T /\ T \in SUBSET DOMAIN bt
  BY <1>1
<1>3. Closed(bt, T)
  <2> SUFFICES ASSUME NEW x \in T, NEW l \in Links, bt[x].link[l] # 0 PROVE bt[x].link[l] \in T
    BY DEF Closed
  <2>1. bt[x].link[l] \in DOMAIN bt /\ bt[x].link[l] > x
    BY DEF LinksOK, LinkOK
  <2> QED
    BY <1>1, <2>1
<1>4. q \in T
  <2> HIDE DEF T
  <2> QED
    BY <1>2, <1>3, BelowClosed
<1> QED
  BY <1>1, <1>4

\* Every one of them but the first has its link among them.
LEMMA BelowParent ==
    ASSUME NEW bt, LinksOK(bt), NEW o \in DOMAIN bt, NEW q \in Below(bt, o), q # o
    PROVE  \E p \in Below(bt, o), l \in Links : bt[p].link[l] = q
<1> SUFFICES ASSUME \A p \in Below(bt, o), l \in Links : bt[p].link[l] # q PROVE FALSE
  OBVIOUS
<1> DEFINE T == Below(bt, o) \ {q}
<1>1. o \in Below(bt, o) /\ Below(bt, o) \in SUBSET DOMAIN bt /\ Closed(bt, Below(bt, o))
  BY BelowClosed
<1>2. o \in T /\ T \in SUBSET DOMAIN bt
  BY <1>1
<1>3. Closed(bt, T)
  BY <1>1 DEF Closed
<1>4. q \notin T
  OBVIOUS
<1> HIDE DEF T
<1> QED
  BY <1>2, <1>3, <1>4, BelowClosed

\* What is below one of the links of a node is below the node.
LinkBelow(bt, o, l) == IF bt[o].link[l] = 0 THEN {} ELSE Below(bt, bt[o].link[l])

\* Below a node are the node itself and what is below its links.
LEMMA BelowSplits ==
    ASSUME NEW bt, LinksOK(bt), NEW o \in DOMAIN bt
    PROVE  Below(bt, o) = {o} \cup UNION {LinkBelow(bt, o, l) : l \in Links}
<1> DEFINE T == {o} \cup UNION {LinkBelow(bt, o, l) : l \in Links}
<1>1. ASSUME NEW l \in Links, bt[o].link[l] # 0
      PROVE  /\ bt[o].link[l] \in DOMAIN bt
             /\ bt[o].link[l] \in LinkBelow(bt, o, l) /\ LinkBelow(bt, o, l) \in SUBSET DOMAIN bt
             /\ Closed(bt, LinkBelow(bt, o, l)) /\ LinkBelow(bt, o, l) \subseteq Below(bt, o)
  <2>1. bt[o].link[l] \in DOMAIN bt
    BY <1>1 DEF LinksOK, LinkOK
  <2>2. bt[o].link[l] \in Below(bt, o)
    BY <1>1, BelowClosed DEF Closed
  <2>3. Below(bt, bt[o].link[l]) \subseteq Below(bt, o)
    BY <2>1, <2>2, BelowClosed
  <2> QED
    BY <1>1, <2>1, <2>3, BelowClosed DEF LinkBelow
<1>2. \A l \in Links : bt[o].link[l] = 0 => LinkBelow(bt, o, l) = {}
  BY DEF LinkBelow
<1>3. T \in SUBSET DOMAIN bt /\ o \in T
  BY <1>1, <1>2
<1>4. Closed(bt, T)
  <2> SUFFICES ASSUME NEW x \in T, NEW l \in Links, bt[x].link[l] # 0 PROVE bt[x].link[l] \in T
    BY DEF Closed
  <2>1. CASE x = o
    BY <1>1, <2>1
  <2>2. CASE x # o
    <3>1. PICK k \in Links : x \in LinkBelow(bt, o, k)
      BY <2>2
    <3>2. Closed(bt, LinkBelow(bt, o, k))
      BY <1>1, <1>2, <3>1
    <3>3. bt[x].link[l] \in LinkBelow(bt, o, k)
      BY <3>1, <3>2 DEF Closed
    <3> QED
      BY <3>3
  <2> QED
    BY <2>1, <2>2
<1>5. T \subseteq Below(bt, o)
  BY <1>1, <1>2, BelowClosed
<1>6. Below(bt, o) \subseteq T
  <2> HIDE DEF T
  <2> QED
    BY <1>3, <1>4, BelowClosed
<1> QED
  BY <1>5, <1>6

\* No node has two links to it.
OneLink(bt) ==
    \A o, q \in DOMAIN bt, l, k \in Links :
        bt[o].link[l] = bt[q].link[k] /\ bt[o].link[l] # 0 => o = q /\ l = k

\* So nothing is below two links of a node.
LEMMA BelowDisjoint ==
    ASSUME NEW bt, LinksOK(bt), OneLink(bt), NEW o \in DOMAIN bt, NEW l \in Links, NEW k \in Links, l # k
    PROVE  LinkBelow(bt, o, l) \cap LinkBelow(bt, o, k) = {}
<1> SUFFICES ASSUME LinkBelow(bt, o, l) \cap LinkBelow(bt, o, k) # {} PROVE FALSE
  OBVIOUS
<1> DEFINE x == bt[o].link[l]
           y == bt[o].link[k]
           U == Below(bt, x) \cap Below(bt, y)
<1>1. x # 0 /\ y # 0 /\ U # {}
  BY DEF LinkBelow
<1>2. x \in DOMAIN bt /\ y \in DOMAIN bt /\ x > o /\ y > o
  BY <1>1 DEF LinksOK, LinkOK
<1>3. x # y
  BY <1>1 DEF OneLink
<1>4. \A q : /\ q \in Below(bt, x) => q \in DOMAIN bt /\ q \in Nat /\ q >= x /\ x \in Nat
             /\ q \in Below(bt, y) => q \in DOMAIN bt /\ q \in Nat /\ q >= y /\ y \in Nat
  BY <1>2, BelowLarger
<1>5. o \in Nat /\ o \notin Below(bt, x) /\ o \notin Below(bt, y)
  <2>1. o \in Nat
    BY AreaAssumption DEF LinksOK
  <2> QED
    BY <1>2, <1>4, <2>1
<1>6. U \subseteq Nat
  BY <1>4
<1>7. PICK q \in U : \A d \in U : q <= d
  <2> HIDE DEF U
  <2> QED
    BY <1>1, <1>6, LeastNumber
<1>8. q # 0 /\ q \in DOMAIN bt /\ q \in Nat
  BY <1>2, <1>4, <1>5
<1>9. q # x
  <2> SUFFICES ASSUME q = x PROVE FALSE
    OBVIOUS
  <2>1. PICK p \in Below(bt, y), m \in Links : bt[p].link[m] = x
    <3>1. x \in Below(bt, y) /\ x # y
      BY <1>3
    <3> HIDE DEF x, y
    <3> QED
      BY <1>2, <3>1, BelowParent
  <2>2. p = o
    BY <1>1, <1>4, <2>1 DEF OneLink
  <2> QED
    BY <1>5, <2>1, <2>2
<1>10. q # y
  <2> SUFFICES ASSUME q = y PROVE FALSE
    OBVIOUS
  <2>1. PICK p \in Below(bt, x), m \in Links : bt[p].link[m] = y
    <3>1. y \in Below(bt, x) /\ x # y
      BY <1>3
    <3> HIDE DEF x, y
    <3> QED
      BY <1>2, <3>1, BelowParent
  <2>2. p = o
    BY <1>1, <1>4, <2>1 DEF OneLink
  <2> QED
    BY <1>5, <2>1, <2>2
<1> HIDE DEF x, y
<1>11. PICK p \in Below(bt, x), m \in Links : bt[p].link[m] = q
  BY <1>2, <1>9, BelowParent
<1>12. PICK p2 \in Below(bt, y), m2 \in Links : bt[p2].link[m2] = q
  BY <1>2, <1>10, BelowParent
<1>13. p = p2 /\ p \in DOMAIN bt
  BY <1>4, <1>8, <1>11, <1>12 DEF OneLink
<1>14. p \in U /\ p < q /\ p \in Nat
  <2>1. q > p
    BY <1>8, <1>11, <1>13 DEF LinksOK, LinkOK
  <2> QED
    BY <1>4, <1>8, <1>11, <1>12, <1>13, <2>1
<1> QED
  BY <1>7, <1>8, <1>14

\* Every node that has a link to it is below the root.
LEMMA LinkedIsBelow ==
    ASSUME NEW bt, TrieOK(bt), NEW o \in DOMAIN bt, Linked(bt, o)
    PROVE  o \in Below(bt, 0)
<1> SUFFICES ASSUME o \notin Below(bt, 0) PROVE FALSE
  OBVIOUS
<1>1. LinksOK(bt) /\ 0 \in DOMAIN bt /\ DOMAIN bt \subseteq Nat
  BY AreaAssumption DEF TrieOK, LinksOK
<1> DEFINE U == {q \in DOMAIN bt : Linked(bt, q) /\ q \notin Below(bt, 0)}
<1>2. U \subseteq Nat /\ U # {}
  BY <1>1
<1>3. PICK q \in U : \A d \in U : q <= d
  <2> HIDE DEF U
  <2> QED
    BY <1>2, LeastNumber
<1>4. q # 0
  BY <1>1, BelowClosed
<1>5. PICK p \in DOMAIN bt, l \in Links : bt[p].link[l] = q
  BY <1>3, <1>4 DEF Linked
<1>6. q > p
  BY <1>1, <1>4, <1>5 DEF LinksOK, LinkOK
<1>7. Linked(bt, p)
  BY <1>4, <1>5 DEF TrieOK
<1>8. p \in Below(bt, 0)
  BY <1>1, <1>3, <1>6, <1>7
<1>9. q \in Below(bt, 0)
  BY <1>1, <1>4, <1>5, <1>8, BelowClosed DEF Closed
<1> QED
  BY <1>9

-----------------------------------------------------------------------------
\* The properties of some nodes.
PropsOf(bt, S) == {bt[q].prop : q \in S} \ {0}

\* No two nodes have the same property.
OneNode(bt) == \A p, q \in DOMAIN bt : bt[p].prop = bt[q].prop /\ bt[p].prop # 0 => p = q

\* What the visit of a node lists.
VisitsBelow(bt, o) == Enumerates(Visit(bt)[o], PropsOf(bt, Below(bt, o)))

\* A visit lists what is below a node, once its links' visits do.
LEMMA VisitStep ==
    ASSUME NEW bt, LinksOK(bt), OneLink(bt), OneNode(bt), NEW o \in DOMAIN bt,
           \A l \in Links : bt[o].link[l] # 0 => VisitsBelow(bt, bt[o].link[l])
    PROVE  VisitsBelow(bt, o)
<1> DEFINE f == Visit(bt)
           L == LinkBelow(bt, o, "left")
           C == LinkBelow(bt, o, "children")
           R == LinkBelow(bt, o, "right")
           own == IF bt[o].prop = 0 THEN <<>> ELSE <<bt[o].prop>>
           sl == VisitLink(f, bt, o, "left")
           sc == VisitLink(f, bt, o, "children")
           sr == VisitLink(f, bt, o, "right")
<1>1. f[o] = sl \o own \o sc \o sr
  BY VisitUnfolds DEF VisitNode
<1>2. Below(bt, o) = {o} \cup (L \cup (C \cup R))
  <2>1. Links = {"left", "right", "children"}
    BY DEF Links
  <2> QED
    BY <2>1, BelowSplits
<1>3. L \cap C = {} /\ L \cap R = {} /\ C \cap R = {}
  BY BelowDisjoint DEF Links
<1>4. Enumerates(<<>>, {})
  <2>1. <<>> \in Seq(Nat) /\ DOMAIN <<>> = {}
    OBVIOUS
  <2> QED
    BY <2>1 DEF Enumerates, IsInjective, Range
<1>5. ASSUME NEW l \in Links
      PROVE  Enumerates(VisitLink(f, bt, o, l), PropsOf(bt, LinkBelow(bt, o, l)))
  <2>1. CASE bt[o].link[l] = 0
    <3>1. PropsOf(bt, LinkBelow(bt, o, l)) = {} /\ VisitLink(f, bt, o, l) = <<>>
      BY <2>1 DEF PropsOf, LinkBelow, VisitLink
    <3> QED
      BY <1>4, <3>1
  <2>2. CASE bt[o].link[l] # 0
    BY <2>2 DEF VisitsBelow, LinkBelow, VisitLink
  <2> QED
    BY <2>1, <2>2
<1>6. /\ Enumerates(sl, PropsOf(bt, L)) /\ Enumerates(sc, PropsOf(bt, C))
      /\ Enumerates(sr, PropsOf(bt, R))
  BY <1>5 DEF Links
<1>7. Enumerates(own, PropsOf(bt, {o}))
  <2>1. CASE bt[o].prop = 0
    <3>1. PropsOf(bt, {o}) = {} /\ own = <<>>
      BY <2>1 DEF PropsOf
    <3> QED
      BY <1>4, <3>1
  <2>2. CASE bt[o].prop # 0
    <3>1. PropsOf(bt, {o}) = {bt[o].prop} /\ own = <<bt[o].prop>>
      BY <2>2 DEF PropsOf
    <3>2. bt[o].prop \in Nat
      BY DEF LinksOK, Node
    <3>3. ASSUME NEW p \in Nat PROVE Enumerates(<<p>>, {p})
      <4>1. <<p>> \in Seq(Nat) /\ DOMAIN <<p>> = {1} /\ <<p>>[1] = p
        OBVIOUS
      <4>2. IsInjective(<<p>>)
        BY <4>1 DEF IsInjective
      <4>3. Range(<<p>>) = {p}
        BY <4>1 DEF Range
      <4> QED
        BY <4>1, <4>2, <4>3 DEF Enumerates
    <3> QED
      BY <3>1, <3>2, <3>3
  <2> QED
    BY <2>1, <2>2
<1>8. /\ L \subseteq DOMAIN bt /\ C \subseteq DOMAIN bt /\ R \subseteq DOMAIN bt
  BY <1>2, BelowClosed
<1>9. o \notin L /\ o \notin C /\ o \notin R
  <2> SUFFICES ASSUME NEW l \in Links, o \in LinkBelow(bt, o, l) PROVE FALSE
    BY DEF Links
  <2>1. bt[o].link[l] # 0 /\ o \in Below(bt, bt[o].link[l])
    BY DEF LinkBelow
  <2>2. bt[o].link[l] \in DOMAIN bt /\ bt[o].link[l] > o
    BY <2>1 DEF LinksOK, LinkOK
  <2>3. o >= bt[o].link[l] /\ o \in Nat /\ bt[o].link[l] \in Nat
    BY <2>1, <2>2, BelowLarger
  <2> QED
    BY <2>2, <2>3
<1> HIDE DEF f, L, C, R, own, sl, sc, sr
<1>10. ASSUME NEW A \in SUBSET DOMAIN bt, NEW B \in SUBSET DOMAIN bt, A \cap B = {}
       PROVE  /\ PropsOf(bt, A) \cap PropsOf(bt, B) = {}
              /\ PropsOf(bt, A \cup B) = PropsOf(bt, A) \cup PropsOf(bt, B)
  <2>1. PropsOf(bt, A) \cap PropsOf(bt, B) = {}
    BY <1>10 DEF PropsOf, OneNode
  <2>2. PropsOf(bt, A \cup B) = PropsOf(bt, A) \cup PropsOf(bt, B)
    BY DEF PropsOf
  <2> QED
    BY <2>1, <2>2
<1>11. Enumerates(sl \o own, PropsOf(bt, L \cup {o}))
  <2>1. L \cap {o} = {} /\ {o} \in SUBSET DOMAIN bt /\ L \in SUBSET DOMAIN bt
    BY <1>8, <1>9
  <2>2. /\ PropsOf(bt, L) \cap PropsOf(bt, {o}) = {}
        /\ PropsOf(bt, L \cup {o}) = PropsOf(bt, L) \cup PropsOf(bt, {o})
    BY <1>10, <2>1
  <2> QED
    BY <1>6, <1>7, <2>2, EnumeratesBoth
<1>12. Enumerates(sl \o own \o sc, PropsOf(bt, (L \cup {o}) \cup C))
  <2>1. (L \cup {o}) \cap C = {} /\ (L \cup {o}) \in SUBSET DOMAIN bt /\ C \in SUBSET DOMAIN bt
    BY <1>3, <1>8, <1>9
  <2>2. /\ PropsOf(bt, L \cup {o}) \cap PropsOf(bt, C) = {}
        /\ PropsOf(bt, (L \cup {o}) \cup C) = PropsOf(bt, L \cup {o}) \cup PropsOf(bt, C)
    BY <1>10, <2>1
  <2> QED
    BY <1>6, <1>11, <2>2, EnumeratesBoth
<1>13. Enumerates(sl \o own \o sc \o sr, PropsOf(bt, ((L \cup {o}) \cup C) \cup R))
  <2> DEFINE A == (L \cup {o}) \cup C
             s == sl \o own \o sc
  <2>1. A \cap R = {} /\ A \in SUBSET DOMAIN bt /\ R \in SUBSET DOMAIN bt
    BY <1>3, <1>8, <1>9
  <2>3. Enumerates(s, PropsOf(bt, A))
    BY <1>12
  <2> HIDE DEF A, s
  <2>2. /\ PropsOf(bt, A) \cap PropsOf(bt, R) = {}
        /\ PropsOf(bt, A \cup R) = PropsOf(bt, A) \cup PropsOf(bt, R)
    BY <1>10, <2>1
  <2>4. Enumerates(s \o sr, PropsOf(bt, A \cup R))
    <3>1. Enumerates(sr, PropsOf(bt, R))
      BY <1>6
    <3>2. Enumerates(s \o sr, PropsOf(bt, A) \cup PropsOf(bt, R))
      BY <2>2, <2>3, <3>1, EnumeratesBoth
    <3> QED
      BY <2>2, <3>2
  <2> QED
    BY <2>4 DEF A, s
<1>14. ((L \cup {o}) \cup C) \cup R = Below(bt, o)
  BY <1>2
<1>15. Enumerates(f[o], PropsOf(bt, Below(bt, o)))
  BY <1>1, <1>13, <1>14
<1> QED
  BY <1>15 DEF VisitsBelow, f

\* foreach_property lists the properties of all the nodes below the root, each once.
LEMMA ForeachLists ==
    ASSUME NEW bt, LinksOK(bt), OneLink(bt), OneNode(bt)
    PROVE  Enumerates(foreach_property(bt), PropsOf(bt, Below(bt, 0)))
<1> DEFINE T == {o \in 0 .. AreaSize : o \in DOMAIN bt => VisitsBelow(bt, o)}
<1>1. AreaSize \in Nat /\ 0 \in DOMAIN bt /\ DOMAIN bt \subseteq 0 .. AreaSize
  BY AreaAssumption DEF LinksOK
<1>2. \A n \in 0 .. AreaSize : (\A k \in n + 1 .. AreaSize : k \in T) => n \in T
  <2> SUFFICES ASSUME NEW n \in 0 .. AreaSize, \A k \in n + 1 .. AreaSize : k \in T, n \in DOMAIN bt
               PROVE  VisitsBelow(bt, n)
    OBVIOUS
  <2>1. ASSUME NEW l \in Links, bt[n].link[l] # 0 PROVE VisitsBelow(bt, bt[n].link[l])
    <3>1. bt[n].link[l] \in DOMAIN bt /\ bt[n].link[l] > n
      BY <2>1 DEF LinksOK, LinkOK
    <3>2. bt[n].link[l] \in n + 1 .. AreaSize
      BY <1>1, <3>1
    <3> QED
      BY <3>1, <3>2
  <2> QED
    BY <2>1, VisitStep
<1>3. 0 \in T
  <2> HIDE DEF T
  <2>1. \A n \in 0 .. AreaSize : n \in T
    BY <1>1, <1>2, Downward
  <2> QED
    BY <1>1, <2>1
<1>4. VisitsBelow(bt, 0)
  BY <1>1, <1>3
<1> QED
  BY <1>4, VisitUnfolds DEF VisitsBelow

\* In a sound area every property has its own node, and it is linked.
LEMMA OwnNode ==
    ASSUME NEW a, AreaOK(a)
    PROVE  /\ LinksOK(a.bt) /\ OneLink(a.bt) /\ OneNode(a.bt)
           /\ \A q \in DOMAIN a.bt : a.bt[q].prop # 0 =>
                /\ Linked(a.bt, q) /\ a.bt[q].prop \in DOMAIN a.info
                /\ a.info[a.bt[q].prop].name = a.bt[q].path
                /\ q # 0 => PropIn(a.bt, a.bt[q].path) = a.bt[q].prop
<1>1. TrieOK(a.bt) /\ LinksOK(a.bt)
  BY DEF AreaOK, TrieOK
<1>2. OneLink(a.bt)
  BY <1>1 DEF TrieOK, OneLink
<1>3. ASSUME NEW q \in DOMAIN a.bt, a.bt[q].prop # 0
      PROVE  /\ Linked(a.bt, q) /\ a.bt[q].prop \in DOMAIN a.info
             /\ a.info[a.bt[q].prop].name = a.bt[q].path
             /\ q # 0 => find_prop_bt(a.bt, a.bt[q].path) =
                           [node |-> q, link |-> "none", depth |-> Len(a.bt[q].path)]
  <2>1. Linked(a.bt, q)
    BY <1>1, <1>3 DEF TrieOK
  <2>2. a.bt[q].prop \in DOMAIN a.info /\ a.info[a.bt[q].prop].name = a.bt[q].path
    BY <1>3 DEF AreaOK
  <2>3. q # 0 => find_prop_bt(a.bt, a.bt[q].path) =
                   [node |-> q, link |-> "none", depth |-> Len(a.bt[q].path)]
    BY <1>1, <2>1 DEF TrieOK
  <2> QED
    BY <2>1, <2>2, <2>3
<1>4. ASSUME NEW q \in DOMAIN a.bt, a.bt[q].prop # 0, q # 0
      PROVE  /\ PropIn(a.bt, a.bt[q].path) = a.bt[q].prop
             /\ find_prop_bt(a.bt, a.bt[q].path).node = q
  <2>1. find_prop_bt(a.bt, a.bt[q].path) =
          [node |-> q, link |-> "none", depth |-> Len(a.bt[q].path)]
    BY <1>3, <1>4
  <2>2. find_prop_bt(a.bt, a.bt[q].path).node = q /\ find_prop_bt(a.bt, a.bt[q].path).link = "none"
    BY <2>1
  <2> QED
    BY <2>2 DEF PropIn
<1>5. OneNode(a.bt)
  <2> SUFFICES ASSUME NEW p \in DOMAIN a.bt, NEW q \in DOMAIN a.bt,
                      a.bt[p].prop = a.bt[q].prop, a.bt[p].prop # 0
               PROVE  p = q
    BY DEF OneNode
  <2>1. a.bt[p].path = a.bt[q].path
    BY <1>3
  <2>2. p = 0 <=> q = 0
    <3>1. Len(a.bt[0].path) = 0 /\ 0 \in DOMAIN a.bt
      BY <1>1 DEF LinksOK
    <3>2. \A o \in DOMAIN a.bt : o # 0 => Len(a.bt[o].path) > 0
      BY <1>1 DEF LinksOK
    <3> QED
      BY <2>1, <3>1, <3>2
  <2>3. CASE p # 0 /\ q # 0
    <3>1. /\ find_prop_bt(a.bt, a.bt[p].path).node = p
          /\ find_prop_bt(a.bt, a.bt[q].path).node = q
      BY <1>4, <2>3
    <3> QED
      BY <2>1, <3>1
  <2> QED
    BY <2>2, <2>3
<1> QED
  BY <1>1, <1>2, <1>3, <1>4, <1>5

-----------------------------------------------------------------------------
\* Every prop_info stands in the area of its name.
Named ==
    \A c \in DOMAIN area : \A o \in DOMAIN area[c].info :
        area[c].info[o].name \in Names /\ contextOf[area[c].info[o].name] = c

\* Only the name of the mutation is new in an area.
NamesKept(a, b, name) ==
    \A o \in DOMAIN b.info :
        \/ o \in DOMAIN a.info /\ b.info[o].name = a.info[o].name
        \/ b.info[o].name = name

\* A change of one field of a prop_info keeps its name.
LEMMA FieldKeepsNames ==
    ASSUME NEW a, AreaOK(a), NEW name, NEW pi, NEW info, info.name = a.info[pi].name, NEW b,
           b = [a EXCEPT !.info[pi] = info]
    PROVE  NamesKept(a, b, name)
<1>1. /\ a = [bt |-> a.bt, info |-> a.info, bytes_used_ |-> a.bytes_used_]
      /\ a.info = [o \in DOMAIN a.info |-> a.info[o]]
  BY DEF AreaOK
<1>2. b.info = [a.info EXCEPT ![pi] = info]
  BY <1>1
<1>3. DOMAIN b.info = DOMAIN a.info
      /\ \A o \in DOMAIN a.info : b.info[o] = IF o = pi THEN info ELSE a.info[o]
  BY <1>1, <1>2
<1> QED
  BY <1>3 DEF NamesKept

\* A mutation stores objects of its own name in the area of that name.
LEMMA MutateNames ==
    ASSUME Inv, MutateStep
    PROVE  \/ area' = area
           \/ /\ mut.name \in Names /\ Context \in DOMAIN area /\ contextOf[mut.name] = Context
              /\ \E b : area' = [area EXCEPT ![Context] = b] /\ NamesKept(Area, b, mut.name)
<1>1. UNCHANGED <<world, contextOf>>
  BY DEF MutateStep, Mutate
<1>2. CASE Wake \/ Bump \/ WakeAll
  BY <1>2 DEF Wake, Bump, WakeAll
<1>3. CASE Allocate \/ Link \/ Unlink \/ Dirty \/ Copy \/ Clean
  <2>1. mut.pc \in {"find", "link", "unlink", "dirty", "copy", "clean"}
    BY <1>3 DEF Allocate, Link, Unlink, Dirty, Copy, Clean
  <2>2. mut # Idle
    BY <2>1 DEF Idle
  <2>3. /\ mut.name \in Names /\ Context # None /\ Context \in DOMAIN area /\ AreaOK(Area)
        /\ MutationOK(mut, Context # None, Area, value[mut.name])
        /\ Holds(Area, mut.name, value[mut.name])
    BY <2>1, <2>2, MutFacts DEF Inv
  <2>4. contextOf[mut.name] = Context
    BY <2>3 DEF Context, GetPropAreaForName, map_prop_area
  <2>5. /\ Area = [bt |-> Area.bt, info |-> Area.info, bytes_used_ |-> Area.bytes_used_]
    BY <2>3 DEF AreaOK
  <2>6. ASSUME NEW b, b.info = Area.info PROVE NamesKept(Area, b, mut.name)
    BY <2>6 DEF NamesKept
  <2>7. CASE Allocate
    <3> DEFINE at == find_prop_bt(Area.bt, mut.name)
               node == new_prop_bt(Area, SubSeq(mut.name, 1, at.depth))
               info == new_prop_info(Area, mut.name, mut.v)
               waste == [Area EXCEPT !.bytes_used_ = @ + IF allocate_obj(Area.bytes_used_, 1) THEN 1 ELSE 0]
    <3>1. area' = area \/ SetArea(node) \/ SetArea(info) \/ SetArea(waste)
      BY <2>7 DEF Allocate
    <3>2. NamesKept(Area, node, mut.name)
      <4>1. node.info = Area.info
        BY <2>5 DEF new_prop_bt
      <4> QED
        BY <2>6, <4>1
    <3>3. NamesKept(Area, waste, mut.name)
      <4>1. waste.info = Area.info
        BY <2>5
      <4> QED
        BY <2>6, <4>1
    <3>4. NamesKept(Area, info, mut.name)
      <4>1. info.info = Put(Area.info, Area.bytes_used_, prop_info(mut.name, mut.v))
        BY <2>5 DEF new_prop_info
      <4>2. prop_info(mut.name, mut.v).name = mut.name
        BY DEF prop_info
      <4> QED
        BY <4>1, <4>2 DEF NamesKept, Put
    <3> HIDE DEF at, node, info, waste
    <3> QED
      BY <2>3, <2>4, <3>1, <3>2, <3>3, <3>4 DEF SetArea
  <2>8. CASE Link \/ Unlink
    <3> DEFINE at == find_prop_bt(Area.bt, mut.name)
               prop == [Area EXCEPT !.bt[at.node].prop = mut.new]
               link == [Area EXCEPT !.bt[at.node].link[at.link] = mut.new]
               gone == [Area EXCEPT !.bt[at.node].prop = 0]
    <3>1. area' = area \/ SetArea(prop) \/ SetArea(link) \/ SetArea(gone)
      BY <2>8 DEF Link, Unlink
    <3>2. prop.info = Area.info /\ link.info = Area.info /\ gone.info = Area.info
      BY <2>5
    <3> HIDE DEF at, prop, link, gone
    <3>3. NamesKept(Area, prop, mut.name) /\ NamesKept(Area, link, mut.name) /\ NamesKept(Area, gone, mut.name)
      BY <2>6, <3>2
    <3> QED
      BY <2>3, <2>4, <3>1, <3>3 DEF SetArea
  <2>9. CASE Dirty \/ Copy \/ Clean
    <3> DEFINE i == Area.info[mut.pi]
    <3>1. mut.pi \in DOMAIN Area.info /\ i \in Info
      <4>1. mut.op = "update" /\ mut.ret = 0
        BY <2>3, <2>9 DEF MutationOK, Dirty, Copy, Clean
      <4>2. mut.pi # 0 /\ mut.pi = PropIn(Area.bt, mut.name)
        BY <2>3, <4>1 DEF MutationOK
      <4>3. mut.pi \in DOMAIN Area.info
        BY <2>3, <4>2 DEF Holds
      <4> QED
        BY <2>3, <4>3 DEF AreaOK, InfoOK
    <3> DEFINE dirty == [i EXCEPT !.serial = IF i.serial % 2 = 0 THEN i.serial + 1 ELSE i.serial]
               damaged == i.is_long /\ mut.i > kLongLegacyErrorBufferSize
               copied == [i EXCEPT !.value[mut.i] = IF mut.i <= Len(mut.v) THEN mut.v[mut.i] ELSE NUL,
                                   !.long_value = IF damaged THEN Undefined ELSE @]
               clean == [i EXCEPT !.serial = i.serial + 1, !.len = Len(mut.v)]
    <3>2. dirty.name = i.name /\ copied.name = i.name /\ clean.name = i.name
      BY <3>1 DEF Info
    <3>3. \E new \in {dirty, copied, clean} : SetArea([Area EXCEPT !.info[mut.pi] = new])
      <4>1. CASE Dirty
        <5>1. SetArea([Area EXCEPT !.info[mut.pi] = dirty])
          BY <4>1 DEF Dirty
        <5> QED
          BY <5>1
      <4>2. CASE Copy
        <5>1. SetArea([Area EXCEPT !.info[mut.pi] = copied])
          BY <4>2 DEF Copy
        <5> QED
          BY <5>1
      <4>3. CASE Clean
        <5>1. [Area EXCEPT !.info[mut.pi].serial = @ + 1, !.info[mut.pi].len = Len(mut.v)]
                = [Area EXCEPT !.info[mut.pi] = clean]
          BY <2>5, <3>1 DEF Info
        <5>2. SetArea([Area EXCEPT !.info[mut.pi] = clean])
          BY <4>3, <5>1 DEF Clean
        <5> QED
          BY <5>2
      <4> QED
        BY <2>9, <4>1, <4>2, <4>3
    <3>4. PICK new \in {dirty, copied, clean} : SetArea([Area EXCEPT !.info[mut.pi] = new])
      BY <3>3
    <3>5. new.name = i.name
      BY <3>2, <3>4
    <3> HIDE DEF dirty, copied, clean
    <3>6. NamesKept(Area, [Area EXCEPT !.info[mut.pi] = new], mut.name)
      BY <2>3, <3>5, FieldKeepsNames
    <3> QED
      BY <2>3, <2>4, <3>4, <3>6 DEF SetArea
  <2> QED
    BY <1>3, <2>7, <2>8, <2>9, SMTT(30)
<1> QED
  BY <1>2, <1>3 DEF MutateStep, Mutate

\* So it is always the area of the name.
LEMMA NamedStep == ASSUME Inv, Named, [Next]_vars PROVE Named'
<1>1. CASE UNCHANGED <<area, contextOf>>
  BY <1>1 DEF Named
<1>2. CASE MutateStep
  <2>1. contextOf' = contextOf
    BY <1>2 DEF MutateStep, Mutate
  <2>2. CASE area' = area
    BY <1>1, <2>1, <2>2
  <2>3. CASE /\ mut.name \in Names /\ Context \in DOMAIN area /\ contextOf[mut.name] = Context
             /\ \E b : area' = [area EXCEPT ![Context] = b] /\ NamesKept(Area, b, mut.name)
    <3>1. PICK b : area' = [area EXCEPT ![Context] = b] /\ NamesKept(Area, b, mut.name)
      BY <2>3
    <3>2. area = [c \in DOMAIN area |-> area[c]]
      BY DEF Inv, Areas
    <3>3. DOMAIN area' = DOMAIN area
          /\ \A c \in DOMAIN area : area'[c] = IF c = Context THEN b ELSE area[c]
      BY <3>1, <3>2
    <3>4. ASSUME NEW c \in DOMAIN area, NEW o \in DOMAIN area'[c].info
          PROVE  area'[c].info[o].name \in Names /\ contextOf[area'[c].info[o].name] = c
      <4>1. CASE c # Context
        BY <3>3, <3>4, <4>1 DEF Named
      <4>2. CASE c = Context
        <5>1. area'[c] = b /\ Area = area[c]
          BY <3>3, <4>2 DEF Area
        <5>2. CASE b.info[o].name = mut.name
          BY <2>3, <4>2, <5>1, <5>2
        <5>3. CASE o \in DOMAIN Area.info /\ b.info[o].name = Area.info[o].name
          BY <5>1, <5>3 DEF Named
        <5> QED
          BY <3>1, <5>1, <5>2, <5>3 DEF NamesKept
      <4> QED
        BY <4>1, <4>2
    <3> QED
      BY <2>1, <3>3, <3>4 DEF Named
  <2> QED
    BY <1>2, <2>2, <2>3, MutateNames
<1>3. UNCHANGED <<area, contextOf>> \/ MutateStep
  BY DEF Next, vars, areaVars, Tool, Service, resetprop_main, setprop, mutated, reset,
         __system_property_set, answered, timed_out, deleteprop, unlink, collect_props, prop_encode,
         rename, del, deleted, ServiceTakes, ServiceAnswers, Kill, ReadStep, Read
<1> QED
  BY <1>1, <1>2, <1>3

\* The names of the boot.
LEMMA NamedInit == ASSUME Init PROVE Named
<1>1. world \in DOMAIN Worlds /\ contextOf = ContextsIn(world) /\ area = AreasIn(world)
  BY DEF Init
<1> QED
  BY <1>1, BootAssumption DEF Named

\* Between two mutations the areas agree with the properties.
LEMMA InvTrie == ASSUME Inv, Named PROVE TrieAgrees
<1> SUFFICES ASSUME mut.pc = "idle" PROVE TrieAgrees
  BY DEF TrieAgrees
<1>1. Areas /\ Agree /\ OddIsWritten
  BY DEF Inv
<1>2. ASSUME NEW n \in Names, GetPropAreaForName(n) # None
      PROVE  LET info == area[GetPropAreaForName(n)].info
                 pi == find(n)
             IN  /\ (pi = 0) = (value[n] = Gone)
                 /\ pi # 0 => /\ info[pi].name = n
                              /\ IF info[pi].serial % 2 = 1 THEN crashed
                                 ELSE ValueOf(info[pi]) = value[n]
                              /\ value[n].ReadCallback = Undefined =>
                                   is_read_only(n) /\ info[pi].is_long
  <2> DEFINE a == area[GetPropAreaForName(n)]
             pi == find(n)
  <2>1. AreaOK(a) /\ Holds(a, n, value[n]) /\ pi = PropIn(a.bt, n)
    BY <1>1, <1>2, Place DEF Agree, Areas, find
  <2>2. pi # 0 => (a.info[pi].serial % 2 = 1 => crashed)
    <3>1. ~Written(n)
      BY DEF Written
    <3> QED
      BY <1>1, <1>2, <3>1 DEF OddIsWritten, Odd
  <2> HIDE DEF a, pi
  <2>3. CASE pi = 0
    <3>1. value[n] = Gone
      BY <2>1, <2>3 DEF Holds
    <3> QED
      BY <2>3, <3>1 DEF pi, a
  <2>4. CASE pi # 0
    <3>1. /\ pi \in DOMAIN a.info /\ a.info[pi].name = n /\ value[n].Read \in Seq(Int)
          /\ a.info[pi].serial % 2 = 0 => ValueOf(a.info[pi]) = value[n]
          /\ value[n].ReadCallback = Undefined => a.info[pi].is_long
      BY <2>1, <2>4 DEF Holds
    <3>2. value[n] # Gone
      BY <3>1, AreaAssumption DEF Gone
    <3>3. a.info[pi].serial \in Nat /\ (a.info[pi].is_long => is_read_only(n))
      BY <2>1, <3>1 DEF AreaOK, InfoOK, Info
    <3>4. a.info[pi].serial % 2 = 0 \/ a.info[pi].serial % 2 = 1
      BY <3>3
    <3> QED
      BY <2>2, <2>4, <3>1, <3>2, <3>3, <3>4 DEF pi, a
  <2> QED
    BY <2>3, <2>4
<1>3. ASSUME NEW c \in ForEach
      PROVE  LET met == foreach_property(area[c].bt)
             IN  /\ IsInjective(met)
                 /\ Range(met) = {find(n) : n \in {m \in Names : GetPropAreaForName(m) = c}} \ {0}
  <2> DEFINE a == area[c]
             met == foreach_property(a.bt)
             found == {find(n) : n \in {m \in Names : GetPropAreaForName(m) = c}} \ {0}
  <2>1. c \in DOMAIN area /\ map_prop_area(c) # None /\ AreaOK(a) /\ c # None
    BY <1>1 DEF ForEach, Areas
  <2>2. \A n : contextOf[n] = c => GetPropAreaForName(n) = c
    BY <2>1 DEF GetPropAreaForName, map_prop_area
  <2>3. /\ LinksOK(a.bt) /\ OneLink(a.bt) /\ OneNode(a.bt)
        /\ \A q \in DOMAIN a.bt : a.bt[q].prop # 0 =>
             /\ Linked(a.bt, q) /\ a.bt[q].prop \in DOMAIN a.info
             /\ a.info[a.bt[q].prop].name = a.bt[q].path
             /\ q # 0 => PropIn(a.bt, a.bt[q].path) = a.bt[q].prop
    BY <2>1, OwnNode
  <2>4. Enumerates(met, PropsOf(a.bt, Below(a.bt, 0)))
    BY <2>3, ForeachLists
  <2>5. \A n \in Names : GetPropAreaForName(n) = c => find(n) = PropIn(a.bt, n)
    BY <2>1 DEF find
  <2>6. \A o \in DOMAIN a.info : a.info[o].name \in Names /\ GetPropAreaForName(a.info[o].name) = c
    BY <2>1, <2>2 DEF Named
  <2>7. 0 \in DOMAIN a.bt /\ a.bt[0].path = <<>> /\ TrieOK(a.bt)
    BY <2>1 DEF AreaOK, TrieOK, LinksOK
  <2> HIDE DEF a
  <2>8. ASSUME NEW x \in PropsOf(a.bt, Below(a.bt, 0)) PROVE x \in found
    <3>1. PICK q \in Below(a.bt, 0) : x = a.bt[q].prop /\ x # 0
      BY DEF PropsOf
    <3>2. q \in DOMAIN a.bt
      BY DEF Below
    <3>3. /\ x \in DOMAIN a.info /\ a.info[x].name = a.bt[q].path
          /\ q # 0 => PropIn(a.bt, a.bt[q].path) = x
      BY <2>3, <3>1, <3>2
    <3>4. a.bt[q].path \in Names /\ GetPropAreaForName(a.bt[q].path) = c
      BY <2>6, <3>3
    <3>5. q # 0
      BY <2>7, <3>4, NamesAreNames DEF Names_
    <3>6. find(a.bt[q].path) = x
      BY <2>5, <3>3, <3>4, <3>5
    <3> QED
      BY <3>1, <3>4, <3>6
  <2>9. ASSUME NEW x \in found PROVE x \in PropsOf(a.bt, Below(a.bt, 0))
    <3>1. PICK n \in Names : GetPropAreaForName(n) = c /\ x = find(n) /\ x # 0
      OBVIOUS
    <3>2. x = PropIn(a.bt, n)
      BY <2>5, <3>1
    <3> DEFINE q == find_prop_bt(a.bt, n).node
    <3>3. x = a.bt[q].prop
      BY <3>1, <3>2 DEF PropIn
    <3>4. q \in DOMAIN a.bt
      BY <2>3, NamesAreNames, FindEnds DEF Ends
    <3> HIDE DEF q
    <3>5. q \in Below(a.bt, 0)
      BY <2>3, <2>7, <3>1, <3>3, <3>4, LinkedIsBelow
    <3> QED
      BY <3>1, <3>3, <3>5 DEF PropsOf
  <2>10. PropsOf(a.bt, Below(a.bt, 0)) = found
    BY <2>8, <2>9
  <2>11. IsInjective(met) /\ Range(met) = found
    BY <2>4, <2>10 DEF Enumerates
  <2> QED
    BY <2>11 DEF a
<1> QED
  BY <1>2, <1>3 DEF TrieAgrees

\* The type invariant follows.
LEMMA InvType == ASSUME Inv PROVE TypeOK
<1>1. world \in DOMAIN Worlds
  BY DEF Inv, Areas
<1>2. \A c \in DOMAIN area : \A off \in DOMAIN area[c].bt \cup DOMAIN area[c].info :
         off < area[c].bytes_used_ /\ area[c].bytes_used_ <= AreaSize
  BY DEF Inv, Areas, AreaOK
<1>3. \A r \in Readers : reads[r].pc \in
         {"start", "denied", "children", "sibling", "prop", "reload", "serial", "dirty", "asleep",
          "copy", "check", "wait", "waiting", "load"}
  <2> SUFFICES ASSUME NEW r \in Readers
               PROVE  reads[r].pc \in
                        {"start", "denied", "children", "sibling", "prop", "reload", "serial", "dirty",
                         "asleep", "copy", "check", "wait", "waiting", "load"}
    OBVIOUS
  <2>1. reads[r] \in ReaderRecords
    BY DEF Inv, ReadersOK
  <2> QED
    BY <2>1 DEF ReaderRecords, Finding, Reading
<1>4. tool.pc \in {"idle", "set", "update", "add", "reset", "request", "answer", "delete", "collect",
                    "encode", "rename", "unlink", "del", "deleted"}
  BY DEF Inv, ToolOK, ToolRecords, Resting
<1>5. mut.pc \in {"idle", "return", "find", "link", "unlink", "dirty", "copy", "clean", "wake",
                   "bump", "wakeall"}
  BY DEF Inv, MutOK, MutationOK, Mutations, Idle
<1> QED
  BY <1>1, <1>2, <1>3, <1>4, <1>5 DEF TypeOK

\* Between two mutations, failed and killed ones too, each area's trie holds exactly the
\* properties of its names: found by name, met once by foreach_property, with their
\* values; and no object ever lies past the end of its area.
THEOREM AreaInvHolds == Spec => []AreaInv
<1>1. Init => Named
  BY NamedInit
<1>2. Inv /\ Named /\ [Next]_vars => Named'
  BY NamedStep
<1>3. Inv /\ Named => AreaInv
  BY InvTrie, InvType DEF AreaInv
<1> QED
  BY <1>1, <1>2, <1>3, InvHolds, PTL DEF Spec

=============================================================================
