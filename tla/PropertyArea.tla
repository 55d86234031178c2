----------------------------- MODULE PropertyArea -----------------------------
(***************************************************************************)
(* The shared memory of the system properties (prop_area, prop_info and    *)
(* SystemProperties of resetprop's copy of bionic): one area per context,  *)
(* a trie of prop_bt whose siblings form a binary tree, prop_info with a   *)
(* serial that is odd while the value is being written, and the serial of  *)
(* the whole set that watchers wait on.  One mutation runs at a time (the  *)
(* code's "only a single mutator"); readers run at any time, load by load. *)
(* A name is a sequence of tokens and a value a sequence of characters.    *)
(***************************************************************************)
EXTENDS PropertyContexts

CONSTANTS Names, Readers, Worlds,
          PROP_VALUE_MAX,     \* 92 in the code
          kLongLegacyError,   \* what stands in the value of a long property
          kLongLegacyErrorBufferSize, \* its bytes in the union, the offset behind: 56
          Undefined,          \* what stands where a damaged offset points
          AreaSize            \* objects an area has room for

\* A name has a token; the legacy message is not a long value itself.  Characters are
\* numbers, 0 is no character (it is the dot between two tokens, and NUL in a value).
ASSUME AreaAssumption ==
    /\ Names \subseteq Seq(Seq(Int)) \ {<<>>}
    /\ PROP_VALUE_MAX \in Nat \ {0} /\ AreaSize \in Nat
    /\ kLongLegacyErrorBufferSize \in Nat /\ kLongLegacyErrorBufferSize < PROP_VALUE_MAX
    /\ kLongLegacyError \in Seq(Nat) /\ Len(kLongLegacyError) < kLongLegacyErrorBufferSize
    /\ None \notin Seq(Int) /\ Undefined \notin Seq(Int) \cup {None}

VARIABLES world,    \* index of the world: where the names live, which areas open, the calls (rigid)
          contextOf, \* the context of every name (rigid)
          area,     \* context -> [bt, info : offset -> object, bytes_used_]
          serial_,  \* the serial of the serial area
          mut,      \* the mutation that is running
          reads,    \* the watchers: AreaSerial, find, read, WaitAny, and again
          value,    \* history: what either way of reading shows of every property
          crashed   \* history: the tool was killed at work

areaVars == <<world, contextOf, area, serial_, mut, reads, value, crashed>>

World == Worlds[world]
NUL == -1
Ro == <<18, 15>>                   \* the token "ro"
is_read_only(name) == Len(name) > 1 /\ name[1] = Ro

Links == {"left", "right", "children"}

\* A node stores the last of its tokens; path is history: all of them, from the root.
prop_bt(path) == [token |-> IF path = <<>> THEN <<>> ELSE path[Len(path)], path |-> path,
                  prop |-> 0, link |-> [l \in Links |-> 0]]

\* Both constructors: a long value stands elsewhere, in its place the legacy message.
prop_info(name, v) ==
    LET short == IF Len(v) >= PROP_VALUE_MAX THEN kLongLegacyError ELSE v
    IN  [name |-> name, serial |-> 0, len |-> Len(short),
         is_long |-> Len(v) >= PROP_VALUE_MAX, long_value |-> v,
         value |-> [i \in 1 .. PROP_VALUE_MAX |-> IF i <= Len(short) THEN short[i] ELSE NUL]]

NewArea == [bt |-> [o \in {0} |-> prop_bt(<<>>)], info |-> [o \in {} |-> 0], bytes_used_ |-> 1]

\* map_prop_area: the file may be missing, closed to the process or not an area.
map_prop_area(context) == IF context \in World.denied THEN None ELSE context

\* ContextNode::Open, in every GetPropAreaForName: the area of the name's context.
GetPropAreaForName(name) ==
    IF contextOf[name] = None THEN None ELSE map_prop_area(contextOf[name])

\* ForEach: the areas that open, CheckAccessAndOpen.
ForEach == {c \in DOMAIN area : map_prop_area(c) # None}

-----------------------------------------------------------------------------
(* The trie *)

\* cmp_prop_name: the shorter token is the smaller one.
cmp_prop_name(one, two) ==
    IF Len(one) # Len(two) THEN Len(one) - Len(two) ELSE strcmp(one, two)

Side(token, node) == IF cmp_prop_name(token, node.token) < 0 THEN "left" ELSE "right"

\* Which link of a node the search follows that has come to it for the i-th token: down
\* if it is the node's (i = 0 is the root), to a side if not, and none at the last token.
LinkTaken(bt, name, node, i) ==
    CASE i = 0 -> "children"
      [] i > 0 /\ bt[node].token # name[i] -> Side(name[i], bt[node])
      [] i > 0 /\ bt[node].token = name[i] /\ i < Len(name) -> "children"
      [] OTHER -> "none"

\* find_prop_bt, from a node and a token on: where it ends, the link that is missing
\* there (or "none"), and the token it is missing for.
Search(bt, name) ==
    LET walk[p \in (DOMAIN bt) \X (0 .. Len(name))] ==
          LET link == LinkTaken(bt, name, p[1], p[2])
              i == IF link = "children" THEN p[2] + 1 ELSE p[2]
              next == IF link = "none" THEN 0 ELSE bt[p[1]].link[link]
          IN  IF next = 0 THEN [node |-> p[1], link |-> link, depth |-> i] ELSE walk[<<next, i>>]
    IN  walk

find_prop_bt(bt, name) == Search(bt, name)[<<0, 0>>]

\* find: the offset of the prop_info, 0 if there is none.
PropIn(bt, name) ==
    LET at == find_prop_bt(bt, name) IN IF at.link = "none" THEN bt[at.node].prop ELSE 0
find(name) ==
    IF GetPropAreaForName(name) = None THEN 0 ELSE PropIn(area[GetPropAreaForName(name)].bt, name)

\* foreach_property: left, the node itself, its children, right.
foreach_property(bt) ==
    LET visit[o \in DOMAIN bt] ==
          LET sub(l) == IF bt[o].link[l] = 0 THEN <<>> ELSE visit[bt[o].link[l]]
          IN  sub("left") \o (IF bt[o].prop = 0 THEN <<>> ELSE <<bt[o].prop>>)
              \o sub("children") \o sub("right")
    IN  visit[0]

\* The value in an info: the cells up to len, and in their place a long value.
ValueOf(info) ==
    LET cells == [i \in 1 .. info.len |-> info.value[i]]
    IN  [ReadCallback |-> IF info.is_long THEN info.long_value ELSE cells, Read |-> cells]

-----------------------------------------------------------------------------
(* Mutations: SystemProperties::Add, Update and Delete *)

Idle == [pc |-> "idle", ret |-> 0]

Context == GetPropAreaForName(mut.name)
Area == area[Context]
SetArea(a) == area' = [area EXCEPT ![Context] = a]
Return(code) == mut' = [mut EXCEPT !.pc = "return", !.ret = code]
Goto(pc) == mut' = [mut EXCEPT !.pc = pc]

\* What ReadCallback and Read show of a value: a long one is not for Read.
Gone == [ReadCallback |-> None, Read |-> None]
Shows(v) == [ReadCallback |-> v, Read |-> IF Len(v) >= PROP_VALUE_MAX THEN kLongLegacyError ELSE v]

\* The value of the property changes here: what a reader may see from now on.
Becomes(shown) ==
    /\ value' = [value EXCEPT ![mut.name] = shown]
    /\ reads' = [r \in Readers |-> IF reads[r].name = mut.name
                                   THEN [reads[r] EXCEPT !.could = @ \cup {shown[reads[r].api]}]
                                   ELSE reads[r]]

\* The first instruction of a mutation, or -1 at once.
Mutation(op, name, v, pi) ==
    LET refused == \/ op # "delete" /\ Len(v) >= PROP_VALUE_MAX
                      /\ (op = "update" \/ ~is_read_only(name))
                   \/ GetPropAreaForName(name) = None
        pc == IF refused THEN "return"
              ELSE CASE op = "update" -> "dirty" [] op = "add" -> "find" [] OTHER -> "unlink"
    IN  [pc |-> pc, op |-> op, name |-> name, v |-> v, pi |-> pi, new |-> 0, i |-> 1,
         ret |-> IF refused THEN -1 ELSE 0]

\* allocate_obj: whether there is room behind what is used.
allocate_obj(used, size) == used + size <= AreaSize

Put(objects, offset, object) ==
    [o \in DOMAIN objects \cup {offset} |-> IF o = offset THEN object ELSE objects[o]]

\* new_prop_bt and new_prop_info: a long value takes an object of its own.
new_prop_bt(a, path) ==
    [a EXCEPT !.bt = Put(@, a.bytes_used_, prop_bt(path)), !.bytes_used_ = @ + 1]
new_prop_info(a, name, v) ==
    [a EXCEPT !.info = Put(@, a.bytes_used_, prop_info(name, v)),
              !.bytes_used_ = @ + IF Len(v) >= PROP_VALUE_MAX THEN 2 ELSE 1]

\* An object is made, nothing is linked yet.
Allocate ==
    LET at == find_prop_bt(Area.bt, mut.name)
        found == at.link = "none"
        long == found /\ Len(mut.v) >= PROP_VALUE_MAX
        fits(n) == allocate_obj(Area.bytes_used_, n)
    IN  /\ mut.pc = "find"
        /\ IF found /\ Area.bt[at.node].prop # 0 THEN Goto("bump") /\ UNCHANGED area
           ELSE IF fits(1) /\ (long => fits(2))
           THEN /\ SetArea(IF found THEN new_prop_info(Area, mut.name, mut.v)
                           ELSE new_prop_bt(Area, SubSeq(mut.name, 1, at.depth)))
                /\ mut' = [mut EXCEPT !.pc = "link", !.new = Area.bytes_used_]
           ELSE /\ SetArea([Area EXCEPT !.bytes_used_ = @ + IF fits(1) THEN 1 ELSE 0])
                /\ Return(-1)
        /\ UNCHANGED <<serial_, reads, value>>

\* Mutant: the new sibling is always linked on the left.
LinkLeft ==
    LET at == find_prop_bt(Area.bt, mut.name)
        field == IF at.link = "right" THEN "left" ELSE at.link
    IN  /\ mut.pc = "link"
        /\ IF at.link = "none"
           THEN /\ SetArea([Area EXCEPT !.bt[at.node].prop = mut.new])
                /\ Becomes(Shows(mut.v))
                /\ Goto("bump")
           ELSE /\ SetArea([Area EXCEPT !.bt[at.node].link[field] = mut.new])
                /\ Goto("find")
                /\ UNCHANGED <<value, reads>>
        /\ UNCHANGED serial_

\* The release store that publishes the object: a node, or in the end the property.
Link ==
    LET at == find_prop_bt(Area.bt, mut.name)
    IN  /\ mut.pc = "link"
        /\ IF at.link = "none"
           THEN /\ SetArea([Area EXCEPT !.bt[at.node].prop = mut.new])
                /\ Becomes(Shows(mut.v))
                /\ Goto("bump")
           ELSE /\ SetArea([Area EXCEPT !.bt[at.node].link[at.link] = mut.new])
                /\ Goto("find")
                /\ UNCHANGED <<value, reads>>
        /\ UNCHANGED serial_

\* del: the store of 0 into the node of the name; the node may have no property.
Unlink ==
    LET at == find_prop_bt(Area.bt, mut.name)
    IN  /\ mut.pc = "unlink"
        /\ IF at.link # "none" THEN Return(-1) /\ UNCHANGED <<area, value, reads>>
           ELSE /\ SetArea([Area EXCEPT !.bt[at.node].prop = 0])
                /\ Becomes(Gone)
                /\ Goto("bump")
        /\ UNCHANGED serial_

\* Mutant: the lowest bit is toggled, not set.
DirtyToggled ==
    /\ mut.pc = "dirty"
    /\ SetArea([Area EXCEPT !.info[mut.pi].serial = @ + 1])
    /\ reads' = [r \in Readers |-> IF reads[r].name = mut.name
                                   THEN [reads[r] EXCEPT !.inPlace = TRUE] ELSE reads[r]]
    /\ Goto("copy")
    /\ UNCHANGED <<serial_, value>>

\* serial |= 1: stays odd where a mutation died before.
Dirty ==
    /\ mut.pc = "dirty"
    /\ SetArea([Area EXCEPT !.info[mut.pi].serial = IF @ % 2 = 0 THEN @ + 1 ELSE @])
    /\ reads' = [r \in Readers |-> IF reads[r].name = mut.name
                                   THEN [reads[r] EXCEPT !.inPlace = TRUE] ELSE reads[r]]
    /\ Goto("copy")
    /\ UNCHANGED <<serial_, value>>

\* strlcpy, a character at a time, the NUL last.  The union of prop_info has the offset
\* of a long value behind the bytes of the legacy message: a character that is written
\* there makes it point anywhere.
Copy ==
    LET info == Area.info[mut.pi]
        damaged == info.is_long /\ mut.i > kLongLegacyErrorBufferSize
    IN  /\ mut.pc = "copy"
        /\ SetArea([Area EXCEPT !.info[mut.pi] =
                      [info EXCEPT !.value[mut.i] = IF mut.i <= Len(mut.v) THEN mut.v[mut.i] ELSE NUL,
                                   !.long_value = IF damaged THEN Undefined ELSE @]])
        /\ IF damaged THEN Becomes([value[mut.name] EXCEPT !.ReadCallback = Undefined])
           ELSE UNCHANGED <<value, reads>>
        /\ mut' = [mut EXCEPT !.i = @ + 1, !.pc = IF mut.i <= Len(mut.v) THEN "copy" ELSE "clean"]
        /\ UNCHANGED serial_

\* The new length and an even serial; kLongFlag stays, so ReadCallback still hands out
\* what the offset points at.
Clean ==
    /\ mut.pc = "clean"
    /\ SetArea([Area EXCEPT !.info[mut.pi].serial = @ + 1, !.info[mut.pi].len = Len(mut.v)])
    /\ Becomes(IF Area.info[mut.pi].is_long THEN [value[mut.name] EXCEPT !.Read = mut.v]
               ELSE Shows(mut.v))
    /\ Goto("wake")
    /\ UNCHANGED serial_

\* Mutant: nobody who sleeps on the serial of the property is woken.
WakeNobody ==
    /\ mut.pc = "wake"
    /\ Goto("bump")
    /\ UNCHANGED <<area, serial_, value, reads>>

\* __futex_wake on the serial of the property.
Wake ==
    /\ mut.pc = "wake"
    /\ reads' = [r \in Readers |->
                   IF /\ reads[r].pc = "asleep" /\ reads[r].pi = mut.pi
                      /\ GetPropAreaForName(reads[r].name) = Context
                   THEN [reads[r] EXCEPT !.pc = "serial"] ELSE reads[r]]
    /\ Goto("bump")
    /\ UNCHANGED <<area, serial_, value>>

\* The serial of the serial area.
Bump ==
    /\ mut.pc = "bump"
    /\ serial_' = serial_ + 1
    /\ Goto("wakeall")
    /\ UNCHANGED <<area, value, reads>>

\* __futex_wake on it.
WakeAll ==
    /\ mut.pc = "wakeall"
    /\ reads' = [r \in Readers |-> IF reads[r].pc = "waiting" THEN [reads[r] EXCEPT !.pc = "load"]
                                   ELSE reads[r]]
    /\ Return(0)
    /\ UNCHANGED <<area, serial_, value>>

Mutate ==
    /\ \/ Allocate \/ Link \/ Unlink
       \/ Dirty \/ Copy \/ Clean \/ Wake
       \/ Bump \/ WakeAll
    /\ UNCHANGED <<world, contextOf, crashed>>

-----------------------------------------------------------------------------
(* Readers *)

Reader(api, name) ==
    [pc |-> "start", api |-> api, name |-> name, old |-> 0, at |-> 0, i |-> 1, pi |-> 0,
     serial |-> 0, len |-> 0, got |-> <<>>, seen |-> <<>>, could |-> {}, inPlace |-> FALSE]

TheArea(r) == area[GetPropAreaForName(reads[r].name)]

\* The serial word and the cells behind an offset.  Offset 0 is the root node, taken
\* for a prop_info where find_property loads prop a second time and it is gone: its
\* namelen is the serial and its own prop the first characters, all of them 0.
InfoAt(a, off) == IF off = 0 THEN prop_info(<<>>, <<>>) ELSE a.info[off]

Change(r, rec) == reads' = [reads EXCEPT ![r] = rec]
To(r, pc) == Change(r, [reads[r] EXCEPT !.pc = pc])

\* getprop knows only "" for a property that is not there.
Seen(r, v) == Change(r, [reads[r] EXCEPT !.pc = "wait", !.seen = v])

\* Find begins, under the serial that AreaSerial or WaitAny returned.
BeginFind(r, old) ==
    Change(r, [reads[r] EXCEPT !.old = old, !.at = 0, !.i = 1, !.got = <<>>,
                               !.could = {value[reads[r].name][reads[r].api]},
                               !.inPlace = mut.pc \in {"copy", "clean"}
                                           /\ mut.name = reads[r].name,
                               !.pc = IF GetPropAreaForName(reads[r].name) = None THEN "denied"
                                      ELSE "children"])

AreaSerial(r) == reads[r].pc = "start" /\ BeginFind(r, serial_)

Denied(r) == reads[r].pc = "denied" /\ Seen(r, <<>>)

LoadChildren(r) ==
    LET child == TheArea(r).bt[reads[r].at].link["children"]
    IN  /\ reads[r].pc = "children"
        /\ IF child = 0 THEN Seen(r, <<>>)
           ELSE Change(r, [reads[r] EXCEPT !.at = child, !.pc = "sibling"])

LoadSibling(r) ==
    LET rd == reads[r]
        node == TheArea(r).bt[rd.at]
        next == node.link[Side(rd.name[rd.i], node)]
    IN  /\ rd.pc = "sibling"
        /\ IF node.token = rd.name[rd.i]
           THEN IF rd.i = Len(rd.name) THEN To(r, "prop")
                ELSE Change(r, [rd EXCEPT !.i = @ + 1, !.pc = "children"])
           ELSE IF next = 0 THEN Seen(r, <<>>)
           ELSE Change(r, [rd EXCEPT !.at = next])

\* find_property loads prop to see that there is one ...
LoadProp(r) ==
    /\ reads[r].pc = "prop"
    /\ IF TheArea(r).bt[reads[r].at].prop = 0 THEN Seen(r, <<>>) ELSE To(r, "reload")

\* ... and loads it again in to_prop_info.
ReloadProp(r) ==
    /\ reads[r].pc = "reload"
    /\ Change(r, [reads[r] EXCEPT !.pi = TheArea(r).bt[reads[r].at].prop, !.pc = "serial"])

\* Serial: the loads of the loop that waits while the serial is odd.
Serial(r) ==
    LET info == InfoAt(TheArea(r), reads[r].pi)
    IN  /\ reads[r].pc = "serial"
        /\ Change(r, [reads[r] EXCEPT !.serial = info.serial, !.len = info.len, !.got = <<>>,
                                      !.pc = IF info.serial % 2 = 1 THEN "dirty" ELSE "copy"])

\* __futex_wait sleeps only if the serial is still the one that was loaded.
FutexWait(r) ==
    /\ reads[r].pc = "dirty"
    /\ To(r, IF InfoAt(TheArea(r), reads[r].pi).serial = reads[r].serial THEN "asleep"
             ELSE "serial")

\* ReadCallback hands the characters of a read only property out as they stand, up to
\* the NUL; every other read copies len of them.
NotCopied(r) == reads[r].api = "ReadCallback" /\ is_read_only(reads[r].name) /\ reads[r].pi # 0

ReadCell(r) ==
    LET rd == reads[r]
        info == InfoAt(TheArea(r), rd.pi)
        cell == info.value[Len(rd.got) + 1]
        end == IF NotCopied(r) THEN cell = NUL ELSE Len(rd.got) = rd.len
    IN  /\ rd.pc = "copy"
        /\ IF NotCopied(r) /\ info.is_long THEN Seen(r, info.long_value)
           ELSE IF ~end THEN Change(r, [rd EXCEPT !.got = Append(@, cell)])
           ELSE IF NotCopied(r) THEN Seen(r, rd.got)
           ELSE To(r, "check")

\* Read and ReadCallback compare the serial and start over if it moved.
CheckSerial(r) ==
    LET info == InfoAt(TheArea(r), reads[r].pi)
    IN  /\ reads[r].pc = "check"
        /\ IF info.serial = reads[r].serial /\ info.len = reads[r].len THEN Seen(r, reads[r].got)
           ELSE To(r, "serial")

\* WaitAny: __futex_wait, then the load that tells whether the serial moved.
WaitAny(r) ==
    /\ reads[r].pc = "wait"
    /\ To(r, IF serial_ = reads[r].old THEN "waiting" ELSE "load")

LoadSerial(r) ==
    /\ reads[r].pc = "load"
    /\ IF serial_ = reads[r].old THEN To(r, "wait") ELSE BeginFind(r, serial_)

Read(r) ==
    /\ \/ AreaSerial(r) \/ Denied(r)
       \/ LoadChildren(r) \/ LoadSibling(r) \/ LoadProp(r) \/ ReloadProp(r)
       \/ Serial(r) \/ FutexWait(r) \/ ReadCell(r) \/ CheckSerial(r)
       \/ WaitAny(r) \/ LoadSerial(r)
    /\ UNCHANGED <<world, contextOf, area, serial_, mut, value, crashed>>

-----------------------------------------------------------------------------
(* What a sound area is: what init hands over, and every store keeps *)

Node == [token : Seq(Int), path : Seq(Seq(Int)), prop : Nat, link : [Links -> Nat]]
Info == [name : Seq(Seq(Int)), serial : Nat, len : Nat, is_long : BOOLEAN,
         long_value : Seq(Int) \cup {Undefined}, value : [1 .. PROP_VALUE_MAX -> Int]]

\* A link leads to a newer node: one token longer, or another last token.
LinkOK(bt, o, l) ==
    LET to == bt[o].link[l]
        common == IF l = "children" THEN Len(bt[o].path) ELSE Len(bt[o].path) - 1
    IN  /\ to \in DOMAIN bt /\ to > o
        /\ l # "children" => o # 0
        /\ Len(bt[to].path) = common + 1
        /\ \A j \in 1 .. common : bt[to].path[j] = bt[o].path[j]

LinksOK(bt) ==
    /\ bt = [o \in DOMAIN bt |-> bt[o]]
    /\ 0 \in DOMAIN bt /\ DOMAIN bt \subseteq 0 .. AreaSize
    /\ bt[0].path = <<>>
    /\ \A o \in DOMAIN bt :
         /\ bt[o] \in Node
         /\ o # 0 => Len(bt[o].path) > 0 /\ bt[o].token = bt[o].path[Len(bt[o].path)]
         /\ \A l \in Links : bt[o].link[l] # 0 => LinkOK(bt, o, l)

Linked(bt, o) == o = 0 \/ \E q \in DOMAIN bt, l \in Links : bt[q].link[l] = o

\* No node has two links to it; a linked one is where the search for its path ends, and
\* one that is not linked, for the store was never made, has nothing behind it.
TrieOK(bt) ==
    /\ LinksOK(bt)
    /\ \A o, q \in DOMAIN bt, l, k \in Links :
         bt[o].link[l] = bt[q].link[k] /\ bt[o].link[l] # 0 => o = q /\ l = k
    /\ \A o \in DOMAIN bt :
         IF ~Linked(bt, o) THEN bt[o].prop = 0 /\ \A l \in Links : bt[o].link[l] = 0
         ELSE o # 0 => find_prop_bt(bt, bt[o].path) =
                         [node |-> o, link |-> "none", depth |-> Len(bt[o].path)]

\* A value that is not being written has no NUL in it and one behind it; only a read
\* only property is long.
InfoOK(info) ==
    /\ info \in Info
    /\ info.len < PROP_VALUE_MAX /\ info.value[PROP_VALUE_MAX] = NUL
    /\ info.is_long => is_read_only(info.name)
    /\ info.serial % 2 = 0 => /\ \A i \in 1 .. info.len : info.value[i] # NUL
                              /\ info.value[info.len + 1] = NUL

AreaOK(a) ==
    /\ a = [bt |-> a.bt, info |-> a.info, bytes_used_ |-> a.bytes_used_]
    /\ a.info = [o \in DOMAIN a.info |-> a.info[o]]
    /\ a.bytes_used_ \in Nat /\ a.bytes_used_ <= AreaSize
    /\ \A o \in DOMAIN a.bt \cup DOMAIN a.info : o < a.bytes_used_
    /\ DOMAIN a.info \subseteq Nat \ {0}
    /\ TrieOK(a.bt)
    /\ \A o \in DOMAIN a.bt : a.bt[o].prop # 0 => /\ a.bt[o].prop \in DOMAIN a.info
                                                 /\ a.info[a.bt[o].prop].name = a.bt[o].path
    /\ \A o \in DOMAIN a.info : InfoOK(a.info[o])

\* What an area holds of a property, and what a reader can see of it.
Holds(a, name, shown) ==
    LET pi == PropIn(a.bt, name)
    IN  IF pi = 0 THEN shown = Gone
        ELSE /\ pi \in DOMAIN a.info
             /\ a.info[pi].name = name
             /\ shown.ReadCallback \in Seq(Int) \cup {Undefined} /\ shown.Read \in Seq(Int)
             /\ shown.ReadCallback = Undefined => a.info[pi].is_long
             /\ a.info[pi].is_long => shown.ReadCallback = a.info[pi].long_value
             /\ a.info[pi].serial % 2 = 0 => ValueOf(a.info[pi]) = shown

=============================================================================
