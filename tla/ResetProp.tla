------------------------------- MODULE ResetProp -------------------------------
(***************************************************************************)
(* The resetprop tool over the property area: setprop, deleteprop, --file  *)
(* and the persisted properties, the two protocols of the property service *)
(* (init, external) that a set with trigger goes through, and the tool     *)
(* being killed at any step.  One tool runs at a time, and init's mutation *)
(* and the tool's never overlap (PropertyArea); init may be late.          *)
(***************************************************************************)
EXTENDS PropertyArea

CONSTANTS Contexts,         \* property_contexts files and tries to look names up in
          MaxCalls          \* invocations of the tool

VARIABLES tool,      \* the running invocation and what is left of it
          requests,  \* sets that init has not handled yet
          answer,    \* init's answer to the request the tool waits for
          disk,      \* name -> persisted value: persistent_properties, or one file each
          tmp,       \* persistent_properties.tmp
          calls,     \* invocations so far
          last       \* history: the last call that returned

toolVars == <<tool, requests, answer, disk, tmp, calls, last>>
vars == <<areaVars, toolVars>>

Persist == <<16, 19>>              \* the token "persist"
IsPersist(name) == Len(name) > 1 /\ name[1] = Persist

\* check_legal_property_name: no empty token.
check_legal_property_name(name) == name # <<>> /\ \A i \in DOMAIN name : name[i] # <<>>

\* detect_protocol_version: the property of the version, not set before version 2.
detect_protocol_version == IF World.version >= 2 THEN 2 ELSE 1

Resting == [pc |-> "idle"]
NoCall == [op |-> "none"]

MutIdle == mut.pc = "idle"

\* The areas as init filled them before, property by property.
BootArea(contexts, at, boot) ==
    LET add(a, n, v) ==
          LET grow[i \in 0 .. Len(n) + 1] ==
                IF i = 0 THEN a
                ELSE LET b == grow[i - 1]
                         p == find_prop_bt(b.bt, n)
                     IN  IF p.link # "none"
                         THEN [new_prop_bt(b, SubSeq(n, 1, p.depth))
                                 EXCEPT !.bt[p.node].link[p.link] = b.bytes_used_]
                         ELSE IF b.bt[p.node].prop # 0 THEN b
                         ELSE [new_prop_info(b, n, v) EXCEPT !.bt[p.node].prop = b.bytes_used_]
          IN  grow[Len(n) + 1]
    IN  [c \in contexts |-> FoldLeft(LAMBDA a, b : IF at[b.name] = c THEN add(a, b.name, b.value)
                                                  ELSE a, NewArea, boot)]

ContextsIn(w) == [n \in Names |-> GetContextForName(Worlds[w].contexts, n)]
AreasIn(w) == BootArea({ContextsIn(w)[n] : n \in Names} \ {None}, ContextsIn(w), Worlds[w].boot)
ValuesIn(w) ==
    [n \in Names |-> LET b == {i \in DOMAIN Worlds[w].boot : Worlds[w].boot[i].name = n}
                     IN  IF b = {} \/ ContextsIn(w)[n] \in {None} \cup Worlds[w].denied THEN Gone
                         ELSE Shows(Worlds[w].boot[CHOOSE i \in b : TRUE].value)]

\* Init built the areas of the boot, so they are sound and hold the values of the boot.
ASSUME BootAssumption ==
    \A w \in DOMAIN Worlds :
        /\ \A c \in DOMAIN AreasIn(w) :
             /\ AreaOK(AreasIn(w)[c])
             /\ \A o \in DOMAIN AreasIn(w)[c].info :
                  LET n == AreasIn(w)[c].info[o].name IN n \in Names /\ ContextsIn(w)[n] = c
        /\ \A n \in Names : ContextsIn(w)[n] \notin {None} \cup Worlds[w].denied =>
              /\ Holds(AreasIn(w)[ContextsIn(w)[n]], n, ValuesIn(w)[n])
              /\ LET a == AreasIn(w)[ContextsIn(w)[n]]
                 IN  PropIn(a.bt, n) # 0 => a.info[PropIn(a.bt, n)].serial = 0

\* What the tool may be asked for, and whom it runs with.
ASSUME WorldAssumption ==
    \A w \in DOMAIN Worlds :
        /\ Worlds[w].apis \subseteq {"Read", "ReadCallback"} /\ Worlds[w].watched \subseteq Names
        /\ Worlds[w].disk \in [Names -> {None} \cup Seq(Int)]
        /\ \A command \in Worlds[w].commands :
             /\ command.op \in {"set", "delete"}
             /\ command.trigger \in BOOLEAN /\ command.persist \in BOOLEAN
             /\ command.name \in Names
             /\ command.sets \in Seq([name : Names, value : Seq(Nat)])
             /\ command.op = "set" => command.sets # <<>>

Init ==
    /\ world \in DOMAIN Worlds
    /\ contextOf = ContextsIn(world)
    /\ area = AreasIn(world)
    /\ serial_ = 0
    /\ mut = Idle
    /\ reads \in [Readers -> {Reader(api, n) : api \in World.apis, n \in World.watched}]
    /\ value = ValuesIn(world)
    /\ crashed = FALSE
    /\ tool = Resting
    /\ requests = <<>>
    /\ answer = "none"
    /\ disk = World.disk
    /\ tmp = None
    /\ calls = 0
    /\ last = NoCall

-----------------------------------------------------------------------------
(* The tool *)

\* resetprop_main: NAME VALUE and --file are setprops in a row, --delete a delete.
resetprop_main(command) ==
    /\ tool.pc = "idle"
    /\ calls < MaxCalls
    /\ calls' = calls + 1
    /\ tool' = [pc |-> IF command.op = "delete" THEN "delete" ELSE "set",
                op |-> command.op, sets |-> command.sets, trigger |-> command.trigger,
                persist |-> command.persist, asked |-> command.persist, name |-> command.name,
                list |-> None,
                was |-> value[IF command.op = "delete" THEN command.name
                              ELSE Head(command.sets).name],
                late |-> requests # <<>>, failed |-> FALSE]
    /\ UNCHANGED <<areaVars, requests, answer, disk, tmp, last>>

To_(pc) == tool' = [tool EXCEPT !.pc = pc]
Name == IF tool.op = "delete" THEN tool.name ELSE Head(tool.sets).name
Value == Head(tool.sets).value

\* The next line of the file, or the tool ends; was is history: what the call finds.
EndCall(late) ==
    tool' = IF tool.op = "set" /\ Len(tool.sets) > 1
            THEN [tool EXCEPT !.sets = Tail(@), !.pc = "set", !.late = late,
                              !.was = value[Head(Tail(tool.sets)).name]]
            ELSE Resting

\* A call is over.
Done(ret, long) ==
    /\ last' = [op |-> tool.op, name |-> Name, ret |-> ret, persist |-> tool.asked,
                was |-> tool.was,
                value |-> IF tool.op = "delete" THEN None ELSE Value,
                long |-> long, trigger |-> tool.trigger,
                late |-> tool.late \/ requests # <<>>, failed |-> tool.failed]
    /\ EndCall(tool.late)

\* setprop up to its first mutation or request; a read only property that exists is
\* deleted before it is set with trigger.
setprop ==
    /\ tool.pc = "set" /\ MutIdle
    /\ IF ~check_legal_property_name(Name) THEN Done(1, FALSE) /\ UNCHANGED mut
       ELSE LET pi == find(Name)
            IN  /\ UNCHANGED last
                /\ CASE tool.trigger /\ pi # 0 /\ is_read_only(Name) ->
                          To_("reset") /\ mut' = Mutation("delete", Name, <<>>, 0)
                     [] tool.trigger /\ ~(pi # 0 /\ is_read_only(Name)) ->
                          To_("request") /\ UNCHANGED mut
                     [] ~tool.trigger /\ pi # 0 ->
                          To_("update") /\ mut' = Mutation("update", Name, Value, pi)
                     [] OTHER -> To_("add") /\ mut' = Mutation("add", Name, Value, 0)
    /\ UNCHANGED <<world, contextOf, area, serial_, reads, value, crashed,
                   requests, answer, disk, tmp, calls>>

\* Mutant: the code of the library is not looked at.
mutatedAnyway ==
    /\ tool.pc \in {"update", "add"} /\ mut.pc = "return"
    /\ mut' = Idle
    /\ Done(0, tool.pc = "update" /\ mut.ret = 0 /\ Area.info[mut.pi].is_long)
    /\ UNCHANGED <<world, contextOf, area, serial_, reads, value, crashed,
                   requests, answer, disk, tmp, calls>>

\* The mutation of a -n setprop returns, its code is setprop's.
mutated ==
    /\ tool.pc \in {"update", "add"} /\ mut.pc = "return"
    /\ mut' = Idle
    /\ Done(mut.ret, tool.pc = "update" /\ mut.ret = 0 /\ Area.info[mut.pi].is_long)
    /\ UNCHANGED <<world, contextOf, area, serial_, reads, value, crashed,
                   requests, answer, disk, tmp, calls>>

\* deleteprop within setprop: its code is ignored.
reset ==
    /\ tool.pc = "reset" /\ mut.pc = "return"
    /\ mut' = Idle
    /\ To_("request")
    /\ UNCHANGED <<world, contextOf, area, serial_, reads, value, crashed,
                   requests, answer, disk, tmp, calls, last>>

\* __system_property_set: what the protocol cannot carry is refused before anything
\* is sent; otherwise the request goes out, or the connection fails.
__system_property_set ==
    /\ tool.pc = "request" /\ answer = "none"
    /\ LET refused == /\ Len(Value) >= PROP_VALUE_MAX
                      /\ detect_protocol_version = 1 \/ ~is_read_only(Name)
       IN  \/ refused /\ Done(-1, FALSE) /\ UNCHANGED <<requests, answer>>
           \/ ~refused /\ ~World.service /\ Done(-1, FALSE) /\ UNCHANGED <<requests, answer>>
           \/ /\ ~refused /\ World.service
              /\ requests' = Append(requests, [name |-> Name, value |-> Value, waits |-> TRUE])
              /\ To_("answer")
              /\ UNCHANGED <<last, answer>>
    /\ UNCHANGED <<areaVars, disk, tmp, calls>>

\* Version 2 waits for init's code, version 1 for the socket to close.
answered ==
    /\ tool.pc = "answer" /\ answer # "none"
    /\ Done(IF detect_protocol_version = 2 /\ answer # "success" THEN -1 ELSE 0, FALSE)
    /\ answer' = "none"
    /\ UNCHANGED <<areaVars, requests, disk, tmp, calls>>

Forget(queue) == [i \in DOMAIN queue |-> [queue[i] EXCEPT !.waits = FALSE]]

\* send_prop_msg of version 1 waits 250 ms and calls it a success.
timed_out ==
    /\ tool.pc = "answer" /\ answer = "none" /\ detect_protocol_version = 1
    /\ requests # <<>>
    /\ requests' = Forget(requests)
    /\ last' = [op |-> "set", name |-> Name, ret |-> 0, persist |-> FALSE, was |-> tool.was,
                value |-> Value, long |-> FALSE, trigger |-> TRUE, late |-> TRUE, failed |-> FALSE]
    /\ EndCall(TRUE)
    /\ UNCHANGED <<areaVars, answer, disk, tmp, calls>>

-----------------------------------------------------------------------------
(* deleteprop and the persisted properties *)

\* deleteprop: the persisted copy first, with -p and for a name of persist.
deleteprop ==
    /\ tool.pc = "delete"
    /\ IF ~check_legal_property_name(Name) THEN Done(1, FALSE)
       ELSE /\ To_(IF tool.persist /\ IsPersist(Name)
                   THEN IF World.use_pb THEN "collect" ELSE "unlink" ELSE "del")
            /\ UNCHANGED last
    /\ UNCHANGED <<areaVars, requests, answer, disk, tmp, calls>>

\* persist_deleteprop went wrong or there was nothing: persist is false from here on.
Persisted(ok) == tool' = [tool EXCEPT !.pc = "del", !.persist = ok]

\* A file operation of persist_deleteprop failed, and this is what it returns all the same.
FileFailed(ok) == tool' = [tool EXCEPT !.pc = "del", !.persist = ok, !.failed = TRUE]

\* file_getprop's file of the name; unlink may fail.
unlink ==
    /\ tool.pc = "unlink"
    /\ \/ Persisted(disk[Name] # None) /\ disk' = [disk EXCEPT ![Name] = None]
       \/ disk[Name] # None /\ FileFailed(FALSE) /\ UNCHANGED disk
    /\ UNCHANGED <<areaVars, requests, answer, tmp, calls, last>>

\* persist_deleteprop with protobuf: pb_getprop collects the records, and creat empties
\* the temporary file.  Where creat fails the first write to its descriptor does too, but
\* without records nothing is written and whatever has the name is renamed.
collect_props ==
    LET list == [n \in Names |-> IF n = Name THEN None ELSE disk[n]]
        none == [n \in Names |-> None]
    IN  /\ tool.pc = "collect"
        /\ \/ disk[Name] = None /\ Persisted(FALSE) /\ UNCHANGED tmp
           \/ disk[Name] # None /\ tool' = [tool EXCEPT !.pc = "encode", !.list = list] /\ tmp' = none
           \/ disk[Name] # None /\ list # none /\ FileFailed(FALSE) /\ UNCHANGED tmp
           \/ /\ disk[Name] # None /\ list = none
              /\ tool' = [tool EXCEPT !.pc = "rename", !.list = list, !.failed = TRUE]
              /\ UNCHANGED tmp
        /\ UNCHANGED <<areaVars, requests, answer, disk, calls, last>>

\* Mutant: the records go into the file itself.
prop_encode_in_place ==
    /\ tool.pc = "encode"
    /\ LET left == {n \in Names : tool.list[n] # None /\ tmp[n] = None}
       IN  IF left = {} THEN To_("rename") /\ UNCHANGED <<disk, tmp>>
           ELSE \E n \in left :
                  /\ tmp' = [tmp EXCEPT ![n] = tool.list[n]]
                  /\ disk' = tmp'
                  /\ UNCHANGED tool
    /\ UNCHANGED <<areaVars, requests, answer, calls, last>>

\* prop_encode and write_callback: a record at a time, and a write may fail.
prop_encode ==
    /\ tool.pc = "encode"
    /\ LET left == {n \in Names : tool.list[n] # None /\ tmp[n] = None}
       IN  \/ left = {} /\ To_("rename") /\ UNCHANGED tmp
           \/ \E n \in left : tmp' = [tmp EXCEPT ![n] = tool.list[n]] /\ UNCHANGED tool
           \/ left # {} /\ FileFailed(FALSE) /\ UNCHANGED tmp
    /\ UNCHANGED <<areaVars, requests, answer, disk, calls, last>>

\* clone_attr and rename, whose result nobody looks at: true is returned either way.
rename ==
    /\ tool.pc = "rename"
    /\ \/ tmp # None /\ disk' = tmp /\ tmp' = None /\ Persisted(TRUE)
       \/ FileFailed(TRUE) /\ UNCHANGED <<disk, tmp>>
    /\ UNCHANGED <<areaVars, requests, answer, calls, last>>

\* __system_property_del.
del ==
    /\ tool.pc = "del" /\ MutIdle
    /\ mut' = Mutation("delete", Name, <<>>, 0)
    /\ To_("deleted")
    /\ UNCHANGED <<world, contextOf, area, serial_, reads, value, crashed,
                   requests, answer, disk, tmp, calls, last>>

\* 0 if the property or its persisted copy was deleted.
deleted ==
    /\ tool.pc = "deleted" /\ mut.pc = "return"
    /\ mut' = Idle
    /\ Done(IF mut.ret # 0 /\ ~(tool.persist /\ IsPersist(Name)) THEN 1 ELSE 0, FALSE)
    /\ UNCHANGED <<world, contextOf, area, serial_, reads, value, crashed,
                   requests, answer, disk, tmp, calls>>

-----------------------------------------------------------------------------
(* External: init, the readers, the kill *)

\* init's property service takes the next set: a read only property that exists is
\* refused, a persist. property is written to disk as well.
ServiceTakes ==
    /\ requests # <<>> /\ MutIdle
    /\ LET request == Head(requests)
           pi == find(request.name)
       IN  IF pi # 0 /\ is_read_only(request.name)
           THEN /\ answer' = IF request.waits THEN "refused" ELSE answer
                /\ requests' = Tail(requests)
                /\ UNCHANGED <<mut, disk>>
           ELSE /\ mut' = Mutation(IF pi # 0 THEN "update" ELSE "add", request.name, request.value, pi)
                /\ disk' = IF IsPersist(request.name) /\ mut'.ret = 0
                           THEN [disk EXCEPT ![request.name] = request.value] ELSE disk
                /\ UNCHANGED <<answer, requests>>
    /\ UNCHANGED <<world, contextOf, area, serial_, reads, value, crashed, tool, tmp, calls, last>>

ServiceAnswers ==
    /\ requests # <<>> /\ mut.pc = "return"
    /\ tool.pc \notin {"update", "add", "reset", "deleted"}
    /\ mut' = Idle
    /\ requests' = Tail(requests)
    /\ answer' = IF Head(requests).waits THEN IF mut.ret = 0 THEN "success" ELSE "refused" ELSE answer
    /\ UNCHANGED <<world, contextOf, area, serial_, reads, value, crashed, tool, disk, tmp, calls, last>>

\* The tool is killed: its mutation stops where it is, its request stays with init.
Kill ==
    /\ World.kills /\ ~crashed
    /\ tool.pc # "idle"
    /\ crashed' = TRUE
    /\ tool' = Resting
    /\ mut' = IF tool.pc \in {"update", "add", "reset", "deleted"} THEN Idle ELSE mut
    /\ requests' = Forget(requests)
    /\ answer' = "none"
    /\ UNCHANGED <<world, contextOf, area, serial_, reads, value, disk, tmp, calls, last>>

MutateStep == Mutate /\ UNCHANGED toolVars
ReadStep(r) == Read(r) /\ UNCHANGED toolVars

Tool ==
    \/ setprop \/ mutated \/ reset
    \/ __system_property_set \/ answered
    \/ deleteprop \/ unlink \/ collect_props \/ prop_encode \/ rename
    \/ del \/ deleted

Service == ServiceTakes \/ ServiceAnswers

Next ==
    \/ \E command \in World.commands : resetprop_main(command)
    \/ Tool \/ timed_out \/ Service \/ Kill
    \/ MutateStep
    \/ \E r \in Readers : ReadStep(r)

\* Every process that can go on does; nobody has to call the tool or kill it.
Spec ==
    /\ Init /\ [][Next]_vars
    /\ WF_vars(Tool) /\ WF_vars(Service) /\ WF_vars(MutateStep)
    /\ \A r \in Readers : WF_vars(ReadStep(r))

-----------------------------------------------------------------------------
(* Properties *)

\* A property that is not there reads as "".
Text(v) == IF v = None THEN <<>> ELSE v

\* persist_getprop: the record of the file, or the file of the name.
persist_getprop(name) == IF IsPersist(name) THEN disk[name] ELSE None

\* What getprop reads: the area, and with -p the persisted copy of a persist. property.
stored(name, persist) ==
    LET pi == find(name)
    IN  IF pi # 0 THEN ValueOf(area[GetPropAreaForName(name)].info[pi]).ReadCallback
        ELSE IF persist THEN persist_getprop(name) ELSE None

\* getprop itself copies what it finds in the area to an array of PROP_VALUE_MAX.
getprop(name, persist) ==
    LET v == stored(name, persist)
    IN  IF find(name) = 0 \/ v = Undefined THEN v
        ELSE IF Len(v) < PROP_VALUE_MAX THEN v ELSE Undefined

TypeOK ==
    /\ world \in DOMAIN Worlds
    /\ \A c \in DOMAIN area : \A off \in DOMAIN area[c].bt \cup DOMAIN area[c].info :
         off < area[c].bytes_used_ /\ area[c].bytes_used_ <= AreaSize
    /\ \A r \in Readers : reads[r].pc \in
         {"start", "denied", "children", "sibling", "prop", "reload", "serial", "dirty", "asleep",
          "copy", "check", "wait", "waiting", "load"}
    /\ tool.pc \in {"idle", "set", "update", "add", "reset", "request", "answer", "delete", "collect",
                    "encode", "rename", "unlink", "del", "deleted"}
    /\ mut.pc \in {"idle", "return", "find", "link", "unlink", "dirty", "copy", "clean", "wake",
                   "bump", "wakeall"}

\* Every name is looked up in the area of the longest line or the exact name that its
\* files or its serialized trie hold for it (ContextsSplit, PropertyInfoArea).  The
\* contexts are fixed when the library is initialised.
ContextIsMostSpecific ==
    (calls = 0 /\ \A r \in Readers : reads[r].pc = "start") =>
        \A contexts \in Contexts \cup {World.contexts}, n \in Names :
            GetContextForName(contexts, n) \in ContextsOf(contexts, n)

\* What a read returns is a value the property had between the start of the lookup and
\* the end of the read, however the writer's stores and the reader's loads interleave.
\* The one excuse is the code's: ReadCallback does not copy a read only property, which
\* "can never change", and resetprop -n changes it.
ReadIsCurrent ==
    \A r \in Readers :
        LET rd == reads[r]
        IN  rd.pc \in {"wait", "waiting"} =>
              \/ rd.seen \in {Text(v) : v \in rd.could}
              \/ rd.api = "ReadCallback" /\ is_read_only(rd.name) /\ rd.inPlace

\* Between mutations the trie holds exactly the properties that exist, each found by
\* its name, met once by foreach and with its value, after a failed or killed Add too;
\* only a kill leaves a serial odd.  One value cannot be told: that of a long read only
\* property which was changed in place, if it was to a value that reaches the offset.
TrieAgrees ==
    mut.pc = "idle" =>
        /\ \A n \in Names : GetPropAreaForName(n) # None =>
             LET info == area[GetPropAreaForName(n)].info
                 pi == find(n)
             IN  /\ (pi = 0) = (value[n] = Gone)
                 /\ pi # 0 => /\ info[pi].name = n
                              /\ IF info[pi].serial % 2 = 1 THEN crashed
                                 ELSE ValueOf(info[pi]) = value[n]
                              /\ value[n].ReadCallback = Undefined =>
                                   is_read_only(n) /\ info[pi].is_long
        /\ \A c \in ForEach :
             LET met == foreach_property(area[c].bt)
             IN  /\ IsInjective(met)
                 /\ Range(met) = {find(n) : n \in {m \in Names : GetPropAreaForName(m) = c}} \ {0}

\* The areas hold no object past their end, and between mutations what they should.
AreaInv == TypeOK /\ TrieAgrees

\* A set that returned 0 is in the area and what getprop reads (a long value it copies
\* past the end of its array), a delete that returned 0 left neither the property nor,
\* with -p, its persisted copy.  Not so with protocol 1, which has no answer, where a
\* long property was changed in place (SetIsStored), and where a file operation of
\* persist_deleteprop failed, whose result the code drops (DeletedFromDisk).
SuccessIsDone ==
    \/ last.failed \/ last.long
    \/ last.trigger /\ last.op = "set" /\ detect_protocol_version = 1
    \/ /\ stored(last.name, last.persist) = last.value
       /\ getprop(last.name, last.persist) \in {last.value, Undefined}

\* Any other code means that the property is as it was before the call, but for a read
\* only property that was deleted to be set anew, when the set is then refused.
ErrorIsUndone ==
    \/ value[last.name] = last.was
    \/ /\ last.op = "set" /\ last.trigger /\ is_read_only(last.name)
       /\ value[last.name] = Gone

\* What the code of a call says of the property is so once the call is over, unless an
\* older request was still with init, or the tool was killed.
ReturnedIsDone ==
    (tool.pc = "idle" /\ last.op # "none" /\ ~last.late /\ ~crashed) =>
        IF last.ret = 0 THEN SuccessIsDone ELSE ErrorIsUndone

\* "NAME VALUE  set property entry NAME with VALUE": what a set without trigger wrote is
\* what is read.  Update writes over the legacy message of a long property and leaves it long.
SetIsStored ==
    (tool.pc = "idle" /\ last.op = "set" /\ last.ret = 0 /\ ~last.trigger /\ ~last.late /\ ~crashed) =>
        stored(last.name, FALSE) = last.value

\* "--delete NAME  delete property": nothing else makes a property go away.  A set with
\* trigger of a read only property deletes it first, and init may refuse the set.
OnlyDeleteDeletes ==
    (tool.pc = "idle" /\ last.op = "set" /\ ~last.late /\ ~crashed) =>
        (value[last.name] = Gone => last.was = Gone)

\* "-p  access actual persist storage": a delete that returned 0 left no persisted copy.
\* persist_deleteprop does not look at what rename returns, nor at what creat does.
DeletedFromDisk ==
    (tool.pc = "idle" /\ last.op = "delete" /\ last.ret = 0 /\ last.persist /\ ~last.late /\ ~crashed) =>
        persist_getprop(last.name) = None

\* "only one property is added or updated at a time": the tool writes to the area itself
\* only while init has no set to write.  A set that timed out is still on its way to init.
OnlyMutator ==
    (tool.pc \in {"update", "add", "reset", "deleted"} /\ mut.pc # "idle") => requests = <<>>

\* A persisted property changes in three ways only: init writes the value it was asked
\* for; the file of the property that is deleted is unlinked; or the new file is renamed
\* into place, complete and without that property alone, wherever the tool is killed and
\* whichever write fails.  Only what init writes between collecting and renaming, for an
\* older request, is undone by the rename: the code takes no lock.
PersistIntact ==
    [][\A n \in Names : disk'[n] # disk[n] =>
         \/ /\ requests # <<>> /\ n = Head(requests).name /\ disk'[n] = Head(requests).value
            /\ UNCHANGED tool
         \/ tool.pc = "unlink" /\ n = tool.name /\ disk'[n] = None
         \/ /\ tool.pc = "rename" /\ disk' = tool.list
            /\ tool.late \/ (n = tool.name /\ disk'[n] = None)]_vars

\* Nobody who watches a property ends up with a value that is out of date: the last
\* change bumps the serial after it is visible and wakes whoever still waits on the
\* old one.  A tool that is killed may leave a serial odd, or a change untold.
WatcherCatchesUp ==
    <>[](\/ crashed
         \/ \A r \in Readers :
              /\ reads[r].pc = "waiting"
              /\ \/ GetPropAreaForName(reads[r].name) = None
                 \/ reads[r].seen = Text(value[reads[r].name][reads[r].api]))

=============================================================================
