------------------------------ MODULE MCResetProp ------------------------------
(* Small instances of ResetProp; see README.md. *)
EXTENDS ResetProp

a == <<1>>
ab == <<1, 2>>
b == <<2>>

ro_a == <<Ro, a>>
ro_ab == <<Ro, ab>>
persist_a == <<Persist, a>>
persist_b == <<Persist, b>>
x == <<b>>
illegal == <<a, <<>>>>

MCNames == {ro_a, ro_ab, persist_a, persist_b, x, illegal}

p == <<1>>
q == <<2>>
pq == <<1, 2>>
qp == <<2, 1>>
pqp == <<1, 2, 1>>          \* a long value
MCError == <<7>>           \* with its NUL as long as its buffer, 2

Set(n, v, trigger) == [op |-> "set", sets |-> <<[name |-> n, value |-> v]>>, trigger |-> trigger,
                       persist |-> FALSE, name |-> n]
File(sets, trigger) == [op |-> "set", sets |-> sets, trigger |-> trigger, persist |-> FALSE,
                        name |-> x]
Delete(n, persist) == [op |-> "delete", sets |-> <<>>, trigger |-> TRUE, persist |-> persist,
                       name |-> n]
Pair(n, v) == [name |-> n, value |-> v]

Line(prefix, context) == [prefix |-> prefix, context |-> context]
Split(platform, vendor) == [info |-> None, files |-> [platform |-> platform, vendor |-> vendor]]
Serialized(info) == [info |-> info, files |-> [platform |-> None, vendor |-> None]]

OneArea == Split(<<Line(Star, 1)>>, None)
TwoAreas == Split(<<Line(Star, 1)>>, <<Line(Ro \o <<0>>, 2)>>)

Empty == [n \in MCNames |-> None]
Both == [Empty EXCEPT ![persist_a] = p, ![persist_b] = q]

AWorld(contexts) ==
    [contexts |-> contexts, denied |-> {}, boot |-> <<>>, disk |-> Empty, use_pb |-> FALSE, version |-> 2, service |-> TRUE,
     kills |-> FALSE, apis |-> {"ReadCallback"}, watched |-> {x}, commands |-> {}]

\* Values changed in place while they are read, the tool killed at any store.
InPlace == [AWorld(OneArea) EXCEPT
    !.boot = <<Pair(x, p), Pair(ro_a, pq)>>, !.kills = TRUE, !.apis = {"Read", "ReadCallback"},
    !.watched = {x, ro_a},
    !.commands = {Set(x, pq, FALSE), Set(x, q, FALSE), Set(ro_a, qp, FALSE), Delete(x, FALSE)}]

\* Read only and long properties through the property service of version 2.
Version2 == [AWorld(OneArea) EXCEPT
    !.boot = <<Pair(ro_a, pqp), Pair(x, p)>>, !.apis = {"Read", "ReadCallback"}, !.watched = {ro_a},
    !.commands = {Set(ro_a, q, TRUE), Set(ro_a, pqp, TRUE), Set(ro_a, p, FALSE), Set(ro_a, qp, FALSE),
                  Set(x, pqp, TRUE), Set(x, q, TRUE), Delete(ro_a, FALSE)}]

\* Version 1 and its timeout, and no property service at all.
Version1 == [AWorld(OneArea) EXCEPT
    !.version = 0, !.boot = <<Pair(ro_a, p), Pair(x, p)>>,
    !.commands = {Set(x, q, TRUE), Set(x, pq, FALSE), Set(ro_a, pqp, TRUE), Delete(x, FALSE)}]
NoService == [Version2 EXCEPT !.service = FALSE, !.commands = {Set(ro_a, q, TRUE), Set(x, q, TRUE)}]

\* Persisted properties, in one file or in a file each.
InPb == [AWorld(OneArea) EXCEPT
    !.use_pb = TRUE, !.kills = TRUE, !.disk = Both, !.boot = <<Pair(persist_a, p)>>,
    !.watched = {persist_a},
    !.commands = {Delete(persist_a, TRUE), Delete(persist_b, TRUE), Delete(persist_a, FALSE),
                  Set(persist_a, q, TRUE), Delete(ro_a, TRUE)}]
InFiles == [InPb EXCEPT !.use_pb = FALSE]

\* Paths that grow until the area is full, files of several sets, a name that is illegal.
Growing == [AWorld(OneArea) EXCEPT
    !.kills = TRUE, !.watched = {ro_ab},
    !.commands = {File(<<Pair(x, p), Pair(illegal, p), Pair(ro_ab, p)>>, FALSE),
                  Set(ro_a, pqp, FALSE), Set(ro_ab, q, FALSE), Set(persist_a, p, FALSE),
                  Set(x, q, FALSE), Set(illegal, p, TRUE), Delete(illegal, FALSE),
                  Delete(ro_ab, FALSE)}]

\* Two areas, one of which the tool may not open.
Apart == [AWorld(TwoAreas) EXCEPT
    !.denied = {1}, !.watched = {ro_a, x}, !.boot = <<Pair(ro_a, p)>>,
    !.commands = {Set(ro_a, q, FALSE), Set(x, q, FALSE), Delete(ro_a, FALSE), Delete(x, FALSE)}]

\* Every small pair of property_contexts files, by the digits of a number ...
SomePrefixes == <<Star, Ro \o <<0>>, Ro \o <<0>> \o a, Ro, Ctl \o <<0>> \o a>>
LineOf(k, file) == IF k = 0 THEN <<>>
                   ELSE <<Line(SomePrefixes[k], 10 * file + Len(SomePrefixes[k]))>>
SplitContexts(i) ==
    LET vendor == i \div 36
    IN  Split(LineOf(i % 6, 1) \o LineOf((i \div 6) % 6, 2),
                     IF vendor = 6 THEN None ELSE LineOf(vendor, 3))

\* ... and every small serialized trie (the serializer is not part of the repository).
Entry(path, kind, token, context) == [path |-> path, kind |-> kind, token |-> token,
                                      context |-> context]
Entries == <<Entry(<<>>, "node", <<>>, 1), Entry(<<Ro>>, "node", <<>>, 2),
            Entry(<<Ro>>, "prefix", a, 3), Entry(<<>>, "prefix", <<18>>, 4),
            Entry(<<Ro>>, "exact", ab, 5), Entry(<<>>, "exact", b, 6),
            Entry(<<Ro \o <<1>>>>, "node", <<>>, 7), Entry(<<Persist>>, "prefix", b, 8)>>
SortBy(S, less(_, _)) == CHOOSE s \in [1 .. Cardinality(S) -> S] :
    /\ \A i, j \in DOMAIN s : i < j => less(s[i], s[j])
    /\ {s[i] : i \in DOMAIN s} = S
Trie(entries) ==
    LET paths == {<<>>} \cup {e.path : e \in entries}
        at(path, kind) == {e \in entries : e.path = path /\ e.kind = kind}
    IN  [path \in paths |->
           [context |-> IF at(path, "node") = {} THEN None
                        ELSE (CHOOSE e \in at(path, "node") : TRUE).context,
            children |-> IF path # <<>> THEN <<>>
                         ELSE SortBy({c[1] : c \in paths \ {<<>>}}, LAMBDA s, t : strcmp(s, t) < 0),
            prefixes |-> SortBy({[prefix |-> e.token, context |-> e.context] : e \in at(path, "prefix")},
                                LAMBDA s, t : Len(s.prefix) > Len(t.prefix)),
            exact |-> {[token |-> e.token, context |-> e.context] : e \in at(path, "exact")}]]
TrieContexts(i) ==
    Serialized(Trie({Entries[k] : k \in {j \in 1 .. 8 : (i \div 2^(j - 1)) % 2 = 1}}))

MCWorlds == <<InPlace, Version2, Version1, NoService, InPb, InFiles, Growing, Apart>>

MCContexts == {SplitContexts(i) : i \in 0 .. 251} \cup {TrieContexts(i) : i \in 0 .. 255}
=============================================================================
