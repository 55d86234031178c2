--------------------------- MODULE PropertyContexts ---------------------------
(***************************************************************************)
(* In which property area a property lives: the context of its name, out   *)
(* of the property_contexts files (ContextsSplit) or out of the serialized *)
(* trie of property_info (ContextsSerialized, PropertyInfoArea).           *)
(* A name is a sequence of tokens and a token a sequence of characters;    *)
(* the characters are numbers, and 0 is the dot between two tokens.        *)
(***************************************************************************)
EXTENDS Integers, SequencesExt

CONSTANT None               \* no context, no file

Star == <<99>>              \* the prefix "*"
Ctl == <<98>>               \* the token "ctl"

Chars(name) ==
    LET join[i \in 1 .. Len(name)] ==
          IF i = 1 THEN name[1] ELSE join[i - 1] \o <<0>> \o name[i]
    IN  join[Len(name)]

-----------------------------------------------------------------------------
(* ContextsSplit: a list of prefixes, the longest ones first *)

\* Mutant: the list is in the order of the file.
ListAddAtEnd(list, entry) == Append(list, entry)

\* ListAddAfterLen: before the first shorter prefix and before every "*".
ListAddAfterLen(list, entry) ==
    LET behind == {i \in DOMAIN list : \/ Len(list[i].prefix) < Len(entry.prefix)
                                       \/ list[i].prefix[1] = Star[1]}
        at == IF behind = {} THEN Len(list) + 1
              ELSE CHOOSE i \in behind : \A j \in behind : i <= j
    IN  InsertAt(list, at, entry)

\* InitializePropertiesFromFile: lines without a context and the properties of
\* ctl, which are never stored, are skipped.
InitializePropertiesFromFile(list, lines) ==
    FoldLeft(LAMBDA l, entry : IF entry.context = None \/ IsPrefix(Ctl \o <<0>>, entry.prefix)
                               THEN l ELSE ListAddAfterLen(l, entry),
             list, lines)

\* InitializeProperties: the platform's file has to be there, the vendor's need not.
InitializeProperties(files) ==
    IF files.platform = None THEN <<>>
    ELSE LET platform == InitializePropertiesFromFile(<<>>, files.platform)
         IN  IF files.vendor = None THEN platform
             ELSE InitializePropertiesFromFile(platform, files.vendor)

MatchesPrefix(entry, name) ==
    entry.prefix[1] = Star[1] \/ IsPrefix(entry.prefix, Chars(name))

\* GetPropAreaForName of ContextsSplit: the context of the first entry that matches.
split_GetPropAreaForName(prefixes_, name) ==
    LET matching == SelectSeq(prefixes_, LAMBDA e : MatchesPrefix(e, name))
    IN  IF matching = <<>> THEN None ELSE matching[1].context

-----------------------------------------------------------------------------
(* PropertyInfoArea: a trie over the tokens.  node[path] has a context or    *)
(* None, the children by name, the prefixes longest first and exact matches. *)

\* strcmp of two tokens: below 0, 0 or above 0.
strcmp(a, b) ==
    LET differ == {i \in 1 .. Len(a) : i > Len(b) \/ a[i] # b[i]}
        first == CHOOSE i \in differ : \A j \in differ : i <= j
    IN  IF differ = {} THEN Len(a) - Len(b)
        ELSE IF first > Len(b) THEN 1 ELSE a[first] - b[first]

\* strncmp over the token's length, and 1 where the child's name goes on.
CompareChild(child, token) ==
    LET cmp == strcmp(SubSeq(child, 1, IF Len(child) < Len(token) THEN Len(child) ELSE Len(token)), token)
    IN  IF cmp = 0 /\ Len(child) > Len(token) THEN 1 ELSE cmp

\* Find: binary search over 1 .. length, 0 if nothing compares as equal.
Find(length, f(_)) ==
    LET search[bottom \in 1 .. length + 1, top \in 0 .. length] ==
          LET mid == (bottom + top) \div 2
          IN  CASE top < bottom -> 0
                [] top >= bottom /\ f(mid) = 0 -> mid
                [] top >= bottom /\ f(mid) < 0 -> search[mid + 1, top]
                [] top >= bottom /\ f(mid) > 0 -> search[bottom, mid - 1]
    IN  search[1, length]

FindChildForString(children, token) ==
    Find(Len(children), LAMBDA i : CompareChild(children[i], token))

\* CheckPrefixMatch: the first prefix of the rest of the name, or what was found.
CheckPrefixMatch(rest, node, found) ==
    LET matching == SelectSeq(node.prefixes, LAMBDA p : IsPrefix(p.prefix, rest))
    IN  IF matching = <<>> \/ matching[1].context = None THEN found ELSE matching[1].context

\* The context of a node on the way replaces what was found above it.
NodeContext(node, found) == IF node.context # None THEN node.context ELSE found

\* GetPropertyInfoIndexes: how far down the trie goes, then the exact matches.
GetPropertyInfoIndexes(info, name) ==
    LET rest(i) == Chars(SubSeq(name, i, Len(name)))
        visit[i \in 1 .. Len(name)] ==
          LET up == IF i = 1 THEN [path |-> <<>>, found |-> None, at |-> 0]
                    ELSE visit[i - 1]
              node == info[up.path]
              found == CheckPrefixMatch(rest(i), node, NodeContext(node, up.found))
              below == FindChildForString(node.children, name[i])
          IN  CASE up.at # i - 1 -> up             \* the walk ended before
                [] i = Len(name) \/ below = 0 ->
                     [path |-> up.path, found |-> found, at |-> i - 1, rest |-> rest(i)]
                [] OTHER -> [path |-> Append(up.path, node.children[below]), found |-> found,
                             at |-> i]
        last == visit[Len(name)]
        exact == {e \in info[last.path].exact : e.token = last.rest /\ e.context # None}
    IN  IF exact # {} THEN (CHOOSE e \in exact : TRUE).context ELSE last.found

-----------------------------------------------------------------------------
(* Contexts: the area a name belongs to *)

\* GetPropAreaForName of ContextsSerialized: no context, no area.
serialized_GetPropAreaForName(info, name) == GetPropertyInfoIndexes(info, name)

\* SystemProperties::Init takes the serialized trie where there is one.
GetContextForName(contexts, name) ==
    IF contexts.info # None THEN serialized_GetPropAreaForName(contexts.info, name)
    ELSE split_GetPropAreaForName(InitializeProperties(contexts.files), name)

-----------------------------------------------------------------------------
(* Reference: what the entries say themselves *)

\* The contexts of the longest prefixes that match a name, "*" as a last resort.
MostSpecific(entries, name) ==
    LET matching == {e \in entries : MatchesPrefix(e, name)}
        named == {e \in matching : e.prefix[1] # Star[1]}
        longest == {e \in named : \A f \in named : Len(f.prefix) <= Len(e.prefix)}
        found == IF named # {} THEN longest ELSE matching
    IN  IF found = {} THEN {None} ELSE {e.context : e \in found}

Dotted(path) == IF path = <<>> THEN <<>> ELSE Chars(path) \o <<0>>

\* The prefixes of a trie as the lines they were made from.
PrefixesOf(info) ==
    {[prefix |-> IF p = <<>> THEN Star ELSE Dotted(p), context |-> info[p].context] :
        p \in {q \in DOMAIN info : info[q].context # None}}
    \cup UNION {{[prefix |-> Dotted(p) \o e.prefix, context |-> e.context] :
                   e \in Range(info[p].prefixes)} : p \in DOMAIN info}

ExactOf(info, name) ==
    UNION {{e.context : e \in {f \in info[p].exact : Dotted(p) \o f.token = Chars(name)}} :
             p \in DOMAIN info}

\* The stored lines of the files: ctl. and lines without a context are not.
LinesOf(files) ==
    {e \in UNION {Range(files[f]) : f \in {g \in {"platform", "vendor"} : files[g] # None}} :
        e.context # None /\ ~IsPrefix(Ctl \o <<0>>, e.prefix)}

\* What the context of a name has to be.
ContextsOf(contexts, name) ==
    IF contexts.info = None
    THEN IF contexts.files.platform = None THEN {None}
         ELSE MostSpecific(LinesOf(contexts.files), name)
    ELSE IF ExactOf(contexts.info, name) # {} THEN ExactOf(contexts.info, name)
         ELSE MostSpecific(PrefixesOf(contexts.info), name)

=============================================================================
