---------------------------- MODULE Configurator ----------------------------
(***************************************************************************)
(* How the configuration of a run is put together (daq/configurator.py) from *)
(* command line flags, key=value arguments and files that include others,    *)
(* and the list of tests from its definition files (daq/runner.py,           *)
(* _get_test_list).                                                          *)
(*                                                                         *)
(* A configuration is a tree of dictionaries. A file is read before these    *)
(* operators: YAML as a tree, a .conf file as its key=value lines in order.  *)
(* A line or a flag that is not known has no keys.                           *)
(***************************************************************************)
EXTENDS Naturals, SequencesExt

-----------------------------------------------------------------------------
(* Trees                                                                     *)

Leaf(value) == [leaf |-> TRUE, value |-> value, items |-> <<>>]
Dict(items) == [leaf |-> FALSE, value |-> "", items |-> items]
EmptyDict == Dict(<<>>)
Raised == Leaf("raised")

HasDict(tree, key) == key \in DOMAIN tree.items /\ ~tree.items[key].leaf

RECURSIVE deep_merge_dict(_, _)

merge_top_level(base, adding) ==
    Dict([key \in DOMAIN base.items \cup DOMAIN adding.items |->
            IF key \in DOMAIN adding.items THEN adding.items[key] ELSE base.items[key]])

\* _deep_merge_dict: dictionaries on both sides are merged, anything else is
\* replaced.
deep_merge_dict(base, adding) ==
    Dict([key \in DOMAIN base.items \cup DOMAIN adding.items |->
            IF key \notin DOMAIN adding.items THEN base.items[key]
            ELSE IF HasDict(base, key) /\ HasDict(adding, key)
                 THEN deep_merge_dict(base.items[key], adding.items[key])
                 ELSE adding.items[key]])

RECURSIVE parse_flat_item(_, _, _)

\* _parse_flat_item: a dotted key descends, making dictionaries on the way. A
\* value in the place of a dictionary raises.
parse_flat_item(config, keys, value) ==
    LET key == Head(keys)
        sub == IF key \in DOMAIN config.items THEN config.items[key] ELSE EmptyDict
        put(tree) == Dict([k \in DOMAIN config.items \cup {key} |->
                            IF k = key THEN tree ELSE config.items[k]])
    IN  IF Len(keys) = 1 THEN put(Leaf(value))
        ELSE IF sub.leaf THEN Raised
        ELSE LET below == parse_flat_item(sub, Tail(keys), value)
             IN  IF below = Raised THEN Raised ELSE put(below)

-----------------------------------------------------------------------------
(* Files and arguments                                                       *)

NoFile == "no file"

\* _read_flat_config: the lines of a .conf file, one after the other
read_flat_config(lines) ==
    FoldLeft(LAMBDA config, line : IF config = Raised \/ line.keys = <<>> THEN Raised
                                   ELSE parse_flat_item(config, line.keys, line.value),
             EmptyDict, lines)

\* _read_config
read_config(file) == IF file.flat THEN read_flat_config(file.lines) ELSE file.tree

RECURSIVE merge_config(_, _, _, _)

merge_over_include(files, base, name, traversed) ==
    LET config == read_config(files[name])
    IN  IF name \in traversed \/ config = Raised THEN Raised
        ELSE IF files[name].include = NoFile THEN deep_merge_dict(base, config)
        ELSE LET included == merge_config(files, deep_merge_dict(base, config), files[name].include,
                                          traversed \cup {name})
             IN  included

\* merge_config: a file is merged over the one it includes; a circular include
\* raises.
merge_config(files, base, name, traversed) ==
    LET config == read_config(files[name])
        included == merge_config(files, base, files[name].include, traversed \cup {name})
    IN  IF config = Raised \/ name \in traversed THEN Raised
        ELSE IF files[name].include = NoFile THEN deep_merge_dict(base, config)
        ELSE IF included = Raised THEN Raised
        ELSE deep_merge_dict(included, config)

\* parse_args: flags and key=value are flat items, the rest are files.
parse_args(files, args) ==
    FoldLeft(LAMBDA config, arg :
                IF config = Raised THEN Raised
                ELSE IF arg.file # NoFile THEN merge_config(files, config, arg.file, {})
                ELSE IF arg.keys = <<>> THEN Raised
                ELSE parse_flat_item(config, arg.keys, arg.value),
             EmptyDict, args)

-----------------------------------------------------------------------------
(* The list of tests                                                         *)

Sections == <<"first", "body", "last">>
NoTests == [section \in ToSet(Sections) |-> <<>>]

\* remove: the first occurrence in each section
remove_test(ordering, test) == [section \in DOMAIN ordering |-> RemoveFirst(ordering[section], test)]

\* An unknown ordering is the body.
add_test(ordering, test, section) ==
    [ordering EXCEPT ![IF section \in DOMAIN ordering THEN section ELSE "body"] = Append(@, test)]

RECURSIVE read_test_list(_, _, _)

\* The nested get_test_list: a line at a time, includes where they stand
read_test_list(files, name, ordering) ==
    FoldLeft(LAMBDA acc, line :
                CASE line.cmd = "add" -> add_test(acc, line.argument, line.ordering)
                  [] line.cmd = "remove" -> remove_test(acc, line.argument)
                  [] line.cmd = "include" -> read_test_list(files, line.argument, acc)
                  [] OTHER -> acc,
             ordering, files[name])

\* _get_test_list
get_test_list(files, name, no_test) ==
    LET ordering == read_test_list(files, name, NoTests)
    IN  IF no_test THEN <<>> ELSE ordering["first"] \o ordering["body"] \o ordering["last"]

-----------------------------------------------------------------------------
(* What the configuration should be                                          *)

RECURSIVE Paths(_)

\* The values of a tree, by their path
Paths(tree) ==
    UNION {IF tree.items[key].leaf THEN {<<<<key>>, tree.items[key].value>>}
           ELSE {<<<<key>> \o p[1], p[2]>> : p \in Paths(tree.items[key])} : key \in DOMAIN tree.items}

Clash(p, q) == IsPrefix(p, q) \/ IsPrefix(q, p)

\* Values that come later replace the ones in their place, above or below it.
Override(old, new) == {v \in old : \A w \in new : ~Clash(v[1], w[1])} \cup new

RECURSIVE IncludeChain(_, _)
IncludeChain(files, name) ==
    IF files[name].include = NoFile THEN <<name>>
    ELSE Append(IncludeChain(files, files[name].include), name)

RECURSIVE Reaches(_, _, _)
Reaches(files, name, seen) ==
    name \in seen \/ (files[name].include # NoFile /\ Reaches(files, files[name].include, seen \cup {name}))
Circular(files, name) == Reaches(files, name, {})

\* A flat item that would go below a value has no place, nor has one without keys.
Blocked(values, keys) == keys = <<>> \/ \E v \in values : IsStrictPrefix(v[1], keys)
FlatValues(values, lines) ==
    FoldLeft(LAMBDA acc, line : Override(acc, {<<line.keys, line.value>>}), values, lines)
FlatBlocked(values, lines) ==
    \E k \in DOMAIN lines : Blocked(FlatValues(values, SubSeq(lines, 1, k - 1)), lines[k].keys)

FileValues(file) == IF file.flat THEN FlatValues({}, file.lines) ELSE Paths(file.tree)
BadFile(files, name) ==
    \/ Circular(files, name)
    \/ \E f \in ToSet(IncludeChain(files, name)) : files[f].flat /\ FlatBlocked({}, files[f].lines)

ArgValues(files, values, arg) ==
    IF arg.file = NoFile THEN Override(values, {<<arg.keys, arg.value>>})
    ELSE FoldLeft(LAMBDA acc, f : Override(acc, FileValues(files[f])), values, IncludeChain(files, arg.file))

ArgsBefore(files, args, k) ==
    FoldLeft(LAMBDA acc, arg : ArgValues(files, acc, arg), {}, SubSeq(args, 1, k))

Refused(files, args) ==
    \E k \in DOMAIN args :
        IF args[k].file = NoFile
        THEN (\A j \in 1..k : args[j].file # NoFile => ~BadFile(files, args[j].file))
             /\ Blocked(ArgsBefore(files, args, k - 1), args[k].keys)
        ELSE BadFile(files, args[k].file)

\* The configuration is refused exactly when a file includes itself or an item
\* is unknown or goes below a value; otherwise each setting has the value of the
\* last source that gives one, a file counting after the file it includes.
LastSourceWins(files, args) ==
    LET config == parse_args(files, args)
    IN  IF Refused(files, args) THEN config = Raised
        ELSE config # Raised /\ Paths(config) = ArgsBefore(files, args, Len(args))

RECURSIVE Commands(_, _)
Commands(files, name) ==
    FlattenSeq([k \in DOMAIN files[name] |->
        IF files[name][k].cmd = "include" THEN Commands(files, files[name][k].argument)
        ELSE <<files[name][k]>>])

\* A list in which no test is added while it is there already
AddedOnce(commands) ==
    \A i, j \in DOMAIN commands :
        (i < j /\ commands[i].cmd = "add" /\ commands[j].cmd = "add"
               /\ commands[i].argument = commands[j].argument)
        => \E k \in i..j : commands[k].cmd = "remove" /\ commands[k].argument = commands[i].argument

\* The command that has the last word on a test
LastWord(commands, test) ==
    SelectLastInSeq(commands, LAMBDA c : c.cmd \in {"add", "remove"} /\ c.argument = test)

\* A test is in the list, once, exactly when the last command about it adds it,
\* and the list is ordered by section and then by that command, whatever files
\* the commands are in.
TestListFollows(files, name) ==
    LET commands == Commands(files, name)
        list == get_test_list(files, name, FALSE)
        added == {k \in DOMAIN commands : commands[k].cmd = "add"
                                          /\ LastWord(commands, commands[k].argument) = k}
        rank(k) == IF commands[k].ordering = "first" THEN 1 ELSE IF commands[k].ordering = "last" THEN 3 ELSE 2
        before(j, k) == rank(j) < rank(k) \/ (rank(j) = rank(k) /\ j < k)
    IN  AddedOnce(commands) =>
            list = [n \in 1..Cardinality(added) |->
                        commands[CHOOSE k \in added : Cardinality({j \in added : before(j, k)}) = n - 1].argument]
=============================================================================
