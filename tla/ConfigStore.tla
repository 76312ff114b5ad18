---------------------------- MODULE ConfigStore ----------------------------
(***************************************************************************)
(* internal/db: Config, what the user keeps: connections and their groups, *)
(* favorites, recent keys, templates and settings, in memory and in one    *)
(* JSON file that every change rewrites.  Each operation holds c.mu from   *)
(* its first read to the end of the write, so it is one step, and          *)
(* operations of concurrent commands interleave.  A write is os.WriteFile, *)
(* which truncates first: it may fail before or after it, and the program  *)
(* may be killed in it.  Started afresh, the program reads the file into   *)
(* its defaults, or moves the file of an older version over (initConfig).  *)
(***************************************************************************)
EXTENDS Integers, SequencesExt

CONSTANTS Names,           \* what the connection form holds but the passwords
          Keys,            \* names of Redis keys
          GroupNames,
          TemplateNames,
          Presets,         \* what a template presets
          NoPreset,        \* a zero value, or a field the map does not have
          Optional,        \* KeyTemplate's omitempty parts: description, TTL, value, each field
          DefaultTemplates,
          Bindings,        \* of the keyboard
          DefaultBindings,
          Separators,      \* of the key tree, with the default and the empty one
          DefaultSeparator,
          MaxRecentKeys,   \* Config.MaxRecentKeys
          MaxValueHistory, \* Config.MaxValueHistory
          \* bounds on what a run may do
          MaxId,           \* the ids given out
          MaxGroups, MaxTemplates,
          Uses             \* sets of what the program is used for, of which a run has one

\* A template; each of its optional parts is left out of the file on its own.
Template(name, preset) == [name |-> name, preset |-> preset]
Templates == [name : TemplateNames, preset : [Optional -> Presets \cup {NoPreset}]]
Parts == {"connections", "marks", "groups", "templates", "history", "settings"}

ASSUME ConfigStoreAssumption ==
  /\ MaxRecentKeys \in Nat /\ MaxValueHistory \in Nat
  /\ NoPreset \notin Presets /\ DefaultTemplates \in Seq(Templates)
  /\ DefaultBindings \in Bindings /\ DefaultSeparator \in Separators
  /\ MaxId \in Nat \ {0} /\ MaxGroups \in Nat /\ MaxTemplates \in Nat
  /\ Uses \subseteq SUBSET Parts

VARIABLES uses,   \* bound: what the program of this run is used for
          up,     \* the program runs
          config, \* Config, but for the value history and nextID
          values, \* Config.ValueHistory, latest first: in memory only
          nextID, \* Config.nextID
          file,   \* ~/.config/redis-tui/config.json
          legacy, \* ~/.redis/config.json
          behind  \* history: the last write failed

memory == <<config, values, nextID>>
vars == <<uses, up, config, values, nextID, file, legacy, behind>>

\* A connection: password stands for the password and the SSH secrets.
Conn(id, name, password) == [id |-> id, name |-> name, password |-> password]
Mark(id, key) == [conn |-> id, key |-> key]
Group(name, members) == [name |-> name, members |-> members]

\* What NewConfig reads the file into.
Defaults ==
  [connections |-> << >>, favorites |-> << >>, recent |-> << >>, groups |-> << >>,
   templates |-> DefaultTemplates, bindings |-> DefaultBindings, separator |-> DefaultSeparator]

Written(c) == [state |-> "complete", config |-> c]
Missing == [state |-> "missing", config |-> Defaults]
Torn == [state |-> "torn", config |-> Defaults]

Init ==
  /\ uses \in Uses
  /\ up = FALSE /\ behind = FALSE
  /\ config = Defaults /\ values = << >> /\ nextID = 1
  /\ file = Missing
  /\ \/ legacy \in {Missing, Torn}
     \/ \E n \in Names, p \in BOOLEAN :
          legacy = Written([Defaults EXCEPT !.connections = <<Conn(1, n, p)>>])

------------------------------------------------------------------------------
(* Writing *)

\* Mutated forms: the connections are written as they are; the copy, which names each field
\* of Config, forgets one.
StripNothing(c) == c
StripGroups(c) ==
  [c EXCEPT !.connections = [i \in DOMAIN @ |-> Conn(@[i].id, @[i].name, FALSE)], !.groups = << >>]

\* The copy that save() writes: without the secrets of the connections.
Strip(c) ==
  [c EXCEPT !.connections = [i \in DOMAIN @ |-> Conn(@[i].id, @[i].name, FALSE)]]

\* save() writes all of the configuration.
Save(c) == file' = Written(Strip(c)) /\ behind' = FALSE

\* It fails: nothing is written, or less than all of it.
SaveFails == file' \in {file, Torn} /\ behind' = TRUE

\* Nothing is left of the memory.
Ended == up' = FALSE /\ config' = Defaults /\ values' = << >> /\ nextID' = 1

\* The program is killed in the write.
KilledInSave == Ended /\ file' = Torn /\ UNCHANGED <<uses, legacy, behind>>

\* Memory is changed and saved, and left changed when that fails.
Change(c) ==
  \/ /\ Save(c) \/ SaveFails
     /\ config' = c
     /\ UNCHANGED <<uses, up, values, nextID, legacy>>
  \/ KilledInSave

\* Memory is changed and saved, and changed back when that fails.
ChangeOrRollBack(c, next) ==
  \/ /\ Save(c)
     /\ config' = c /\ nextID' = next
     /\ UNCHANGED <<uses, up, values, legacy>>
  \/ SaveFails /\ UNCHANGED <<uses, up, memory, legacy>>
  \/ KilledInSave

Using(part) == up /\ part \in uses

\* The loops over a list stop at the first match: i is the first of the places in hits.
First(i, hits) == i \in hits /\ \A j \in hits : i <= j

------------------------------------------------------------------------------
(* Connections *)

\* Mutated form: the connection stays after a failed save.
AddConnectionKept(name, password) ==
  LET c == [config EXCEPT !.connections = Append(@, Conn(nextID, name, password))]
  IN /\ Using("connections") /\ nextID <= MaxId
     /\ Save(c) \/ SaveFails
     /\ config' = c /\ nextID' = nextID + 1
     /\ UNCHANGED <<uses, up, values, legacy>>

AddConnection(name, password) ==
  /\ Using("connections") /\ nextID <= MaxId
  /\ ChangeOrRollBack([config EXCEPT !.connections = Append(@, Conn(nextID, name, password))],
                      nextID + 1)

\* The first connection with the id is replaced, if there is one: the form may
\* have been opened on a connection that was deleted since.
UpdateConnection(id, name, password) ==
  /\ Using("connections")
  /\ \E i \in DOMAIN config.connections :
       /\ First(i, {j \in DOMAIN config.connections : config.connections[j].id = id})
       /\ ChangeOrRollBack([config EXCEPT !.connections[i] = Conn(id, name, password)], nextID)

DeleteConnection(id) ==
  /\ Using("connections")
  /\ \E i \in DOMAIN config.connections :
       /\ First(i, {j \in DOMAIN config.connections : config.connections[j].id = id})
       /\ Change([config EXCEPT !.connections = RemoveAt(@, i)])

------------------------------------------------------------------------------
(* Favorites and recent keys: of any id, connections may be gone or unsaved (0) *)

AddFavorite(id, key) ==
  /\ Using("marks")
  /\ ~Contains(config.favorites, Mark(id, key))
  /\ ChangeOrRollBack([config EXCEPT !.favorites = Append(@, Mark(id, key))], nextID)

RemoveFavorite(id, key) ==
  /\ Using("marks")
  /\ Contains(config.favorites, Mark(id, key))
  /\ Change([config EXCEPT !.favorites = RemoveFirst(@, Mark(id, key))])

Trimmed(seq, max) == SubSeq(seq, 1, Min({Len(seq), max}))

\* The key moves to the front; what exceeds the limit goes.
AddRecentKey(id, key) ==
  /\ Using("marks")
  /\ Change([config EXCEPT !.recent =
               Trimmed(<<Mark(id, key)>> \o RemoveFirst(@, Mark(id, key)), MaxRecentKeys)])

\* The marks that are left without those of a connection.
Remaining(marks, id) ==
  LET left[i \in 0 .. Len(marks)] ==
        IF i = 0 THEN << >>
        ELSE IF marks[i].conn # id THEN Append(left[i - 1], marks[i]) ELSE left[i - 1]
  IN left[Len(marks)]

ClearRecentKeys(id) ==
  /\ Using("marks")
  /\ Change([config EXCEPT !.recent = Remaining(@, id)])

------------------------------------------------------------------------------
(* Groups: their names may be taken, and their members gone *)

AddGroup(name) ==
  /\ Using("groups") /\ Len(config.groups) < MaxGroups
  /\ Change([config EXCEPT !.groups = Append(@, Group(name, << >>))])

\* Into the first group of the name, unless it is there.
AddConnectionToGroup(name, id) ==
  /\ Using("groups")
  /\ \E i \in DOMAIN config.groups :
       /\ First(i, {j \in DOMAIN config.groups : config.groups[j].name = name})
       /\ ~Contains(config.groups[i].members, id)
       /\ Change([config EXCEPT !.groups[i].members = Append(@, id)])

\* Out of the first group of the name that has it.
RemoveConnectionFromGroup(name, id) ==
  /\ Using("groups")
  /\ \E i \in DOMAIN config.groups :
       /\ First(i, {j \in DOMAIN config.groups : /\ config.groups[j].name = name
                                               /\ Contains(config.groups[j].members, id)})
       /\ Change([config EXCEPT !.groups[i].members = RemoveFirst(@, id)])

------------------------------------------------------------------------------
(* Templates, settings and the value history *)

AddTemplate(t) ==
  /\ Using("templates") /\ Len(config.templates) < MaxTemplates
  /\ Change([config EXCEPT !.templates = Append(@, t)])

DeleteTemplate(name) ==
  /\ Using("templates")
  /\ \E i \in DOMAIN config.templates :
       /\ First(i, {j \in DOMAIN config.templates : config.templates[j].name = name})
       /\ Change([config EXCEPT !.templates = RemoveAt(@, i)])

\* SetKeyBindings and ResetKeyBindings.
SetKeyBindings(b) == Using("settings") /\ Change([config EXCEPT !.bindings = b])

SetTreeSeparator(s) == Using("settings") /\ Change([config EXCEPT !.separator = s])

\* Values may be secrets: save() writes everything but them, and its error is ignored.
ChangeValues(vs) ==
  /\ Using("history")
  /\ \/ /\ Save(config) \/ SaveFails
        /\ values' = vs
        /\ UNCHANGED <<uses, up, config, nextID, legacy>>
     \/ KilledInSave

AddValueHistory(key) == ChangeValues(Trimmed(<<key>> \o values, MaxValueHistory))

ClearValueHistory == ChangeValues(<< >>)

------------------------------------------------------------------------------
(* Start and end of the program *)

\* Mutated forms: the next id follows from the number of connections, or is the
\* highest of the file.
AfterCount(cs) == Len(cs) + 1
AfterLast(cs) == Max({cs[i].id : i \in DOMAIN cs} \cup {0})

\* NewConfig: the next id is above those of the file.
AfterIds(cs) == Max({cs[i].id : i \in DOMAIN cs} \cup {0}) + 1

\* What reading t into the place of default i makes of it: Unmarshal sets what the file has,
\* and adds to the map of fields; each part that t leaves out stays that of the default.
Merged(t, i) ==
  IF i \notin DOMAIN DefaultTemplates THEN t
  ELSE Template(t.name, [o \in Optional |->
         IF t.preset[o] = NoPreset THEN DefaultTemplates[i].preset[o] ELSE t.preset[o]])

\* Unmarshal reads into what is there: a list of templates into the slice of the defaults,
\* element by element.  An empty list is left out of the file, and leaves the defaults.
Loaded(c) ==
  [c EXCEPT !.templates =
     IF @ = << >> THEN DefaultTemplates ELSE [i \in DOMAIN @ |-> Merged(@[i], i)]]

\* initConfig: without a file of its own the program copies the older version's,
\* byte for byte, if that can be parsed; the copy may fail half way.
Migrate ==
  /\ ~up
  /\ file = Missing /\ legacy.state = "complete"
  /\ file' \in {legacy, Torn}
  /\ UNCHANGED <<uses, up, memory, legacy, behind>>

\* NewConfig reads the file; it gives up on one that cannot be parsed.  A copy that
\* cannot be opened or made leaves no file, and the defaults.
Start ==
  /\ ~up
  /\ file.state # "torn"
  /\ up' = TRUE
  /\ config' = Loaded(file.config) /\ values' = << >>
  /\ nextID' = AfterIds(file.config.connections)
  /\ behind' = FALSE
  /\ UNCHANGED <<uses, file, legacy>>

\* The user repairs or removes a file the program cannot read.
RemoveFile ==
  /\ ~up
  /\ file = Torn
  /\ file' = Missing
  /\ UNCHANGED <<uses, up, memory, legacy, behind>>

\* The program ends, or is killed outside a write.
Stop == up /\ Ended /\ UNCHANGED <<uses, file, legacy, behind>>

------------------------------------------------------------------------------
Ids == 0 .. MaxId

Next ==
  \/ \E n \in Names, p \in BOOLEAN : AddConnection(n, p)
  \/ \E i \in Ids, n \in Names, p \in BOOLEAN : UpdateConnection(i, n, p)
  \/ \E i \in Ids : DeleteConnection(i)
  \/ \E i \in Ids, k \in Keys : AddFavorite(i, k) \/ RemoveFavorite(i, k) \/ AddRecentKey(i, k)
  \/ \E i \in Ids : ClearRecentKeys(i)
  \/ \E g \in GroupNames : AddGroup(g)
  \/ \E g \in GroupNames, i \in Ids : AddConnectionToGroup(g, i) \/ RemoveConnectionFromGroup(g, i)
  \/ \E t \in Templates : AddTemplate(t)
  \/ \E n \in TemplateNames : DeleteTemplate(n)
  \/ \E b \in Bindings : SetKeyBindings(b)
  \/ \E s \in Separators : SetTreeSeparator(s)
  \/ \E k \in Keys : AddValueHistory(k)
  \/ ClearValueHistory
  \/ Migrate \/ Start \/ RemoveFile \/ Stop

Spec == Init /\ [][Next]_vars

------------------------------------------------------------------------------
(* Properties *)

Conns == [id : 1 .. MaxId, name : Names, password : BOOLEAN]
Marks == [conn : Ids, key : Keys]
Groups == [name : GroupNames, members : Seq(Ids)]
Configs == [connections : Seq(Conns), favorites : Seq(Marks), recent : Seq(Marks),
            groups : Seq(Groups), templates : Seq(Templates), bindings : Bindings,
            separator : Separators]
Files == [state : {"missing", "torn", "complete"}, config : Configs]

\* Types of the configuration and of its files; ids are given out from 1, and the two
\* lists of limited length keep to it.
TypeOK ==
  /\ uses \in Uses /\ up \in BOOLEAN /\ behind \in BOOLEAN
  /\ config \in Configs /\ Len(config.recent) <= MaxRecentKeys
  /\ values \in Seq(Keys) /\ Len(values) <= MaxValueHistory
  /\ nextID \in 1 .. MaxId + 1
  /\ file \in Files /\ legacy \in Files

DistinctIds(cs) == \A i, j \in DOMAIN cs : cs[i].id = cs[j].id => i = j

\* No two connections share an id, and the next id is above all of them, whatever
\* adds, deletes, failed saves and restarts the ids have seen (config.go:64).
IdsDistinct ==
  /\ DistinctIds(config.connections)
  /\ \A i \in DOMAIN config.connections : config.connections[i].id < nextID

\* README.md:414 "Passwords and SSH passphrases are never saved to the config file", and
\* main.go:244 "so the JSON is validated and passwords are stripped before writing to the new
\* location".  The migration copies the older file as it is.
FileHasNoPassword ==
  \A i \in DOMAIN file.config.connections : ~file.config.connections[i].password

\* What is true of the passwords: only the copy of the older version's file has any, and
\* they are gone from the disk with the first save after it, whatever was saved
\* (config.go:120).
PasswordsOnlyMigrated == FileHasNoPassword \/ file = legacy

\* Template t is s again, but for parts that s left out and a default has.
TemplateLeft(t, s, i) ==
  /\ t.name = s.name
  /\ \A o \in Optional :
       \/ t.preset[o] = s.preset[o]
       \/ /\ s.preset[o] = NoPreset
          /\ i \in DOMAIN DefaultTemplates /\ t.preset[o] = DefaultTemplates[i].preset[o]

\* c is what is left of d by a restart: secrets may be gone, and what a template leaves out
\* may have come back from the default at its place (config.go:117).
LeftOf(c, d) ==
  /\ c = [d EXCEPT !.connections = c.connections, !.templates = c.templates]
  /\ Len(c.connections) = Len(d.connections)
  /\ \A i \in DOMAIN d.connections :
       c.connections[i] \in {d.connections[i], Conn(d.connections[i].id, d.connections[i].name, FALSE)}
  /\ d.templates # << >> =>
       /\ Len(c.templates) = Len(d.templates)
       /\ \A i \in DOMAIN d.templates : TemplateLeft(c.templates[i], d.templates[i], i)

\* While the last write has not failed, ending the program and starting it again loses
\* nothing but secrets, whichever operation changed the configuration last.  After a failed
\* write (behind) nothing is claimed: the operations that leave the memory changed then lose
\* the change with a restart, and a torn file everything.
RestartKeepsConfig == (up /\ ~behind) => LeftOf(Loaded(file.config), config)

\* A connection that a running program adds or changes is in the file by the end of
\* the step: a save that failed leaves the caller's error and the old memory.
NewInFile ==
  (up /\ up') =>
    \A c \in ToSet(config'.connections) \ ToSet(config.connections) :
      \E d \in ToSet(file'.config.connections) : d.id = c.id /\ d.name = c.name
AddedOnlyIfSaved == [][NewInFile]_vars
=============================================================================
