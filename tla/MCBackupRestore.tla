-------------------------- MODULE MCBackupRestore --------------------------
(* BackupRestore for model checking: two databases, of which one is backed up. *)
EXTENDS BackupRestore, TLC

CONSTANTS m1, m2, m3, b1, b2, r1, r2, f1, f2, source, target

Old == <<1>>
New == <<1, 2, 3>>
Fork == <<1, 4>>
Embedded == {Old, New, Fork}

Everyone == {m1, m2, m3, b1, b2, r1, r2}
Around == [processes |-> {}, build |-> [p \in Everyone |-> Old], facts |-> {},
           messages |-> {},
           supported |-> Everyone \cup {source, target}, foreign |-> {},
           history |-> (source :> Old) @@ (target :> None),
           contents |-> <<"schema", "rows", "registry", "rows", "index">>, events |-> {}]

Builds3 == (m1 :> New) @@ (m2 :> New) @@ (m3 :> Fork)

Tables == {<<"registry", "rows">>, <<"schema", "rows", "registry">>,
           <<"schema", "rows", "activity", "registry">>, <<"schema", "rows">>}

Meetings ==
    \* Three migrators of two builds on databases old and empty.
    {[Around EXCEPT !.processes = {m1, m2, m3}, !.build = Builds3 @@ Around.build]} \cup
    \* Two backups of the same name, decay, and one restore, with other archives too.
    {[Around EXCEPT !.processes = {b1, b2, r1}, !.facts = {f1}, !.events = {"decay"},
                    !.contents = t] : t \in Tables} \cup
    \* Two restores of two backups and a migrator at one target.
    {[Around EXCEPT !.processes = {b1, r1, r2, m1}, !.facts = {f1}, !.build[m1] = n]
        : n \in {Old, New}} \cup
    \* Business transactions around a backup and a restore.
    {[Around EXCEPT !.processes = {b1, r1}, !.facts = {f1, f2}, !.messages = s,
                    !.events = {"session"}] : s \in {{}, {f2}}} \cup
    \* Foreign relations, unsupported servers and tools.
    {[Around EXCEPT !.processes = {b1, r1}, !.foreign = {d}] : d \in {source, target}} \cup
    {[Around EXCEPT !.processes = {b1, r1}, !.supported = @ \ {x}]
        : x \in {source, target, b1, r1}}

\* A migrator of a newer build beside a backup of the older one.
Race == {[Around EXCEPT !.processes = {b1, r1, m1}, !.build[m1] = New]}
=============================================================================
