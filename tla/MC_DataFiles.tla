----------------------------- MODULE MC_DataFiles -----------------------------
(* A small file of each kind, and every edit that changes one place of it. *)
EXTENDS DataFiles

MCBase(k) ==
    CASE k = "config" -> ConfigJson([
            version |-> 1, workWeekdays |-> <<1, 2>>, holidays |-> <<"day2">>,
            timeSlots |-> <<[id |-> "am", displayName |-> "am", start |-> "09:00",
                             end |-> "12:00", weekdays |-> <<1>>, categoryIds |-> <<"one">>]>>,
            categories |-> <<[id |-> "one", displayName |-> "one", taskSetIds |-> <<"A">>]>>,
            crossSetConflicts |-> TRUE, enabled |-> FALSE, repo |-> "o/n",
            checkIntervalHours |-> 6])
      [] k = "workers" -> WorkersJson([version |-> 1, workers |-> <<
            [id |-> "w1", name |-> "ann", active |-> FALSE, weeklyOff |-> <<2>>, note |-> "n"],
            [id |-> "w2", name |-> "ben", active |-> TRUE, weeklyOff |-> <<>>, note |-> ""]>>])
      [] k = "tasks" -> TasksJson([version |-> 1,
            taskSets |-> <<[id |-> "A", displayName |-> "A"]>>,
            tasks |-> <<
              [id |-> "t1", name |-> "t1", taskSetIds |-> <<"A">>, requiredCount |-> 2,
               conflictsWith |-> <<"t2">>, weekdays |-> <<1>>, priority |-> {3}],
              [id |-> "t2", name |-> "t2", taskSetIds |-> <<"A">>, requiredCount |-> 1,
               conflictsWith |-> <<"t1">>, weekdays |-> <<>>, priority |-> {}]>>])
      [] k = "absences" -> AbsencesJson([version |-> 1, absences |-> <<
            [workerId |-> "w1", from |-> "day1", to |-> "day2", reason |-> "r",
             createdAt |-> "day1"]>>])
      [] k = "cursors" -> CursorsJson([version |-> 1,
            cursors |-> [s \in {"A", "B"} |-> IF s = "A" THEN 0 ELSE 1]])
      [] k = "snapshot" -> SnapshotJson([version |-> 1, date |-> "day1", weekday |-> 1,
            generatedAt |-> "day1", slots |-> <<
              [timeSlotId |-> "am", categoryId |-> "one", taskSets |-> <<
                [taskSetId |-> "A",
                 assignments |-> <<[taskId |-> "t1", workerId |-> "w1", absentAssignee |-> FALSE,
                                    done |-> TRUE, doneAt |-> {"day1"}]>>,
                 unassigned |-> <<[taskId |-> "t2", count |-> 1]>>]>>]>>])

MCFresh(k) ==
    CASE k = "config" -> [id |-> "two", displayName |-> "two", taskSetIds |-> <<"A", "A">>]
      [] k = "workers" -> [id |-> "w3", name |-> "cy", active |-> TRUE, weeklyOff |-> <<0, 6>>,
                           note |-> "n"]
      [] k = "tasks" -> [id |-> "t3", name |-> "t3", taskSetIds |-> <<"A">>, requiredCount |-> 1,
                         conflictsWith |-> <<"t1">>, weekdays |-> <<3>>, priority |-> {}]
      [] k = "absences" -> [workerId |-> "w2", from |-> "day3", to |-> "day3", reason |-> "",
                            createdAt |-> "day2"]
      [] k = "snapshot" -> [version |-> 1, date |-> "day1", weekday |-> 1,
                            generatedAt |-> "day2", slots |-> <<>>]

\* One place changed: taken out, made of another type, mistyped, emptied, repeated.
RECURSIVE OneOff(_)
OneOff(value) ==
    ({Null, Integer(7), String("odd"), Array(<<>>)} \ {value})
        \cup CASE Is("object", value) ->
                    {Object([key \in DOMAIN value[2] \ {k} |-> value[2][key]])
                        : k \in DOMAIN value[2]}
                    \cup UNION {{Object([value[2] EXCEPT ![k] = v]) : v \in OneOff(value[2][k])}
                        : k \in DOMAIN value[2]}
               [] Is("array", value) ->
                    {Array(Append(value[2], value[2][i])) : i \in DOMAIN value[2]}
                    \cup UNION {{Array([value[2] EXCEPT ![i] = v]) : v \in OneOff(value[2][i])}
                        : i \in DOMAIN value[2]}
               [] OTHER -> {}

\* A later version of the program has one field more.
Newer(root) ==
    Object([key \in DOMAIN root[2] \cup {"more"} |->
        IF key = "version" THEN Integer(2)
        ELSE IF key = "more" THEN String("more") ELSE root[2][key]])

\* One id twice, with two lists of conflicts.
MCTwice(k) ==
    LET task(id, others) == [id |-> id, name |-> id, taskSetIds |-> <<"A">>, requiredCount |-> 1,
                             conflictsWith |-> others, weekdays |-> <<>>, priority |-> {}]
    IN  IF k # "tasks" THEN {}
        ELSE {TasksJson([version |-> 1, taskSets |-> <<[id |-> "A", displayName |-> "A"]>>,
                         tasks |-> <<task("t1", <<>>), task("t1", <<"t2">>), task("t2", <<>>)>>])}

MCFirst(k) == {MCBase(k)} \cup (IF k \in {"cursors", "snapshot"} THEN {NoFile} ELSE {})

MCEditsOf == [k \in Kind |-> OneOff(MCBase(k)) \cup MCTwice(k) \cup {Broken, Newer(MCBase(k))}]

MCEdits(k) == MCEditsOf[k]

Written(k, texts) ==
    {ToJson(k, v) : v \in UNION {Changed(k, Loaded(k, t)) :
        t \in {t \in texts \cup {NoFile} : Readable(k, t)}}}

AllTexts == UNION {
    LET texts == MCEdits(k) \cup (MCFirst(k) \ {NoFile})
        once == Written(k, texts)
    IN  texts \cup once \cup Written(k, once) : k \in Kind}

\* A definition of its own, so that TLC evaluates it once.
MCContent == AllTexts

=============================================================================
