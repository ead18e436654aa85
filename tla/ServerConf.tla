----------------------------- MODULE ServerConf -----------------------------
(***************************************************************************)
(* ServerConf (server/source/ServerConf.cpp): loading the settings from    *)
(* conf/serverinfo.xml.                                                    *)
(*                                                                         *)
(* LoadServerConf reads four sections in turn; each Load*Info opens and    *)
(* parses the file again and assigns the settings element by element, so   *)
(* an edit of the file may fall between two sections and a bad element     *)
(* leaves the settings before it assigned.                                 *)
(*                                                                         *)
(* A value is the text of an attribute together with the number atoi reads *)
(* in it.  A section is the sequence of elements from its first "value" on *)
(* (NextSiblingElement() takes siblings of any name).                      *)
(***************************************************************************)
EXTENDS Integers, Sequences

CONSTANTS
    Files,    \* the contents conf/serverinfo.xml may have
    U32Mod,   \* 2^32; smaller in a model, TLC's integers have 32 bits
    MaxLoads  \* bound on the number of loads

Values == [text : STRING, num : Int]
\* The type is "NULL" and null is TRUE where Attribute() returns a null pointer.
Elements == [type : STRING, value : Values, null : BOOLEAN]

ASSUME FilesAssumption ==
    \A doc \in Files : \A s \in DOMAIN doc.sec : doc.sec[s] \in Seq(Elements)
ASSUME SizesAssumption == U32Mod \in Nat \ {0} /\ MaxLoads \in Nat

Sections == <<"addressInfo", "loggerinfo", "redisInfo", "uniqueInfo">>

Fields ==
    [addressInfo |-> {"serverIp", "port", "maxevents", "backlog",
                      "WorkerThreadTaskMax", "timeCheckAcceptClient"},
     loggerinfo  |-> {"LoggerName", "LogFilePath", "hour", "minutes",
                      "flushCache"},
     redisInfo   |-> {"redisAddress", "redisPort"},
     uniqueInfo  |-> {"serverID"}]

Text == {"serverIp", "LoggerName", "LogFilePath", "redisAddress", "serverID"}
Byte == {"hour", "minutes", "flushCache"}
AllFields == UNION {Fields[s] : s \in DOMAIN Fields}

\* What a setting is given: the text, or atoi's number cut to its uint8_t or
\* uint32_t.
Stored(f, v) ==
    IF f \in Text THEN [text |-> v.text, num |-> 0]
    ELSE [text |-> "", num |-> v.num % (IF f \in Byte THEN 256 ELSE U32Mod)]

VARIABLES
    file,       \* what is on disk
    conf,       \* AddressInfo, LoggerInfo, RedisInfo and UniqueInfo
    bAllConfLoadedRight,
    section,    \* the section LoadServerConf is at; 0: not in it
    entry,      \* the element its Load*Info is at; 0: the file is not read yet
    result,     \* of the last LoadServerConf, "crashed" if it did not return
    loads,      \* how many times it was called
    before,     \* the settings when the last LoadServerConf began
    read        \* per section the file it was read from, in the last load

vars == <<file, conf, bAllConfLoadedRight, section, entry, result, loads,
          before, read>>

Empty == [text |-> "", num |-> 0]

\* The constructor.
Init ==
    /\ file \in Files
    /\ conf = [f \in AllFields |-> Empty]
    /\ bAllConfLoadedRight = TRUE
    /\ section = 0 /\ entry = 0 /\ result = "none" /\ loads = 0
    /\ before = conf /\ read = <<>>

-----------------------------------------------------------------------------
LoadServerConf ==
    /\ section = 0 /\ result # "crashed" /\ loads < MaxLoads
    /\ loads' = loads + 1
    /\ section' = 1 /\ entry' = 0
    /\ before' = conf /\ read' = <<>> /\ result' = "none"
    /\ UNCHANGED <<file, conf, bAllConfLoadedRight>>

\* A Load*Info that fails ends LoadServerConf.
Ends(r) == section' = 0 /\ entry' = 0 /\ result' = r

\* The elements of the i-th section in the file it was read from.
Entries(i) ==
    LET doc == read[i] IN
    IF doc.ok /\ Sections[i] \in DOMAIN doc.sec THEN doc.sec[Sections[i]]
    ELSE <<>>

\* The head of LoadServerInfo, LoadLogInfo, LoadRedisInfo and LoadUniqueInfo:
\* the file as it is now is parsed and the section looked up.
LoadFile ==
    /\ section > 0 /\ entry = 0
    /\ read' = Append(read, file)
    /\ IF file.ok /\ Sections[section] \in DOMAIN file.sec
       THEN entry' = 1 /\ UNCHANGED <<section, result>>
       ELSE Ends("false")
    /\ UNCHANGED <<file, conf, bAllConfLoadedRight, loads, before>>

\* Mutant: an entry whose setting has a value already is skipped.
AssignFirst(e) ==
    /\ e.type \in Fields[Sections[section]] /\ ~e.null
    /\ conf' = IF conf[e.type] # Empty THEN conf
               ELSE [conf EXCEPT ![e.type] = Stored(e.type, e.value)]
    /\ entry' = entry + 1
    /\ UNCHANGED <<section, result>>

\* The element names a setting of the section.
Assign(e) ==
    /\ e.type \in Fields[Sections[section]] /\ ~e.null
    /\ conf' = [conf EXCEPT ![e.type] = Stored(e.type, e.value)]
    /\ entry' = entry + 1
    /\ UNCHANGED <<section, result>>

\* strcmp of a missing type, and atoi or string assignment of a missing
\* value, dereference null.
MissingAttribute(e) ==
    /\ e.type = "NULL" \/ (e.type \in Fields[Sections[section]] /\ e.null)
    /\ Ends("crashed")
    /\ UNCHANGED conf

\* Mutant: a type of no setting is skipped.
UnknownTypeSkipped(e) ==
    /\ e.type \notin Fields[Sections[section]] \cup {"NULL"}
    /\ entry' = entry + 1
    /\ UNCHANGED <<conf, section, result>>

\* The last else: a type of no setting.
UnknownType(e) ==
    /\ e.type \notin Fields[Sections[section]] \cup {"NULL"}
    /\ Ends("false")
    /\ UNCHANGED conf

\* One turn of the loop of a Load*Info.
LoadElement ==
    /\ section > 0 /\ entry > 0 /\ entry <= Len(Entries(section))
    /\ LET e == Entries(section)[entry]
       IN Assign(e) \/ MissingAttribute(e) \/ UnknownType(e)
    /\ UNCHANGED <<file, bAllConfLoadedRight, loads, before, read>>

\* The loop is over: the next section, or the end of LoadServerConf.
SectionLoaded ==
    /\ section > 0 /\ entry > 0 /\ entry > Len(Entries(section))
    /\ IF section < Len(Sections)
       THEN section' = section + 1 /\ entry' = 0 /\ UNCHANGED result
       ELSE Ends("true")
    /\ UNCHANGED <<file, conf, bAllConfLoadedRight, loads, before, read>>

\* The administrator replaces the file.
Edit ==
    /\ file' \in Files \ {file}
    /\ UNCHANGED <<conf, bAllConfLoadedRight, section, entry, result, loads,
                   before, read>>

Next == LoadServerConf \/ LoadFile \/ LoadElement \/ SectionLoaded \/ Edit

Spec == Init /\ [][Next]_vars

-----------------------------------------------------------------------------
(* Properties.                                                             *)

\* An element that ends the load.
Bad(i, n) ==
    LET e == Entries(i)[n] IN e.type \notin Fields[Sections[i]] \/ e.null

\* The elements of the i-th section that the load has dealt with so far and
\* that come before the first bad one.
Passed(i) == IF i = section THEN entry - 1 ELSE Len(Entries(i))
Taken(i) == {n \in 1 .. Passed(i) : \A m \in 1 .. n : ~Bad(i, m)}
For(i, f) == {n \in Taken(i) : Entries(i)[n].type = f}

\* LoadServerConf assigns a prefix of the configuration, whatever edits fall
\* between its sections and wherever it stops: a setting of a section it read
\* has the value of its last entry before the first bad element, in the one
\* version of the file that section was read from, and every other setting
\* keeps the value it had before the load.
LoadAssignsPrefix ==
    \A i \in 1 .. Len(Sections) : \A f \in Fields[Sections[i]] :
        \/ i <= Len(read) /\ \E n \in For(i, f) :
              /\ \A m \in For(i, f) : m <= n
              /\ conf[f] = Stored(f, Entries(i)[n].value)
        \/ (i > Len(read) \/ For(i, f) = {}) /\ conf[f] = before[f]

\* The i-th section was there and had no bad element.
Complete(i) ==
    /\ read[i].ok /\ Sections[i] \in DOMAIN read[i].sec
    /\ \A n \in 1 .. Len(Entries(i)) : ~Bad(i, n)

\* A load that returns true read every section to its end; one that does not
\* stopped in the last section it read, having read the ones before it to
\* their end.
ResultTellsCompleteness ==
    section = 0 /\ result # "none" =>
        /\ \A i \in 1 .. Len(read) - 1 : Complete(i)
        /\ result = "true" <=> Len(read) = Len(Sections) /\ Complete(Len(read))

\* The comment on flushCache in the configuration template calls its value
\* the interval in seconds: it is the number the administrator wrote.
FlushIntervalAsWritten ==
    section = 0 /\ result = "true" =>
        LET its == For(2, "flushCache")
        IN  \A i \in its : (\A j \in its : j <= i)
                => conf["flushCache"].num = Entries(2)[i].value.num

=============================================================================
