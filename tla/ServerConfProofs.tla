-------------------------- MODULE ServerConfProofs --------------------------
(***************************************************************************)
(* LoadServerConf assigns a prefix of the configuration, and its result    *)
(* tells how much, for every set of files, every edit between two steps    *)
(* and every number of loads.                                              *)
(*                                                                         *)
(* The argument: the elements a Load*Info has passed are all good          *)
(* (Reading), so a new one that is assigned is the last for its setting,   *)
(* and one that ends the load cuts off the elements behind it; what the    *)
(* load did with the other sections depends on the files they were read    *)
(* from, which an edit does not change.                                    *)
(***************************************************************************)
EXTENDS ServerConf, TLAPS

Types ==
  /\ file \in Files /\ read \in Seq(Files)
  /\ section \in 0 .. 4 /\ entry \in Nat
  /\ DOMAIN conf = AllFields

Found(i) == read[i].ok /\ Sections[i] \in DOMAIN read[i].sec

\* Where the load is: the sections before are complete, and so is the
\* current one up to the element.
Reading ==
  /\ section > 0 =>
       /\ result = "none"
       /\ Len(read) = IF entry = 0 THEN section - 1 ELSE section
       /\ \A i \in 1 .. section - 1 : Complete(i)
       /\ entry > 0 => /\ Found(section) /\ entry <= Len(Entries(section)) + 1
                       /\ \A n \in 1 .. entry - 1 : ~Bad(section, n)
  /\ section = 0 =>
       /\ entry = 0 /\ Len(read) <= 4
       /\ result = "none" => read = <<>>

\* What LoadAssignsPrefix says of one setting.
Right(i, f) ==
  \/ i <= Len(read) /\ \E n \in For(i, f) :
        /\ \A m \in For(i, f) : m <= n
        /\ conf[f] = Stored(f, Entries(i)[n].value)
  \/ (i > Len(read) \/ For(i, f) = {}) /\ conf[f] = before[f]

IInv == Types /\ Reading /\ LoadAssignsPrefix /\ ResultTellsCompleteness

-----------------------------------------------------------------------------
(* The sections and their elements.                                        *)

\* There are four sections, no two have a setting in common, and none has one
\* called NULL.
LEMMA SectionFacts ==
  /\ Len(Sections) = 4
  /\ \A i \in 1 .. 4 : /\ Sections[i] \in DOMAIN Fields
                       /\ Fields[Sections[i]] \subseteq AllFields
                       /\ "NULL" \notin Fields[Sections[i]]
  /\ \A i \in 1 .. 4, j \in 1 .. 4 : \A f \in Fields[Sections[i]] :
       f \in Fields[Sections[j]] => i = j
  <1>1. /\ Len(Sections) = 4
        /\ Sections[1] = "addressInfo" /\ Sections[2] = "loggerinfo"
        /\ Sections[3] = "redisInfo" /\ Sections[4] = "uniqueInfo"
    BY Zenon DEF Sections
  <1>2. DOMAIN Fields = {"addressInfo", "loggerinfo", "redisInfo", "uniqueInfo"}
    BY Zenon DEF Fields
  <1>3. \A i \in 1 .. 4 : i = 1 \/ i = 2 \/ i = 3 \/ i = 4
    OBVIOUS
  <1>4. \A i \in 1 .. 4 : Sections[i] \in DOMAIN Fields
    BY <1>1, <1>2, <1>3, Zenon
  <1>5. \A i \in 1 .. 4 : Fields[Sections[i]] \subseteq AllFields
    BY <1>4, Zenon DEF AllFields
  <1>6. /\ Fields[Sections[1]] = {"serverIp", "port", "maxevents", "backlog",
             "WorkerThreadTaskMax", "timeCheckAcceptClient"}
        /\ Fields[Sections[2]] = {"LoggerName", "LogFilePath", "hour",
             "minutes", "flushCache"}
        /\ Fields[Sections[3]] = {"redisAddress", "redisPort"}
        /\ Fields[Sections[4]] = {"serverID"}
    BY <1>1 DEF Fields
  <1>7. ASSUME NEW i \in 1 .. 4, NEW j \in 1 .. 4,
               NEW f \in Fields[Sections[i]], f \in Fields[Sections[j]]
        PROVE  i = j
    BY <1>3, <1>6, <1>7, ZenonT(40)
  <1>8. \A i \in 1 .. 4 : "NULL" \notin Fields[Sections[i]]
    BY <1>3, <1>6
  <1> QED BY <1>1, <1>4, <1>5, <1>7, <1>8, Zenon

\* The elements of a section that was read are a sequence.
LEMMA EntriesType ==
  ASSUME NEW d \in Files, NEW s \in DOMAIN d.sec
  PROVE  /\ d.sec[s] \in Seq(Elements) /\ Len(d.sec[s]) \in Nat
         /\ \A n \in 1 .. Len(d.sec[s]) : d.sec[s][n] \in Elements
  <1>1. d.sec[s] \in Seq(Elements)
    BY FilesAssumption, Zenon
  <1> QED BY <1>1

\* So are those of the i-th section, none if the section was not there.
LEMMA EntriesLen ==
  ASSUME Types, NEW i \in 1 .. Len(read)
  PROVE  /\ Len(Entries(i)) \in Nat
         /\ \A n \in 1 .. Len(Entries(i)) : Entries(i)[n] \in Elements
  <1>1. read[i] \in Files
    BY DEF Types
  <1>2. CASE Found(i)
    BY <1>1, <1>2, EntriesType, Zenon DEF Entries, Found
  <1>3. CASE ~Found(i)
    <2>1. Entries(i) = <<>>
      BY <1>3, Zenon DEF Entries, Found
    <2> QED BY <2>1
  <1> QED BY <1>2, <1>3, Zenon

\* A setting keeps its value when its section's elements taken are the same.
LEMMA RightKept ==
  ASSUME NEW i \in 1 .. 4, NEW f, Right(i, f),
         i <= Len(read), i <= Len(read'), Len(read) \in Nat, Len(read') \in Nat,
         read'[i] = read[i], Taken(i)' = Taken(i),
         conf'[f] = conf[f], before' = before
  PROVE  Right(i, f)'
  <1>1. Entries(i)' = Entries(i)
    BY Zenon DEF Entries
  <1>2. For(i, f)' = For(i, f)
    BY <1>1, Zenon DEF For
  <1> QED BY <1>1, <1>2 DEF Right

\* The same elements are good when the file is the same.
LEMMA SameFile ==
  ASSUME NEW i, read'[i] = read[i]
  PROVE  /\ Entries(i)' = Entries(i) /\ Complete(i)' = Complete(i)
         /\ Found(i)' = Found(i)
         /\ \A n : Bad(i, n)' = Bad(i, n)
  <1>1. Entries(i)' = Entries(i) /\ Found(i)' = Found(i)
    BY Zenon DEF Entries, Found
  <1>2. \A n : Bad(i, n)' = Bad(i, n)
    BY <1>1, Zenon DEF Bad
  <1> QED BY <1>1, <1>2, Zenon DEF Complete

-----------------------------------------------------------------------------
(* The steps.                                                              *)

\* The constructor's state satisfies the invariant.
LEMMA InitHolds == Init => IInv
  <1> SUFFICES ASSUME Init PROVE IInv
    BY Zenon
  <1>2. Types
    <2>1. DOMAIN conf = AllFields
      BY Zenon DEF Init
    <2>2. read \in Seq(Files) /\ file \in Files /\ section = 0 /\ entry = 0
      BY DEF Init
    <2> QED BY <2>1, <2>2 DEF Types
  <1>3. Len(read) = 0 /\ \A i \in 1 .. 4 : i > Len(read)
    BY DEF Init
  <1>4. Reading /\ ResultTellsCompleteness
    BY <1>3 DEF Init, Reading, ResultTellsCompleteness
  <1>5. LoadAssignsPrefix
    BY <1>3, SectionFacts, Zenon DEF Init, LoadAssignsPrefix
  <1> QED BY <1>2, <1>4, <1>5, Zenon DEF IInv

\* A load begins: nothing is read and nothing assigned.
LEMMA LoadBegins ==
  ASSUME IInv, LoadServerConf
  PROVE  IInv'
  <1>1. /\ section' = 1 /\ entry' = 0 /\ before' = conf /\ read' = <<>>
        /\ result' = "none" /\ conf' = conf /\ file' = file
    BY Zenon DEF LoadServerConf
  <1>2. Types'
    BY <1>1 DEF IInv, Types
  <1>3. Len(read') = 0 /\ \A i \in 1 .. 4 : i > Len(read')
    BY <1>1
  <1>4. Reading' /\ ResultTellsCompleteness'
    BY <1>1, <1>3 DEF Reading, ResultTellsCompleteness
  <1>5. LoadAssignsPrefix'
    BY <1>1, <1>3, SectionFacts, Zenon DEF LoadAssignsPrefix
  <1> QED BY <1>2, <1>4, <1>5, Zenon DEF IInv

\* The file is replaced: the load goes on with what it has read.
LEMMA EditKeeps ==
  ASSUME IInv, Edit
  PROVE  IInv'
  <1>1. /\ UNCHANGED <<conf, section, entry, result, before, read>>
        /\ file' \in Files
    BY Zenon DEF Edit
  <1>2. Types'
    BY <1>1, Zenon DEF IInv, Types
  <1>3. \A i : /\ Entries(i)' = Entries(i) /\ Complete(i)' = Complete(i)
               /\ Found(i)' = Found(i) /\ \A n : Bad(i, n)' = Bad(i, n)
    BY <1>1, SameFile, Zenon
  <1>4. Reading' /\ ResultTellsCompleteness'
    BY <1>1, <1>3, Zenon DEF IInv, Reading, ResultTellsCompleteness
  <1>5. \A i, f : For(i, f)' = For(i, f)
    BY <1>1, <1>3, Zenon DEF For, Taken, Passed
  <1>6. LoadAssignsPrefix'
    BY <1>1, <1>3, <1>5, Zenon DEF IInv, LoadAssignsPrefix
  <1> QED BY <1>2, <1>4, <1>6, Zenon DEF IInv

\* The elements taken of a section the load is not at.
LEMMA TakenElsewhere ==
  ASSUME NEW i, i # section, i # section', read'[i] = read[i]
  PROVE  Taken(i)' = Taken(i)
  <1>1. Entries(i)' = Entries(i) /\ \A n : Bad(i, n)' = Bad(i, n)
    BY SameFile, Zenon
  <1>2. Passed(i)' = Passed(i)
    BY <1>1, Zenon DEF Passed
  <1> QED BY <1>1, <1>2, Zenon DEF Taken

\* Nothing is read of a section the load has not come to.
LEMMA RightAhead ==
  ASSUME NEW i \in 1 .. 4, NEW f, Right(i, f), i > Len(read), i > Len(read'),
         Len(read) \in Nat, Len(read') \in Nat,
         conf'[f] = conf[f], before' = before
  PROVE  Right(i, f)'
  BY DEF Right

\* A section's file is parsed: none of its elements is passed yet, and if the
\* section is not there none ever is.
LEMMA LoadFileKeeps ==
  ASSUME IInv, LoadFile, NEW k \in 1 .. 4, section = k
  PROVE  IInv'
  <1>0. /\ entry = 0 /\ Len(read) = k - 1 /\ k \in Nat
        /\ read \in Seq(Files) /\ file \in Files /\ DOMAIN conf = AllFields
        /\ result = "none"
    BY DEF IInv, Types, Reading, LoadFile
  <1>1. /\ read' = Append(read, file)
        /\ UNCHANGED <<file, conf, before>>
    BY Zenon DEF LoadFile
  <1>2. /\ read' \in Seq(Files) /\ Len(read') = k
        /\ read'[k] = file
        /\ \A i \in 1 .. k - 1 : read'[i] = read[i]
    BY <1>0, <1>1
  <1>3. \A i \in 1 .. k - 1 : Complete(i)'
    BY <1>0, <1>2, SameFile DEF IInv, Reading
  <1>4. \/ Found(k)' /\ entry' = 1 /\ section' = k /\ result' = result
        \/ ~(file.ok /\ Sections[k] \in DOMAIN file.sec) /\ Ends("false")
    <2>1. CASE file.ok /\ Sections[k] \in DOMAIN file.sec
      <3>1. Found(k)'
        BY <1>2, <2>1, Zenon DEF Found
      <3>2. entry' = 1 /\ section' = k /\ result' = result
        BY <2>1, Zenon DEF LoadFile
      <3> QED BY <3>1, <3>2, Zenon
    <2>2. CASE ~(file.ok /\ Sections[k] \in DOMAIN file.sec)
      BY <2>2, Zenon DEF LoadFile
    <2> QED BY <2>1, <2>2, Zenon
  <1>5. Types'
    BY <1>0, <1>1, <1>2, <1>4 DEF Types, Ends
  <1>6. Len(Entries(k)') \in Nat
    <2>1. k \in 1 .. Len(read')
      BY <1>0, <1>2
    <2> QED BY <1>0, <1>1, <1>2, EntriesType, Zenon DEF Entries
  <1>7. Reading'
    <2>1. CASE Ends("false")
      BY <1>0, <1>2, <2>1 DEF Reading, Ends
    <2>2. CASE Found(k)' /\ entry' = 1 /\ section' = k
               /\ result' = result
      <3>1. Len(Entries(section)') \in Nat /\ Found(section)'
        BY <1>6, <2>2, Zenon
      <3> QED BY <1>0, <1>2, <1>3, <2>2, <3>1 DEF Reading
    <2> QED BY <1>4, <2>1, <2>2, Zenon
  <1>8. ResultTellsCompleteness'
    <2>1. CASE Ends("false")
      <3>1. result' = "false" /\ \A i \in 1 .. Len(read') - 1 : Complete(i)'
        BY <1>0, <1>2, <1>3, <2>1, Zenon DEF Ends
      <3>2. CASE k = 4
        <4>1. ~Complete(k)'
          BY <1>2, <1>4, <2>1, <1>0, Zenon DEF Complete, Ends
        <4> QED BY <3>1, <4>1, <1>2, Zenon DEF ResultTellsCompleteness
      <3>3. CASE k # 4
        BY <3>1, <3>3, <1>2, SectionFacts, Zenon DEF ResultTellsCompleteness
      <3> QED BY <3>2, <3>3, Zenon
    <2>2. CASE section' = k
      BY <1>0, <2>2 DEF ResultTellsCompleteness
    <2> QED BY <1>4, <2>1, <2>2, Zenon
  <1>9. ASSUME NEW i \in 1 .. 4, NEW f \in Fields[Sections[i]]
        PROVE  Right(i, f)'
    <2>0. Right(i, f) /\ conf'[f] = conf[f]
      BY <1>1, SectionFacts, Zenon DEF IInv, LoadAssignsPrefix, Right
    <2>1. CASE i < k
      <3>1. read'[i] = read[i] /\ i # section /\ i # section'
        BY <1>0, <1>2, <1>4, <2>1 DEF Ends
      <3>2. Taken(i)' = Taken(i)
        BY <3>1, TakenElsewhere, Zenon
      <3> QED BY <1>0, <1>1, <1>2, <2>0, <2>1, <3>1, <3>2, RightKept
    <2>2. CASE i = k
      <3>1. conf[f] = before[f]
        BY <2>0, <2>2, <1>0 DEF Right
      <3>2. Passed(i)' = 0
        <4>1. CASE Ends("false")
          <5>1. Entries(i)' = <<>>
            BY <1>2, <1>4, <2>2, <4>1, <1>0, Zenon DEF Entries, Ends
          <5> QED BY <5>1, <4>1, <2>2, <1>0 DEF Passed, Ends
        <4>2. CASE entry' = 1 /\ section' = k
          BY <4>2, <2>2 DEF Passed
        <4> QED BY <1>4, <4>1, <4>2, Zenon
      <3>3. For(i, f)' = {}
        BY <3>2 DEF For, Taken
      <3> QED BY <3>1, <3>3, <1>1, Zenon DEF Right
    <2>3. CASE i > k
      BY <1>0, <1>1, <1>2, <2>0, <2>3, RightAhead
    <2> QED BY <2>1, <2>2, <2>3, <1>0
  <1>10. LoadAssignsPrefix'
    BY <1>9, SectionFacts, Zenon DEF LoadAssignsPrefix, Right
  <1> QED BY <1>5, <1>7, <1>8, <1>10, Zenon DEF IInv

\* The loop is at element n of section k: the sections before are complete,
\* and the element is not before the first bad one.
LEMMA AtElement ==
  ASSUME IInv, NEW k \in 1 .. 4, section = k, NEW n \in Nat \ {0}, entry = n
  PROVE  /\ Len(read) = k /\ k \in Nat /\ read \in Seq(Files)
         /\ DOMAIN conf = AllFields /\ result = "none"
         /\ \A i \in 1 .. k - 1 : Complete(i)
         /\ Found(k) /\ n <= Len(Entries(k)) + 1 /\ Len(Entries(k)) \in Nat
         /\ \A m \in 1 .. n - 1 : ~Bad(k, m)
         /\ Taken(k) = 1 .. n - 1
         /\ file \in Files
  <1>1. /\ Len(read) = k /\ k \in Nat /\ read \in Seq(Files)
        /\ DOMAIN conf = AllFields /\ result = "none" /\ file \in Files
        /\ \A i \in 1 .. k - 1 : Complete(i)
        /\ Found(k) /\ n <= Len(Entries(k)) + 1
        /\ \A m \in 1 .. n - 1 : ~Bad(k, m)
    BY DEF IInv, Types, Reading
  <1>2. Len(Entries(k)) \in Nat
    <2>1. k \in 1 .. Len(read)
      BY <1>1
    <2> QED BY <2>1, EntriesLen, Zenon DEF IInv
  <1>3. Passed(k) = n - 1
    BY Zenon DEF Passed
  <1>4. \A x \in 1 .. n - 1 : \A m \in 1 .. x : m \in 1 .. n - 1
    OBVIOUS
  <1>5. Taken(k) = 1 .. n - 1
    BY <1>1, <1>3, <1>4, Zenon DEF Taken
  <1> QED BY <1>1, <1>2, <1>5, Zenon

\* An element is assigned: it is the last one taken for its setting.
LEMMA AssignKeeps ==
  ASSUME IInv, NEW k \in 1 .. 4, section = k, NEW n \in Nat \ {0}, entry = n,
         n <= Len(Entries(k)), Assign(Entries(k)[n]),
         UNCHANGED <<file, before, read>>
  PROVE  IInv'
  <1> DEFINE e == Entries(k)[n]
  <1>0. /\ Len(read) = k /\ k \in Nat /\ read \in Seq(Files)
        /\ DOMAIN conf = AllFields /\ result = "none" /\ file \in Files
        /\ \A i \in 1 .. k - 1 : Complete(i)
        /\ Found(k) /\ Len(Entries(k)) \in Nat
        /\ \A m \in 1 .. n - 1 : ~Bad(k, m)
        /\ Taken(k) = 1 .. n - 1
    BY AtElement, Zenon
  <1>1. /\ e.type \in Fields[Sections[k]] /\ ~e.null
        /\ conf' = [conf EXCEPT ![e.type] = Stored(e.type, e.value)]
        /\ entry' = n + 1 /\ section' = k /\ result' = result
    BY Zenon DEF Assign
  <1>2. ~Bad(k, n)
    BY <1>1, Zenon DEF Bad
  <1> HIDE DEF e
  <1>3. \A i : /\ Entries(i)' = Entries(i) /\ Complete(i)' = Complete(i)
               /\ Found(i)' = Found(i) /\ \A m : Bad(i, m)' = Bad(i, m)
    BY SameFile, Zenon
  <1>4. Types'
    BY <1>0, <1>1 DEF Types
  <1>5. \A m \in 1 .. n : ~Bad(k, m)'
    BY <1>0, <1>2, <1>3
  <1>6. Reading'
    BY <1>0, <1>1, <1>3, <1>5 DEF Reading
  <1>7. ResultTellsCompleteness'
    BY <1>1 DEF ResultTellsCompleteness
  <1>8. Taken(k)' = 1 .. n
    <2>1. Passed(k)' = n
      BY <1>1 DEF Passed
    <2>2. \A x \in 1 .. n : \A m \in 1 .. x : m \in 1 .. n
      OBVIOUS
    <2> QED BY <2>1, <2>2, <1>5, Zenon DEF Taken
  <1>9. ASSUME NEW i \in 1 .. 4, NEW f \in Fields[Sections[i]]
        PROVE  Right(i, f)'
    <2>0. Right(i, f) /\ f \in DOMAIN conf
      BY <1>0, SectionFacts, Zenon DEF IInv, LoadAssignsPrefix, Right
    <2>1. CASE f = e.type
      <3>1. i = k
        BY <1>1, <2>1, SectionFacts, Zenon
      <3>2. n \in For(k, f)' /\ \A m \in For(k, f)' : m <= n
        BY <1>3, <1>8, <2>1 DEF For, e
      <3>3. conf'[f] = Stored(f, Entries(k)'[n].value)
        BY <1>1, <1>3, <2>0, <2>1, Zenon DEF e
      <3>4. i <= Len(read')
        BY <1>0, <3>1
      <3> QED BY <3>1, <3>2, <3>3, <3>4, Zenon DEF Right
    <2>2. CASE f # e.type
      <3>0. conf'[f] = conf[f]
        BY <1>1, <2>0, <2>2, Zenon
      <3>1. CASE i > k
        BY <1>0, <2>0, <3>0, <3>1, RightAhead, Zenon
      <3>2. CASE i < k
        <4>1. Taken(i)' = Taken(i)
          BY <1>1, <3>2, <1>0, TakenElsewhere
        <4> QED BY <1>0, <2>0, <3>0, <3>2, <4>1, RightKept
      <3>3. CASE i = k
        <4>1. n \notin For(k, f)' /\ For(k, f)' = For(k, f)
          <5>1. \A m : m \in 1 .. n <=> m \in 1 .. n - 1 \/ m = n
            OBVIOUS
          <5> QED BY <5>1, <1>0, <1>3, <1>8, <2>2, Zenon DEF For, e
        <4> QED BY <4>1, <1>0, <1>3, <2>0, <3>0, <3>3, Zenon DEF Right
      <3> QED BY <3>1, <3>2, <3>3, <1>0
    <2> QED BY <2>1, <2>2, Zenon
  <1>10. LoadAssignsPrefix'
    BY <1>9, SectionFacts, Zenon DEF LoadAssignsPrefix, Right
  <1> QED BY <1>4, <1>6, <1>7, <1>10, Zenon DEF IInv

\* A bad element ends the load: it cuts off the elements behind it.
LEMMA BadEnds ==
  ASSUME IInv, NEW k \in 1 .. 4, section = k, NEW n \in Nat \ {0}, entry = n,
         n <= Len(Entries(k)), Bad(k, n), NEW r, r # "true", r # "none", Ends(r),
         UNCHANGED <<file, conf, before, read>>
  PROVE  IInv'
  <1>0. /\ Len(read) = k /\ k \in Nat /\ read \in Seq(Files)
        /\ DOMAIN conf = AllFields /\ file \in Files
        /\ \A i \in 1 .. k - 1 : Complete(i)
        /\ Len(Entries(k)) \in Nat
        /\ \A m \in 1 .. n - 1 : ~Bad(k, m)
        /\ Taken(k) = 1 .. n - 1
    BY AtElement, Zenon
  <1>1. section' = 0 /\ entry' = 0 /\ result' = r
    BY Zenon DEF Ends
  <1>3. \A i : /\ Entries(i)' = Entries(i) /\ Complete(i)' = Complete(i)
               /\ \A m : Bad(i, m)' = Bad(i, m)
    BY SameFile, Zenon
  <1>4. Types' /\ Reading'
    BY <1>0, <1>1 DEF Types, Reading
  <1>5. ResultTellsCompleteness'
    <2>1. ~Complete(k)'
      BY <1>0, <1>3 DEF Complete
    <2> QED BY <1>0, <1>1, <1>3, <2>1, Zenon DEF ResultTellsCompleteness
  <1>6. Taken(k)' = Taken(k)
    <2>1. Passed(k)' = Len(Entries(k))
      BY <1>1, <1>3 DEF Passed
    <2>2. Taken(k)' = {x \in 1 .. Len(Entries(k)) : \A m \in 1 .. x : ~Bad(k, m)}
      BY <1>3, <2>1, Zenon DEF Taken
    <2>3. ASSUME NEW x \in 1 .. Len(Entries(k)), \A m \in 1 .. x : ~Bad(k, m)
          PROVE  x \in 1 .. n - 1
      <3>1. n \notin 1 .. x
        BY <2>3, Zenon
      <3> QED BY <3>1, <1>0
    <2>4. \A x \in 1 .. n - 1 : x \in 1 .. Len(Entries(k))
                               /\ \A m \in 1 .. x : m \in 1 .. n - 1
      BY <1>0
    <2> QED BY <1>0, <2>2, <2>3, <2>4, Zenon
  <1>7. ASSUME NEW i \in 1 .. 4, NEW f \in Fields[Sections[i]]
        PROVE  Right(i, f)'
    <2>0. Right(i, f)
      BY SectionFacts, Zenon DEF IInv, LoadAssignsPrefix, Right
    <2>1. CASE i > k
      BY <1>0, <2>0, <2>1, RightAhead, Zenon
    <2>2. CASE i < k
      <3>1. Taken(i)' = Taken(i)
        BY <1>0, <1>1, <2>2, TakenElsewhere
      <3> QED BY <1>0, <2>0, <2>2, <3>1, RightKept
    <2>3. CASE i = k
      BY <1>0, <1>6, <2>0, <2>3, RightKept
    <2> QED BY <2>1, <2>2, <2>3, <1>0
  <1>8. LoadAssignsPrefix'
    BY <1>7, SectionFacts, Zenon DEF LoadAssignsPrefix, Right
  <1> QED BY <1>4, <1>5, <1>8, Zenon DEF IInv

\* A section is loaded to its end, and the next one begins or the load ends.
LEMMA SectionKeeps ==
  ASSUME IInv, SectionLoaded, NEW k \in 1 .. 4, section = k
  PROVE  IInv'
  <1>1. /\ entry > 0 /\ entry > Len(Entries(k))
        /\ UNCHANGED <<file, conf, before, read>>
    BY Zenon DEF SectionLoaded
  <1>2. PICK n \in Nat \ {0} : entry = n
    BY <1>1 DEF IInv, Types
  <1>a. /\ Len(read) = k /\ k \in Nat /\ read \in Seq(Files)
        /\ DOMAIN conf = AllFields /\ file \in Files /\ result = "none"
        /\ \A i \in 1 .. k - 1 : Complete(i)
        /\ Found(k) /\ Len(Entries(k)) \in Nat /\ n <= Len(Entries(k)) + 1
        /\ \A m \in 1 .. n - 1 : ~Bad(k, m)
        /\ Taken(k) = 1 .. n - 1
    BY <1>2, AtElement, Zenon
  <1>b. n - 1 = Len(Entries(k))
    BY <1>a, <1>1, <1>2
  <1>0. /\ Len(read) = k /\ k \in Nat /\ read \in Seq(Files)
        /\ DOMAIN conf = AllFields /\ file \in Files /\ result = "none"
        /\ \A i \in 1 .. k - 1 : Complete(i)
        /\ Found(k) /\ Len(Entries(k)) \in Nat
        /\ \A m \in 1 .. Len(Entries(k)) : ~Bad(k, m)
    BY Zenon, <1>a, <1>b
  <1>3. \A i : /\ Entries(i)' = Entries(i) /\ Complete(i)' = Complete(i)
               /\ \A m : Bad(i, m)' = Bad(i, m)
    BY <1>1, SameFile, Zenon
  <1>4. \A i \in 1 .. k : Complete(i)'
    <2>1. Complete(k)
      BY <1>0, Zenon DEF Complete, Found
    <2> QED BY <1>0, <1>3, <2>1
  <1>5. \/ k < 4 /\ section' = k + 1 /\ entry' = 0 /\ result' = "none"
        \/ k = 4 /\ section' = 0 /\ entry' = 0 /\ result' = "true"
    BY <1>0, SectionFacts DEF SectionLoaded, Ends
  <1>6. Types'
    BY <1>0, <1>1, <1>5 DEF Types
  <1>7. Reading'
    BY <1>0, <1>1, <1>4, <1>5 DEF Reading
  <1>8. ResultTellsCompleteness'
    BY <1>0, <1>1, <1>4, <1>5, SectionFacts DEF ResultTellsCompleteness
  <1>9. Taken(k)' = Taken(k)
    <2>1. Passed(k)' = Len(Entries(k)) /\ Passed(k) = Len(Entries(k))
      BY <1>0, <1>b, <1>2, <1>3, <1>5 DEF Passed
    <2> QED BY <1>3, <2>1, Zenon DEF Taken
  <1>10. ASSUME NEW i \in 1 .. 4, NEW f \in Fields[Sections[i]]
        PROVE  Right(i, f)'
    <2>0. Right(i, f)
      BY SectionFacts, Zenon DEF IInv, LoadAssignsPrefix, Right
    <2>1. CASE i > k
      BY <1>0, <1>1, <2>0, <2>1, RightAhead, Zenon
    <2>2. CASE i < k
      <3>1. Taken(i)' = Taken(i)
        BY <1>0, <1>1, <1>5, <2>2, TakenElsewhere
      <3> QED BY <1>0, <1>1, <2>0, <2>2, <3>1, RightKept
    <2>3. CASE i = k
      BY <1>0, <1>1, <1>9, <2>0, <2>3, RightKept
    <2> QED BY <2>1, <2>2, <2>3, <1>0
  <1>11. LoadAssignsPrefix'
    BY <1>10, SectionFacts, Zenon DEF LoadAssignsPrefix, Right
  <1> QED BY <1>6, <1>7, <1>8, <1>11, Zenon DEF IInv

-----------------------------------------------------------------------------
(* The theorems.                                                           *)

\* Every step preserves the invariant.
LEMMA StepKeeps == IInv /\ [Next]_vars => IInv'
  <1> SUFFICES ASSUME IInv, [Next]_vars PROVE IInv'
    BY Zenon
  <1>0. section \in 0 .. 4 /\ entry \in Nat
    BY Zenon DEF IInv, Types
  <1>1. CASE LoadServerConf
    BY <1>1, LoadBegins, Zenon
  <1>2. CASE LoadFile
    BY <1>0, <1>2, LoadFileKeeps DEF LoadFile
  <1>3. CASE LoadElement
    <2>1. PICK k \in 1 .. 4, n \in Nat \ {0} :
             k = section /\ n = entry /\ n <= Len(Entries(k))
      BY <1>0, <1>3 DEF LoadElement
    <2> DEFINE e == Entries(k)[n]
    <2>2. /\ Assign(e) \/ MissingAttribute(e) \/ UnknownType(e)
          /\ UNCHANGED <<file, before, read>>
      BY <1>3, <2>1, Zenon DEF LoadElement
    <2>3. CASE Assign(e)
      BY <2>1, <2>2, <2>3, AssignKeeps, Zenon
    <2>4. CASE MissingAttribute(e)
      <3>1. Bad(k, n) /\ Ends("crashed") /\ conf' = conf
        BY <2>1, <2>4, SectionFacts, Zenon DEF MissingAttribute, Bad
      <3> QED BY <2>1, <2>2, <3>1, BadEnds, Zenon
    <2>5. CASE UnknownType(e)
      <3>1. Bad(k, n) /\ Ends("false") /\ conf' = conf
        BY <2>1, <2>5, Zenon DEF UnknownType, Bad
      <3> QED BY <2>1, <2>2, <3>1, BadEnds, Zenon
    <2> QED BY <2>2, <2>3, <2>4, <2>5, Zenon
  <1>4. CASE SectionLoaded
    BY <1>0, <1>4, SectionKeeps DEF SectionLoaded
  <1>5. CASE Edit
    BY <1>5, EditKeeps, Zenon
  <1>6. CASE UNCHANGED vars
    <2>1. UNCHANGED <<file, conf, section, entry, result, before, read>>
      BY <1>6, Zenon DEF vars
    <2>2. Types'
      BY <2>1, Zenon DEF IInv, Types
    <2>3. \A i : /\ Entries(i)' = Entries(i) /\ Complete(i)' = Complete(i)
                 /\ Found(i)' = Found(i) /\ \A n : Bad(i, n)' = Bad(i, n)
      BY <2>1, SameFile, Zenon
    <2>4. Reading' /\ ResultTellsCompleteness'
      BY <2>1, <2>3, Zenon DEF IInv, Reading, ResultTellsCompleteness
    <2>5. \A i, f : For(i, f)' = For(i, f)
      BY <2>1, <2>3, Zenon DEF For, Taken, Passed
    <2>6. LoadAssignsPrefix'
      BY <2>1, <2>3, <2>5, Zenon DEF IInv, LoadAssignsPrefix
    <2> QED BY <2>2, <2>4, <2>6, Zenon DEF IInv
  <1> QED BY <1>1, <1>2, <1>3, <1>4, <1>5, <1>6, Zenon DEF Next

\* LoadServerConf assigns a prefix of the configuration, for all contents of
\* the file and all edits of it during a load.
THEOREM LoadsPrefix == Spec => []LoadAssignsPrefix
  <1>1. IInv => LoadAssignsPrefix
    BY Zenon DEF IInv
  <1> QED BY <1>1, InitHolds, StepKeeps, PTL DEF Spec

\* LoadServerConf's result tells whether all four sections were read to their
\* end, and a failure is in the last section read.
THEOREM ResultTells == Spec => []ResultTellsCompleteness
  <1>1. IInv => ResultTellsCompleteness
    BY Zenon DEF IInv
  <1> QED BY <1>1, InitHolds, StepKeeps, PTL DEF Spec
=============================================================================
