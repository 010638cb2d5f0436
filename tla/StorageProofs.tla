--------------------------- MODULE StorageProofs ---------------------------
(* The first run of a storage, for every partition duration, every number   *)
(* of calls, partitions and crashes: with one flush at a time, and calls    *)
(* whose rows are newer than those of the calls before, no row is lost.     *)
EXTENDS StorageFlush

-----------------------------------------------------------------------------
(* The steps that take a partition out of the list keep the invariant *)

(* Where the memory partitions are in the list *)
Layout ==
    /\ IsMemory(head)
    /\ Second # 0 => IsMemory(Second)
    /\ \A n \in Listed : n \in {head, Second, Third} \/ IsDisk(n)
    /\ \A n \in DOMAIN parts :
          n = Third \/ IsDisk(n) => parts[n].next = 0 \/ IsDisk(parts[n].next)

(* remove, of a partition that is not a writable one: what holds of the     *)
(* list afterwards                                                          *)
LEMMA UnlinkFrame ==
    ASSUME Running, NEW m \in Listed, m # head, m # Second, remove(m),
           UNCHANGED <<client, newest>>, client.pc = "punctuate" => UNCHANGED flusher
    PROVE  /\ head' = head /\ Linked(parts', head', newest')
           /\ DOMAIN parts' = DOMAIN parts /\ Listed' = Listed \ {m}
           /\ Second' = Second /\ Third' = IF Third = m THEN parts[m].next ELSE Third
           /\ \A n \in DOMAIN parts :
                 /\ parts'[n].kind = parts[n].kind
                 /\ IsDisk(n)' = IsDisk(n) /\ IsMemory(n)' = IsMemory(n)
                 /\ DirOf(n)' = DirOf(n) /\ Rows(n)' = Rows(n)
                 /\ parts'[n].next = IF n \in Listed /\ parts[n].next = m
                                     THEN parts[m].next ELSE parts[n].next
           /\ parts[m].next = 0 \/ IsDisk(parts[m].next)
           /\ Filled' /\ Apart' /\ Layout' /\ Calling'
<1>1. /\ Typed /\ Linked(parts, head, newest) /\ Filled /\ Apart /\ Shape /\ Calling
  BY DEF Running
<1>0. PICK second, third, u : second = Second /\ third = Third /\ u = parts[m].next
  BY SMTT(30)
<1>2. /\ Places(head, second, third) /\ Listed \subseteq DOMAIN parts /\ 0 \notin DOMAIN parts
      /\ \A n \in DOMAIN parts : parts[n] \in Partition
      /\ \A n \in DOMAIN parts : parts[n].next # 0 => parts[n].next \in DOMAIN parts
      /\ \A n \in DOMAIN parts : parts[n].next # n
  BY <1>0, <1>1, ListPlaces, Zenon
<1>3. /\ head' = head /\ Linked(parts', head', newest)
      /\ DOMAIN parts' = DOMAIN parts /\ Listed' = Listed \ {m}
      /\ \A n \in DOMAIN parts :
            /\ SameBut(parts'[n], parts[n])
            /\ parts'[n].next = IF n \in Listed /\ parts[n].next = m THEN u ELSE parts[n].next
  BY <1>0, <1>1, RemoveFacts, Zenon
<1>4. \A n \in DOMAIN parts :
         /\ parts'[n].kind = parts[n].kind /\ parts'[n].min = parts[n].min /\ parts'[n].max = parts[n].max
         /\ parts'[n].points = parts[n].points /\ parts'[n].late = parts[n].late
         /\ IsDisk(n)' = IsDisk(n) /\ IsMemory(n)' = IsMemory(n)
         /\ DirOf(n)' = DirOf(n) /\ Rows(n)' = Rows(n)
  BY <1>3, Zenon DEF SameBut, IsDisk, IsMemory, DirOf, Rows, RowsIn
<1>5. m \in DOMAIN parts /\ head \in DOMAIN parts /\ head \in Listed
      /\ (second # 0 => second \in DOMAIN parts /\ second \in Listed)
  BY <1>2, Zenon DEF Places
<1>6. Second' = second
  BY <1>0, <1>3, <1>5, Zenon DEF Second
<1>7. Third' = IF third = m THEN u ELSE third
  <2>1. CASE second = 0
    <3>1. third = 0 /\ Third' = 0
      BY <1>0, <1>6, <2>1, Zenon DEF Third
    <3> QED BY <1>2, <1>5, <3>1, Zenon
  <2>2. CASE second # 0
    <3>1. third = parts[second].next /\ Third' = parts'[second].next
      BY <1>0, <1>6, <2>2, Zenon DEF Third
    <3> QED BY <1>3, <1>5, <2>2, <3>1, Zenon
  <2> QED BY <2>1, <2>2, Zenon
<1>8. u = 0 \/ IsDisk(u)
  <2>1. m = third \/ IsDisk(m)
    BY <1>0, <1>1, SMTT(30) DEF Shape
  <2> QED BY <1>0, <1>1, <1>5, <2>1, Zenon DEF Shape
<1>9. Filled'
  <2> USE DEF Filled
  <2>1. TAKE n \in DOMAIN parts'
  <2>2. n \in DOMAIN parts
    BY <1>3, Zenon
  <2>3. /\ parts[n].min <= parts[n].max
        /\ parts[n].min = 0 =>
              n = head /\ parts[n].max = 0 /\ parts[n].points = <<>> /\ parts[n].late = <<>>
        /\ parts[n].min > 0 /\ parts[n].kind = "memory" => parts[n].points # <<>>
    BY <1>1, <2>2, Zenon DEF Filled
  <2>4. /\ parts'[n].kind = parts[n].kind /\ parts'[n].min = parts[n].min /\ parts'[n].max = parts[n].max
        /\ parts'[n].points = parts[n].points /\ parts'[n].late = parts[n].late
    BY <1>4, <2>2, Zenon
  <2> QED BY <1>3, <2>3, <2>4, Zenon
<1>10. Apart'
  <2>1. ASSUME NEW j \in DOMAIN parts', NEW k \in DOMAIN parts',
               j \in Listed' \/ IsDisk(j)', k \in Listed' \/ IsDisk(k)', parts'[j].min = parts'[k].min
        PROVE  j = k
    <3>1. /\ j \in DOMAIN parts /\ k \in DOMAIN parts /\ parts[j].min = parts[k].min
          /\ (j \in Listed \/ IsDisk(j)) /\ (k \in Listed \/ IsDisk(k))
      BY <1>3, <1>4, <2>1, Zenon
    <3> QED BY <1>1, <3>1 DEF Apart
  <2> QED BY <2>1 DEF Apart
<1>11. Layout'
  <2>1. IsMemory(head)' /\ (second # 0 => IsMemory(second)')
    <3>1. IsMemory(head) /\ (second # 0 => IsMemory(second))
      BY <1>0, <1>1, Zenon DEF Shape
    <3> QED BY <1>3, <1>4, <1>5, <3>1, Zenon DEF IsMemory
  <2>2. \A n \in Listed' : n \in {head', second, Third'} \/ IsDisk(n)'
    BY <1>0, <1>1, <1>2, <1>3, <1>4, <1>7, ZenonT(60) DEF Shape
  <2>3. ASSUME NEW n \in DOMAIN parts', n = Third' \/ IsDisk(n)'
        PROVE  (parts[n].next = 0 \/ IsDisk(parts[n].next))'
    <3>1. n \in DOMAIN parts /\ (n = third \/ IsDisk(n))
      <4>1. n \in DOMAIN parts
        BY <1>3, Zenon
      <4>2. CASE IsDisk(n)'
        BY <1>4, <4>1, <4>2, Zenon
      <4>3. CASE n = Third'
        BY <1>2, <1>7, <1>8, <4>1, <4>3, Zenon
      <4> QED BY <2>3, <4>1, <4>2, <4>3, Zenon
    <3>2. PICK v : v = parts'[n].next
      BY Zenon
    <3>3. v = 0 \/ IsDisk(v)
      <4>1. parts[n].next = 0 \/ IsDisk(parts[n].next)
        BY <1>0, <1>1, <3>1, Zenon DEF Shape
      <4> QED BY <1>3, <1>8, <3>1, <3>2, <4>1, Zenon
    <3>4. v = 0 \/ IsDisk(v)'
      BY <1>4, <3>3 DEF IsDisk
    <3> QED BY <3>2, <3>4, Zenon DEF IsDisk
  <2> QED BY <1>6, <2>1, <2>2, <2>3, Zenon DEF Layout, IsMemory
<1>12. Calling'
  <2>1. client' = client /\ newest' = newest
    OBVIOUS
  <2>2. client.pc = "idle" => \A n \in DOMAIN parts' : parts'[n].max <= newest
    BY <1>1, <1>3, <1>4, Zenon DEF Calling
  <2>3. client.pc # "idle" => \A k \in DOMAIN client.rows : \A n \in DOMAIN parts' :
            parts'[n].max < client.rows[k].ts
    BY <1>1, <1>3, <1>4, Zenon DEF Calling
  <2>4. client.pc = "punctuate" => Second' # 0 /\ parts'[head'].min = 0 /\ flusher'[1].pc = "idle"
    BY <1>0, <1>1, <1>3, <1>4, <1>5, <1>6, Zenon DEF Calling
  <2> QED BY <1>1, <1>3, <2>1, <2>2, <2>3, <2>4, Zenon DEF Calling
<1>13. Linked(parts', head', newest')
  BY <1>3, Zenon
<1> QED BY <1>0, <1>3, <1>4, <1>6, <1>7, <1>8, <1>9, <1>10, <1>11, <1>12, <1>13, ZenonT(60)

(* Without a data path, a flush only drops the third partition. *)
LEMMA RemoveInMemoryKeeps ==
    ASSUME Running, RemoveInMemory(1)
    PROVE  Running'
<1>1. /\ Typed /\ Linked(parts, head, newest) /\ Shape /\ Calling /\ FlushState
      /\ Directories /\ Holding /\ Segments
  BY Zenon DEF Running
<1>0. PICK m, u : m = flusher[1].at /\ u = parts[m].next
  BY Zenon
<1>2. /\ flusher[1].pc = "visit" /\ m # 0 /\ parts[m].kind = "memory" /\ scenario.mode = "memory"
      /\ UNCHANGED <<client, newest>> /\ client' = client /\ newest' = newest
      /\ UNCHANGED <<wal, dirs, sweep, closer, expired, acked, calls, scenario>>
  BY <1>0, Zenon DEF RemoveInMemory, At, history
<1>3. m = Third /\ IsMemory(m) /\ client.pc # "punctuate"
  BY <1>0, <1>1, <1>2, Zenon DEF FlushState, IsDisk, Calling
<1>4. m \in DOMAIN parts /\ m \in Listed /\ m # head /\ m # Second /\ Listed \subseteq DOMAIN parts
      /\ 0 \notin DOMAIN parts /\ parts[m].next \in Nat
  <2>1. Places(head, Second, m) /\ Listed \subseteq DOMAIN parts /\ 0 \notin DOMAIN parts
        /\ \A n \in DOMAIN parts : parts[n] \in Partition
    BY <1>1, <1>3, ListPlaces, Zenon
  <2> QED BY <1>2, <2>1, Zenon DEF Places, Partition
<1>5. Match(m) = m
  BY <1>4, MatchOwn, Zenon
<1>6. /\ remove(m) /\ Advance(1) /\ retired' = retired \cup Rows(m)
  <2>1. /\ remove(m) /\ Advance(1)
        /\ retired' = retired \cup Range(parts[m].points) \cup Range(parts[m].late)
    BY <1>0, <1>2, <1>5, Zenon DEF RemoveInMemory
  <2> QED BY <2>1, Zenon DEF Rows, RowsIn
<1>7. /\ head' = head /\ Linked(parts', head', newest')
      /\ DOMAIN parts' = DOMAIN parts /\ Listed' = Listed \ {m}
      /\ Second' = Second /\ Third' = u
      /\ \A n \in DOMAIN parts :
            /\ parts'[n].kind = parts[n].kind
            /\ IsDisk(n)' = IsDisk(n) /\ DirOf(n)' = DirOf(n) /\ Rows(n)' = Rows(n)
      /\ u = 0 \/ IsDisk(u)
      /\ Filled' /\ Apart' /\ Layout' /\ Calling'
  BY <1>0, <1>2, <1>3, <1>4, <1>6, UnlinkFrame, Zenon
<1>8. IsDisk(u) => IsDisk(u)'
  BY <1>7, Zenon DEF IsDisk
<1>9. flusher' \in [{1} -> Flush] /\ flusher'[1].pc = "visit" /\ flusher'[1].at = u
  <2>1. flusher' = [flusher EXCEPT ![1].pc = "visit", ![1].at = parts[@].next]
    BY <1>6, Zenon DEF Advance
  <2> QED BY <1>0, <1>1, <1>4, <2>1, Zenon DEF Typed, Flush
<1>10. Typed'
  BY <1>1, <1>2, <1>9, Zenon DEF Typed, wal
<1>11. ~ IsMemory(Third)'
  BY <1>4, <1>7, <1>8, ZenonT(60) DEF IsMemory, IsDisk
<1>12. Shape'
  BY <1>7, <1>11, Zenon DEF Shape, Layout
<1>13. FlushState'
  BY <1>7, <1>8, <1>9, Zenon DEF FlushState, Flushing
<1>14. Directories'
  <2>1. /\ \A d \in DOMAIN dirs :
              dirs[d].meta = "valid" /\ \E n \in DOMAIN parts : IsDisk(n)' /\ d = DirOf(n)'
        /\ \A n \in Listed' : IsDisk(n)' => Valid(DirOf(n))
        /\ \A d \in expired :
              /\ \E n \in DOMAIN parts : IsDisk(n)' /\ d = DirOf(n)'
              /\ d \in DOMAIN dirs => Range(dirs[d].data) \subseteq retired
    BY <1>1, <1>2, <1>4, <1>7, Zenon DEF Directories, Flushing
  <2>2. ASSUME NEW s \in DOMAIN sweep, NEW k \in DOMAIN sweep[s]
        PROVE  IsDisk(sweep[s][k])' /\ DirOf(sweep[s][k])' \in expired'
    <3>1. PICK v : v = sweep[s][k]
      OBVIOUS
    <3>2. IsDisk(v) /\ DirOf(v) \in expired /\ v \in DOMAIN parts
      BY <1>1, <3>1, ZenonT(60) DEF Directories, IsDisk
    <3>3. IsDisk(v)' /\ DirOf(v)' \in expired
      BY <1>7, <3>2, Zenon
    <3> QED BY <1>2, <3>1, <3>3, Zenon DEF IsDisk, DirOf
  <2>3. \A n \in Listed' : IsDisk(n)' => Valid(DirOf(n))'
    BY <1>2, <1>4, <1>7, <2>1, Zenon DEF Valid
  <2> QED BY <1>2, <1>6, <1>7, <2>1, <2>2, <2>3, Zenon DEF Directories
<1>15. Holding'
  <2>1. ASSUME NEW n \in Listed, n # m PROVE Kept(n)' = Kept(n)
    BY <1>2, <1>4, <1>7, ZenonT(60) DEF Kept, Valid
  <2>2. Kept(m) = Rows(m)
    BY <1>2, Zenon DEF Kept
  <2>3. Owed' \subseteq Owed \ Rows(m)
    BY <1>2, <1>6, Zenon DEF Owed
  <2>4. Owed' \subseteq UNION {Kept(n)' : n \in Listed'}
    BY <1>1, <1>7, <2>1, <2>2, <2>3, Zenon DEF Holding
  <2> QED BY <2>4 DEF Holding
<1>16. Segments'
  BY <1>2 DEF Segments, Tracked, Logging
<1> QED BY <1>7, <1>10, <1>12, <1>13, <1>14, <1>15, <1>16, Zenon DEF Running

(* An expired partition leaves the list and the disk, or the removal ends   *)
(* because it has left them already.                                        *)
LEMMA RemoveExpiredKeeps ==
    ASSUME Running, NEW s \in DOMAIN sweep, RemoveExpired(s)
    PROVE  Running'
<1>1. /\ Typed /\ Linked(parts, head, newest) /\ Filled /\ Apart /\ Shape /\ Calling /\ FlushState
      /\ Directories /\ Holding /\ Segments
  BY DEF Running
<1>0. PICK m, u, d, third, at :
          m = sweep[s][1] /\ u = parts[m].next /\ d = DirOf(m) /\ third = Third /\ at = flusher[1].at
  OBVIOUS
<1>2. /\ UNCHANGED <<client, newest>> /\ client' = client /\ newest' = newest /\ flusher' = flusher
      /\ UNCHANGED <<wal, expired, retired, acked, calls, scenario>> /\ sweep[s] # <<>>
  BY DEF RemoveExpired, history, retention
<1>3. /\ sweep[s] \in Seq(Nat) /\ 1 \in DOMAIN sweep[s] /\ s # "Close" /\ sweep \in [DOMAIN sweep -> Seq(Nat)]
  BY <1>1, <1>2, SMTT(30) DEF Typed
<1>4. IsDisk(m) /\ d \in expired /\ m \in DOMAIN parts /\ parts[m].kind = "disk"
  BY <1>0, <1>1, <1>3, Zenon DEF Directories, IsDisk
<1>5. /\ Places(head, Second, third) /\ Listed \subseteq DOMAIN parts /\ 0 \notin DOMAIN parts
      /\ \A n \in DOMAIN parts : parts[n] \in Partition
  BY <1>0, <1>1, ListPlaces, Zenon
<1>6. m # head /\ m # Second
  BY <1>1, <1>4, <1>5, Zenon DEF Shape, IsMemory
<1>7. Match(m) = IF m \in Listed THEN m ELSE 0
  BY <1>4, MatchOwn, Zenon
<1>8. CASE m \notin Listed
  <2>1. /\ sweep' = [sweep EXCEPT ![s] = <<>>] /\ closer' = closer /\ UNCHANGED <<list, dirs>>
    BY <1>0, <1>3, <1>7, <1>8, Zenon DEF RemoveExpired
  <2>2. parts' = parts /\ head' = head /\ Listed' = Listed /\ dirs' = dirs
    BY <2>1, SameListed, Zenon DEF list
  <2>3. Typed'
    BY <1>1, <1>2, <1>3, <2>1, <2>2 DEF Typed, wal
  <2>4. Linked(parts', head', newest') /\ Filled' /\ Apart' /\ Shape' /\ Calling' /\ FlushState'
    <3>1. Linked(parts', head', newest') /\ Filled' /\ Apart'
      BY <1>1, <1>2, <2>2, Zenon DEF Filled, Apart, IsDisk
    <3>2. Shape'
      BY <1>1, <1>2, <2>2, Zenon DEF Shape, IsMemory, IsDisk, Second, Third
    <3>3. Calling'
      BY <1>1, <1>2, <2>2, Zenon DEF Calling, Second
    <3>4. FlushState'
      BY <1>1, <1>2, <2>2, Zenon DEF FlushState, IsMemory, IsDisk, Second, Third, DirOf, Rows
    <3> QED BY <3>1, <3>2, <3>3, <3>4, Zenon
  <2>5. Directories'
    <3>1. ASSUME NEW r \in DOMAIN sweep', NEW k \in DOMAIN sweep'[r]
          PROVE  sweep'[r] = sweep[r] /\ r \in DOMAIN sweep
      BY <1>3, <2>1
    <3>2. \A r \in DOMAIN sweep' : \A k \in DOMAIN sweep'[r] :
             IsDisk(sweep'[r][k]) /\ DirOf(sweep'[r][k]) \in expired
      BY <1>1, <3>1, Zenon DEF Directories
    <3> QED BY <1>1, <1>2, <2>2, <3>2, Zenon DEF Directories, IsDisk, DirOf, Valid
  <2>6. Holding' /\ Segments'
    <3>1. Holding'
      BY <1>1, <1>2, <2>2, ZenonT(60) DEF Holding, Owed, Kept, Rows, Valid, DirOf
    <3>2. Segments'
      BY <1>1, <1>2, <2>2, Zenon DEF Segments, Tracked, Logging, OldestSegment, HeadSegment, Second, Third, IsMemory, Rows, wal
    <3> QED BY <3>1, <3>2, Zenon
  <2> QED BY <2>3, <2>4, <2>5, <2>6, Zenon DEF Running
<1>9. CASE m \in Listed
  <2>1. /\ remove(m) /\ dirs' = cleaned(m) /\ sweep' = [sweep EXCEPT ![s] = Tail(@)] /\ closer' = closer
    <3>1. m # 0
      BY <1>4, <1>5, Zenon
    <3> QED BY <1>0, <1>7, <1>9, <3>1, Zenon DEF RemoveExpired
  <2>2. dirs' = [e \in DOMAIN dirs \ {d} |-> dirs[e]]
    BY <1>0, <1>4, <2>1, Zenon DEF cleaned, DirOf
  <2>3. /\ head' = head /\ Linked(parts', head', newest')
        /\ DOMAIN parts' = DOMAIN parts /\ Listed' = Listed \ {m}
        /\ Second' = Second /\ Third' = IF third = m THEN u ELSE third
        /\ \A n \in DOMAIN parts :
              /\ parts'[n].kind = parts[n].kind
              /\ IsDisk(n)' = IsDisk(n) /\ IsMemory(n)' = IsMemory(n)
              /\ DirOf(n)' = DirOf(n) /\ Rows(n)' = Rows(n)
              /\ parts'[n].next = IF n \in Listed /\ parts[n].next = m THEN u ELSE parts[n].next
        /\ u = 0 \/ IsDisk(u)
        /\ Filled' /\ Apart' /\ Layout' /\ Calling'
    BY <1>0, <1>2, <1>6, <1>9, <2>1, UnlinkFrame, ZenonT(60)
  <2>4. IsMemory(Third)' => Third' = third /\ IsMemory(third) /\ third # m
    <3>1. ~ IsMemory(u) /\ ~ IsMemory(u)'
      BY <1>5, <2>3, Zenon DEF IsMemory, IsDisk
    <3>2. ASSUME third # m, IsMemory(third)' PROVE IsMemory(third)
      BY <2>3, <3>2, ZenonT(60) DEF IsMemory
    <3> QED BY <2>3, <3>1, <3>2, ZenonT(60) DEF IsMemory
  <2>5. IsMemory(third) => Third' = third /\ IsMemory(Third)' /\ third # m /\ third \in DOMAIN parts
                           /\ Rows(third)' = Rows(third) /\ DirOf(third)' = DirOf(third) /\ DirOf(third) # d
    <3>1. SUFFICES ASSUME IsMemory(third)
                   PROVE  Third' = third /\ IsMemory(Third)' /\ third # m /\ third \in DOMAIN parts
                          /\ Rows(third)' = Rows(third) /\ DirOf(third)' = DirOf(third) /\ DirOf(third) # d
      BY Zenon
    <3>2. third # m /\ third \in DOMAIN parts
      BY <1>4, <3>1, Zenon DEF IsMemory
    <3>3. Third' = third /\ IsMemory(Third)'
      BY <2>3, <3>1, <3>2, ZenonT(60) DEF IsMemory
    <3>4. DirOf(third) # d
      BY <1>0, <1>4, <3>1, DirIsNew, Zenon
    <3> QED BY <2>3, <3>2, <3>3, <3>4, Zenon
  <2>6. Typed'
    <3>1. sweep' \in [DOMAIN sweep -> Seq(Nat)] /\ DOMAIN sweep' = DOMAIN sweep
          /\ ("Close" \in DOMAIN sweep => sweep'["Close"] = sweep["Close"])
      BY <1>2, <1>3, <2>1
    <3>2. dirs' \in [DOMAIN dirs' -> Directory] /\ DOMAIN dirs' \subseteq Nat \X Nat
      BY <1>1, <2>2, Zenon DEF Typed
    <3> QED BY <1>1, <1>2, <2>1, <3>1, <3>2, Zenon DEF Typed, wal
  <2>7. Shape'
    BY <1>0, <1>1, <1>2, <2>3, <2>4, Zenon DEF Shape, Layout
  <2>8. FlushState'
    <3>1. flusher[1].pc = "visit" => (at = 0 \/ IsDisk(at) \/ (at = Third /\ IsMemory(Third)))'
      <4>1. IsDisk(at) => IsDisk(at)'
        BY <2>3 DEF IsDisk
      <4> QED BY <1>0, <1>1, <2>5, <4>1, ZenonT(60) DEF FlushState
    <3>2. ASSUME flusher[1].pc \in Flushing
          PROVE  /\ at = Third' /\ IsMemory(Third)' /\ flusher[1].dir = DirOf(Third)'
                 /\ flusher[1].dir \in DOMAIN dirs' /\ dirs'[flusher[1].dir] = dirs[flusher[1].dir]
                 /\ Rows(Third)' = Rows(Third)
      <4>1. at = third /\ IsMemory(third) /\ flusher[1].dir = DirOf(third) /\ flusher[1].dir \in DOMAIN dirs
        BY <1>0, <1>1, <3>2, ZenonT(60) DEF FlushState
      <4>2. DirOf(Third)' = DirOf(third) /\ Rows(Third)' = Rows(third)
        BY <2>5, <4>1, Zenon DEF DirOf, Rows
      <4> QED BY <1>0, <2>2, <2>5, <4>1, <4>2, Zenon
    <3>3. ASSUME flusher[1].pc = "removeOldest"
          PROVE  at \in DOMAIN parts' /\ Second' # 0 /\ (parts[at].next = 0 \/ IsDisk(parts[at].next))'
      <4>1. at \in DOMAIN parts /\ Second # 0 /\ (parts[at].next = 0 \/ IsDisk(parts[at].next))
        BY <1>0, <1>1, <3>3, Zenon DEF FlushState
      <4>2. PICK v : v = parts'[at].next
        OBVIOUS
      <4>3. v = 0 \/ IsDisk(v)
        BY <2>3, <4>1, <4>2, ZenonT(60)
      <4>4. v = 0 \/ IsDisk(v)'
        BY <2>3, <4>3, Zenon DEF IsDisk
      <4> QED BY <2>3, <4>1, <4>2, <4>4, Zenon DEF IsDisk
    <3> QED BY <1>0, <1>1, <1>2, <3>1, <3>2, <3>3, Zenon DEF FlushState
  <2>9. Directories'
    <3>1. \A e \in DOMAIN dirs' : e \in DOMAIN dirs /\ dirs'[e] = dirs[e]
      BY <2>2, Zenon
    <3>2. \A e \in DOMAIN dirs' :
            \/ dirs'[e].meta = "valid" /\ \E n \in DOMAIN parts' : IsDisk(n)' /\ e = DirOf(n)'
            \/ flusher'[1].pc \in Flushing /\ e = flusher'[1].dir
      <4>1. TAKE e \in DOMAIN dirs'
      <4>2. e \in DOMAIN dirs /\ dirs'[e] = dirs[e]
        BY <3>1, Zenon
      <4>3. \/ dirs[e].meta = "valid" /\ \E n \in DOMAIN parts : IsDisk(n) /\ e = DirOf(n)
            \/ flusher[1].pc \in Flushing /\ e = flusher[1].dir
        BY <1>1, <4>2, Zenon DEF Directories
      <4>4. CASE flusher[1].pc \in Flushing /\ e = flusher[1].dir
        BY <1>2, <4>4, Zenon
      <4>5. CASE dirs[e].meta = "valid" /\ \E n \in DOMAIN parts : IsDisk(n) /\ e = DirOf(n)
        <5>1. PICK n \in DOMAIN parts : IsDisk(n) /\ e = DirOf(n)
          BY <4>5, Zenon
        <5>2. n \in DOMAIN parts' /\ IsDisk(n)' /\ e = DirOf(n)'
          BY <2>3, <5>1, Zenon
        <5> QED BY <4>2, <4>5, <5>2, Zenon
      <4> QED BY <4>3, <4>4, <4>5, Zenon
    <3>3. ASSUME NEW n \in Listed', IsDisk(n)' PROVE Valid(DirOf(n))'
      <4>1. n \in Listed /\ n # m /\ n \in DOMAIN parts /\ IsDisk(n) /\ DirOf(n)' = DirOf(n)
        BY <1>5, <2>3, <3>3, Zenon
      <4>2. parts[n].min # parts[m].min
        BY <1>1, <1>4, <1>9, <4>1, Zenon DEF Apart
      <4>3. DirOf(n) # d
        BY <1>0, <4>2, Zenon DEF DirOf
      <4>4. DirOf(n) \in DOMAIN dirs /\ dirs[DirOf(n)].meta = "valid"
        BY <1>1, <4>1, ZenonT(60) DEF Directories, Valid
      <4>5. DirOf(n) \in DOMAIN dirs' /\ dirs'[DirOf(n)].meta = "valid"
        BY <2>2, <4>3, <4>4, Zenon
      <4> QED BY <4>1, <4>5, Zenon DEF Valid
    <3>4. \A e \in expired' :
            /\ \/ \E n \in DOMAIN parts' : IsDisk(n)' /\ e = DirOf(n)'
               \/ flusher'[1].pc \in {"open", "swap"} /\ e = flusher'[1].dir
            /\ e \in DOMAIN dirs' => Range(dirs'[e].data) \subseteq retired'
      BY <1>1, <1>2, <2>3, <3>1, ZenonT(60) DEF Directories
    <3>5. ASSUME NEW r \in DOMAIN sweep', NEW k \in DOMAIN sweep'[r]
          PROVE  IsDisk(sweep[r][k])' /\ DirOf(sweep[r][k])' \in expired'
      <4>1. r \in DOMAIN sweep /\ \E j \in DOMAIN sweep[r] : sweep'[r][k] = sweep[r][j]
        <5>1. CASE r = s
          <6>1. sweep'[r] = Tail(sweep[s]) /\ k \in 1..Len(Tail(sweep[s]))
            BY <1>3, <2>1, <5>1
          <6>2. k + 1 \in DOMAIN sweep[s] /\ Tail(sweep[s])[k] = sweep[s][k + 1]
            BY <1>2, <1>3, <6>1
          <6> QED BY <5>1, <6>1, <6>2, Zenon
        <5>2. CASE r # s
          BY <2>1, <5>2, Zenon
        <5> QED BY <5>1, <5>2, Zenon
      <4>2. PICK v : v = sweep'[r][k]
        OBVIOUS
      <4>3. IsDisk(v) /\ DirOf(v) \in expired /\ v \in DOMAIN parts
        BY <1>1, <4>1, <4>2, Zenon DEF Directories, IsDisk
      <4>4. IsDisk(v)' /\ DirOf(v)' \in expired
        BY <2>3, <4>3, Zenon
      <4> QED BY <1>2, <4>2, <4>4, Zenon DEF IsDisk, DirOf
    <3> QED BY <3>2, <3>3, <3>4, <3>5, Zenon DEF Directories
  <2>10. Holding'
    <3>1. ASSUME NEW n \in Listed, n # m PROVE Kept(n)' = Kept(n)
      <4>1. n \in DOMAIN parts /\ DirOf(n)' = DirOf(n) /\ parts'[n].kind = parts[n].kind /\ Rows(n)' = Rows(n)
        BY <1>5, <2>3, Zenon
      <4>2. parts[n].min # parts[m].min
        BY <1>1, <1>4, <1>9, <3>1, <4>1, ZenonT(60) DEF Apart
      <4>3. DirOf(n) # d
        BY <1>0, <4>2, Zenon DEF DirOf
      <4>4. Valid(DirOf(n))' = Valid(DirOf(n))
        BY <2>2, <4>1, <4>3, Zenon DEF Valid
      <4>5. Valid(DirOf(n)) => dirs'[DirOf(n)] = dirs[DirOf(n)]
        BY <2>2, <4>3, Zenon DEF Valid
      <4> QED BY <4>1, <4>4, <4>5, Zenon DEF Kept
    <3>2. Kept(m) \subseteq retired
      <4>1. Valid(d)
        BY <1>0, <1>1, <1>4, <1>9, Zenon DEF Directories
      <4>2. Kept(m) = Range(dirs[d].data)
        BY <1>0, <1>4, <4>1, Zenon DEF Kept
      <4> QED BY <1>1, <1>4, <4>1, <4>2, Zenon DEF Directories, Valid
    <3>3. Owed' = Owed /\ Owed \cap retired = {}
      BY <1>2 DEF Owed
    <3>4. Owed' \subseteq UNION {Kept(n)' : n \in Listed'}
      BY <1>1, <2>3, <3>1, <3>2, <3>3, Zenon DEF Holding
    <3> QED BY <3>4 DEF Holding
  <2>11. Segments'
    <3>1. SUFFICES ASSUME Tracked PROVE Segments'
      BY <1>2, Zenon DEF Segments, Tracked, Logging, wal
    <3>2. IsMemory(Third)' = IsMemory(third)
      BY <2>4, <2>5, Zenon DEF IsMemory
    <3>3. HeadSegment' = HeadSegment /\ OldestSegment' = OldestSegment
      BY <1>0, <1>2, <2>3, <3>2, Zenon DEF HeadSegment, OldestSegment, wal
    <3>4. Rows(head)' = Rows(head) /\ (Second # 0 => Rows(Second)' = Rows(Second))
      BY <1>5, <2>3, Zenon DEF Places, Rows
    <3>5. IsMemory(Third)' => Rows(Third)' = Rows(Third)
      BY <1>0, <2>4, <2>5, Zenon DEF Rows
    <3> QED BY <1>0, <1>1, <1>2, <2>3, <3>1, <3>2, <3>3, <3>4, <3>5, ZenonT(60) DEF Segments, wal
  <2> QED BY <2>3, <2>6, <2>7, <2>8, <2>9, <2>10, <2>11, Zenon DEF Running
<1> QED BY <1>8, <1>9, Zenon

-----------------------------------------------------------------------------
(* InsertRows keeps the invariant *)

(* The rows of a call, and the newest timestamp after it *)
LEMMA CallFacts ==
    ASSUME newest \in Nat, calls \in Nat, NEW b \in Seq(Int), Len(b) > 0, \A k \in DOMAIN b : b[k] > 0,
           NEW N, N = Max({newest} \cup {newest + b[k] : k \in DOMAIN b})
    PROVE  /\ RowsOf(b) \in Seq(Row) /\ RowsOf(b) # <<>> /\ N \in Nat /\ newest <= N
           /\ \A k \in DOMAIN RowsOf(b) : newest < RowsOf(b)[k].ts /\ RowsOf(b)[k].ts <= N
<1> DEFINE T == {newest} \cup {newest + b[k] : k \in DOMAIN b}
<1>1. DOMAIN b = 1..Len(b) /\ Len(b) \in Nat /\ \A k \in DOMAIN b : b[k] \in Nat /\ k \in Nat
  OBVIOUS
<1>2. T \in SUBSET Nat /\ T # {}
  BY <1>1
<1>3. PICK B \in Nat : \A k \in 1..Len(b) : b[k] <= B
  BY SeqBounded, Zenon
<1>4. \A x \in T : x <= newest + B
  BY <1>1, <1>3
<1>5. newest + B \in Nat
  OBVIOUS
<1>6. newest \in T /\ \A k \in DOMAIN b : newest + b[k] \in T
  OBVIOUS
<1> HIDE DEF T
<1>7. \E x \in T : \A y \in T : y <= x
  BY <1>2, <1>4, <1>5, NatMax, Zenon
<1>8. \E x \in T : \A y \in T : x >= y
  BY <1>2, <1>7, Zenon
<1>9. N = CHOOSE x \in T : \A y \in T : x >= y
  BY DEF T, Max
<1>10. N \in T /\ \A y \in T : N >= y
  BY <1>8, <1>9, Zenon
<1>11. N \in Nat /\ newest <= N /\ \A k \in DOMAIN b : newest + b[k] <= N
  BY <1>1, <1>2, <1>6, <1>10, Zenon
<1>12. ASSUME NEW k \in DOMAIN b
       PROVE  RowsOf(b)[k] \in Row /\ RowsOf(b)[k].ts = newest + b[k] /\ newest < newest + b[k]
  <2>1. RowsOf(b)[k] = [id |-> <<calls + 1, k>>, ts |-> newest + b[k]]
    BY DEF RowsOf
  <2>2. calls + 1 \in Nat /\ k \in Nat /\ newest + b[k] \in Nat \ {0} /\ newest < newest + b[k]
    BY <1>1
  <2> QED BY <2>1, <2>2 DEF Row
<1>13. DOMAIN RowsOf(b) = 1..Len(b) /\ RowsOf(b) \in [1..Len(b) -> Row]
  <2>1. RowsOf(b) = [k \in 1..Len(b) |-> RowsOf(b)[k]]
    BY <1>1, Zenon DEF RowsOf
  <2> QED BY <1>1, <1>12, <2>1, Zenon
<1>14. RowsOf(b) \in Seq(Row) /\ Len(RowsOf(b)) = Len(b)
  BY <1>1, <1>13, SeqIs, Zenon
<1>15. RowsOf(b) # <<>>
  BY <1>14
<1> QED BY <1>1, <1>11, <1>12, <1>13, <1>14, <1>15, Zenon

(* A batch of an in-order client *)
LEMMA BatchFacts ==
    ASSUME InOrderClient, scenario \in Scenarios, NEW b \in scenario.batches
    PROVE  b \in Seq(Int) /\ Len(b) > 0 /\ \A k \in DOMAIN b : b[k] > 0
BY ScenariosAssumption, Zenon DEF InOrderClient

(* The head takes the rows of the call. *)
LEMMA InsertActiveKeeps ==
    ASSUME InOrderClient, Running, NEW b \in scenario.batches, InsertRows(b), active(parts[head])
    PROVE  Running'
<1>1. /\ Typed /\ Linked(parts, head, newest) /\ Filled /\ Apart /\ Shape /\ Calling /\ FlushState
      /\ Directories /\ Holding /\ Segments
  BY Zenon DEF Running
<1>2. /\ client.pc = "idle" /\ UNCHANGED list /\ parts' = parts /\ head' = head /\ calls' = calls + 1
      /\ client' = [Idle EXCEPT !.pc = "insert", !.rows = RowsOf(b), !.at = head]
      /\ newest' = Max({newest} \cup {newest + b[k] : k \in DOMAIN b})
      /\ UNCHANGED <<wal, dirs, flusher, sweep, closer, expired, retired, acked, scenario>>
  BY DEF InsertRows, retention, list
<1>3. newest \in Nat /\ calls \in Nat /\ head \in Nat /\ head \in DOMAIN parts
  <2>1. newest \in Nat /\ parts \in Seq(Partition) /\ head \in DOMAIN parts
    BY <1>1, Zenon DEF Linked
  <2> QED BY <1>1, <2>1 DEF Typed
<1>4. b \in Seq(Int) /\ Len(b) > 0 /\ \A k \in DOMAIN b : b[k] > 0
  BY <1>1, BatchFacts, Zenon DEF Typed
<1>5. /\ RowsOf(b) \in Seq(Row) /\ RowsOf(b) # <<>> /\ newest' \in Nat /\ newest <= newest'
      /\ \A k \in DOMAIN RowsOf(b) : newest < RowsOf(b)[k].ts /\ RowsOf(b)[k].ts <= newest'
  BY <1>2, <1>3, <1>4, CallFacts, Zenon
<1>6. /\ client' \in Call /\ client'.pc = "insert" /\ client'.rows = RowsOf(b) /\ client'.at = head
      /\ client'.tries = 0 /\ client'.stored = {}
  BY <1>2, <1>3, <1>5, Zenon DEF Idle, Call
<1>7. Listed' = Listed
  BY <1>2, SameListed, Zenon
<1>8. Typed'
  BY <1>1, <1>2, <1>3, <1>6 DEF Typed, wal
<1>9. \A n \in DOMAIN parts : parts[n].min \in Nat /\ parts[n].max \in Nat /\ parts[n].max <= newest
  BY <1>1, <1>2, ListPlaces, Zenon DEF Calling, Partition
<1>10. Linked(parts', head', newest')
  <2>1. \A n \in DOMAIN parts : parts[n].min <= newest
    BY <1>1, Zenon DEF Linked
  <2>2. \A n \in DOMAIN parts : parts[n].min <= newest'
    BY <1>3, <1>5, <1>9, <2>1
  <2> QED BY <1>1, <1>2, <1>5, <2>2, Zenon DEF Linked
<1>11. Filled' /\ Apart'
  BY <1>1, <1>2, <1>7, Zenon DEF Filled, Apart, IsDisk
<1>12. Shape'
  BY <1>1, <1>2, <1>7, Zenon DEF Shape, IsMemory, IsDisk, Second, Third
<1>13. Calling'
  <2>1. ASSUME NEW k \in DOMAIN RowsOf(b), NEW n \in DOMAIN parts PROVE parts[n].max < RowsOf(b)[k].ts
    <3>1. RowsOf(b)[k] \in Row
      BY <1>5
    <3>2. RowsOf(b)[k].ts \in Nat
      BY <3>1 DEF Row
    <3> QED BY <1>3, <1>5, <1>9, <3>2
  <2> QED BY <1>2, <1>5, <1>6, <2>1, Zenon DEF Calling
<1>14. FlushState'
  BY <1>1, <1>2, <1>7, Zenon DEF FlushState, IsMemory, IsDisk, Second, Third, DirOf, Rows
<1>15. Directories'
  BY <1>1, <1>2, <1>7, Zenon DEF Directories, IsDisk, DirOf, Valid
<1>16. Holding'
  BY <1>1, <1>2, <1>7 DEF Holding, Owed, Kept, Rows, Valid, DirOf
<1>17. Segments'
  BY <1>1, <1>2, <1>6, Zenon DEF Segments, Tracked, Logging, OldestSegment, HeadSegment, Second, Third, IsMemory, Rows, wal
<1> QED BY <1>8, <1>10, <1>11, <1>12, <1>13, <1>14, <1>15, <1>16, <1>17, Zenon DEF Running

(* newPartition: a head without rows, in front of the others *)
LEMMA InsertFacts ==
    ASSUME Linked(parts, head, newest), parts[head].min > 0, insert(NewPartition),
           NEW N \in Nat, newest <= N, NEW z, z = Len(parts) + 1
    PROVE  /\ head' = z /\ Linked(parts', z, N)
           /\ z \notin DOMAIN parts /\ z # 0 /\ DOMAIN parts' = DOMAIN parts \cup {z}
           /\ Listed' = Listed \cup {z}
           /\ \A n \in DOMAIN parts : parts'[n] = parts[n]
           /\ parts'[z] \in Partition
           /\ parts'[z].kind = "memory" /\ parts'[z].min = 0 /\ parts'[z].max = 0 /\ parts'[z].next = head
           /\ parts'[z].points = <<>> /\ parts'[z].late = <<>>
<1> DEFINE new == [NewPartition EXCEPT !.next = head]
<1>1. /\ Ranked(parts) /\ head \in 1..Len(parts) /\ DOMAIN parts = 1..Len(parts) /\ Len(parts) \in Nat
      /\ newest \in Nat /\ parts \in Seq(Partition) /\ head \in Nat
  <2>1. newest \in Nat /\ parts \in Seq(Partition)
    BY DEF Linked
  <2> QED BY <2>1, LinkedRanked
<1>2. /\ new \in Partition /\ new.kind = "memory" /\ new.min = 0 /\ new.max = 0 /\ new.next = head
      /\ new.points = <<>> /\ new.late = <<>>
  <2>1. /\ NewPartition \in Partition /\ NewPartition.kind = "memory" /\ NewPartition.min = 0
        /\ NewPartition.max = 0 /\ NewPartition.points = <<>> /\ NewPartition.late = <<>>
    BY DEF NewPartition, Partition
  <2> QED BY <1>1, <2>1, Zenon DEF Partition
<1>3. head' = z /\ parts' = Append(parts, new)
  BY Zenon DEF insert
<1> HIDE DEF new
<1>4. /\ parts' \in Seq(Partition) /\ DOMAIN parts' = DOMAIN parts \cup {z} /\ Len(parts') = z
      /\ parts'[z] = new /\ \A n \in DOMAIN parts : parts'[n] = parts[n]
      /\ z \notin DOMAIN parts /\ z # 0 /\ head \in DOMAIN parts
  BY <1>1, <1>2, <1>3
<1>5. ASSUME NEW n \in DOMAIN parts \cup {z}
      PROVE  /\ parts'[n].min <= N
             /\ parts'[n].next # 0 =>
                   /\ parts'[n].next \in DOMAIN parts \cup {z} /\ parts'[parts'[n].next].min > 0
                   /\ parts'[n].min > 0 => parts'[parts'[n].next].min < parts'[n].min
  <2>1. CASE n = z
    BY <1>2, <1>4, <2>1
  <2>2. CASE n \in DOMAIN parts
    <3>1. parts[n].min <= newest /\ parts[n].min \in Nat
      BY <1>1, <2>2, ListPlaces, Zenon DEF Linked, Partition
    <3>2. parts[n].next # 0 =>
              /\ parts[n].next \in DOMAIN parts /\ parts[parts[n].next].min > 0
              /\ parts[n].min > 0 => parts[parts[n].next].min < parts[n].min
      BY <2>2, Zenon DEF Linked
    <3> QED BY <1>1, <1>4, <2>2, <3>1, <3>2, SMTT(30)
  <2> QED BY <2>1, <2>2, Zenon
<1>6. Linked(parts', z, N)
  BY <1>4, <1>5, Zenon DEF Linked
<1>7. Ranked(parts')
  BY <1>6, LinkedRanked, Zenon
<1>8. Listed' = ListIn(parts', z) /\ Listed = ListIn(parts, head)
  BY <1>3, ListedIn, Zenon DEF Listed, From, ListIn, FromIn
<1>9. ListIn(Append(parts, new), Len(parts) + 1) = ListIn(parts, head) \cup {Len(parts) + 1}
  BY <1>1, <1>2, <1>3, <1>7, NewHead, Zenon
<1> QED BY <1>2, <1>3, <1>4, <1>6, <1>8, <1>9, Zenon

(* The head has no room, and the call makes a new one. *)
LEMMA InsertNewHeadKeeps ==
    ASSUME InOrderClient, Running, NEW b \in scenario.batches, InsertRows(b), ~ active(parts[head])
    PROVE  Running'
<1>1. /\ Typed /\ Linked(parts, head, newest) /\ Filled /\ Apart /\ Shape /\ Calling /\ FlushState
      /\ Directories /\ Holding /\ Segments
  BY Zenon DEF Running
<1>0. PICK h, second, third, z : h = head /\ second = Second /\ third = Third /\ z = Len(parts) + 1
  OBVIOUS
<1>2. /\ client.pc = "idle" /\ FreeFlushers # {} /\ insert(NewPartition) /\ calls' = calls + 1
      /\ client' = [Idle EXCEPT !.pc = "punctuate", !.rows = RowsOf(b)]
      /\ newest' = Max({newest} \cup {newest + b[k] : k \in DOMAIN b})
      /\ UNCHANGED <<wal, dirs, flusher, sweep, closer, expired, retired, acked, scenario>>
  BY Zenon DEF InsertRows, retention
<1>3. newest \in Nat /\ calls \in Nat
  BY <1>1 DEF Linked, Typed
<1>4. /\ Places(h, second, third) /\ Listed \subseteq DOMAIN parts /\ 0 \notin DOMAIN parts
      /\ \A n \in DOMAIN parts : parts[n] \in Partition
      /\ h \in DOMAIN parts /\ h # 0 /\ h \in Listed
  <2>1. /\ Places(h, second, third) /\ Listed \subseteq DOMAIN parts /\ 0 \notin DOMAIN parts
        /\ \A n \in DOMAIN parts : parts[n] \in Partition
    BY <1>0, <1>1, ListPlaces, Zenon
  <2> QED BY <2>1, Zenon DEF Places
<1>5. b \in Seq(Int) /\ Len(b) > 0 /\ \A k \in DOMAIN b : b[k] > 0
  BY <1>1, BatchFacts, Zenon DEF Typed
<1>6. /\ RowsOf(b) \in Seq(Row) /\ RowsOf(b) # <<>> /\ newest' \in Nat /\ newest <= newest'
      /\ \A k \in DOMAIN RowsOf(b) : newest < RowsOf(b)[k].ts /\ RowsOf(b)[k].ts <= newest'
  BY <1>2, <1>3, <1>5, CallFacts, Zenon
<1>7. /\ client' \in Call /\ client'.pc = "punctuate" /\ client'.rows = RowsOf(b)
      /\ client'.tries = 0 /\ client'.stored = {}
  BY <1>2, <1>6, Zenon DEF Idle, Call
<1>8. flusher[1].pc = "idle"
  BY <1>2 DEF FreeFlushers, Flushers, InOrderClient
<1>9. ~ IsMemory(third) /\ (third = 0 \/ IsDisk(third))
  <2>1. ~ IsMemory(third)
    BY <1>0, <1>1, <1>2, <1>8, Zenon DEF Shape, Flushing
  <2> QED BY <1>4, <2>1, Zenon DEF Places, IsMemory, IsDisk, Partition
<1>10. \A n \in DOMAIN parts : parts[n].min \in Nat /\ parts[n].max \in Nat /\ parts[n].max <= newest
  BY <1>1, <1>2, <1>4, Zenon DEF Calling, Partition
<1>11. parts[head].min > 0
  <2>1. parts[h].kind = "memory"
    BY <1>0, <1>1, Zenon DEF Shape, IsMemory
  <2>2. ~ (parts[h].max - parts[h].min + 1 < PartitionDuration)
    BY <1>0, <2>1, Zenon DEF active
  <2>3. parts[h].min = 0 => parts[h].max = 0
    BY <1>1, <1>4, Zenon DEF Filled
  <2> QED BY <1>0, <1>4, <1>10, <2>2, <2>3, BoundsAssumption, SMTT(30)
<1>12. \A n \in DOMAIN parts : parts[n].min # 0 /\ parts[n].min > 0
  BY <1>1, <1>10, <1>11 DEF Filled
<1>13. /\ head' = z /\ Linked(parts', z, newest')
       /\ z \notin DOMAIN parts /\ z # 0 /\ DOMAIN parts' = DOMAIN parts \cup {z}
       /\ Listed' = Listed \cup {z}
       /\ \A n \in DOMAIN parts : parts'[n] = parts[n]
       /\ parts'[z] \in Partition
       /\ parts'[z].kind = "memory" /\ parts'[z].min = 0 /\ parts'[z].max = 0 /\ parts'[z].next = h
       /\ parts'[z].points = <<>> /\ parts'[z].late = <<>>
  BY <1>0, <1>1, <1>2, <1>6, <1>11, InsertFacts, Zenon
<1>14. \A n \in DOMAIN parts : /\ IsDisk(n)' = IsDisk(n) /\ IsMemory(n)' = IsMemory(n)
                               /\ DirOf(n)' = DirOf(n) /\ Rows(n)' = Rows(n)
  BY <1>13, Zenon DEF IsDisk, IsMemory, DirOf, Rows
<1>15. IsMemory(z)' /\ ~ IsDisk(z)'
  BY <1>13 DEF IsDisk, IsMemory
<1>16. Second' = h /\ Third' = second
  <2>1. Second' = h
    BY <1>13, Zenon DEF Second
  <2> QED BY <1>0, <1>4, <1>13, <2>1, Zenon DEF Third, Second
<1>17. Typed'
  BY <1>1, <1>2, <1>3, <1>7 DEF Typed, wal
<1>18. Filled'
  <2>1. \A n \in DOMAIN parts :
           /\ parts'[n].min <= parts'[n].max /\ parts'[n].min # 0
           /\ parts'[n].kind = "memory" => parts'[n].points # <<>>
    BY <1>1, <1>12, <1>13, Zenon DEF Filled
  <2> QED BY <1>13, <2>1 DEF Filled
<1>19. Apart'
  <2>1. ASSUME NEW m \in DOMAIN parts', NEW n \in DOMAIN parts',
               m \in Listed' \/ IsDisk(m)', n \in Listed' \/ IsDisk(n)', parts'[m].min = parts'[n].min
        PROVE  m = n
    <3>1. CASE m = z \/ n = z
      BY <1>12, <1>13, <2>1, <3>1, Zenon
    <3>2. CASE m # z /\ n # z
      <4>1. m \in DOMAIN parts /\ n \in DOMAIN parts
        BY <1>13, <3>2, Zenon
      <4>2. (m \in Listed \/ IsDisk(m)) /\ (n \in Listed \/ IsDisk(n)) /\ parts[m].min = parts[n].min
        BY <1>13, <1>14, <2>1, <3>2, <4>1, Zenon
      <4> QED BY <1>1, <4>1, <4>2, Zenon DEF Apart
    <3> QED BY <3>1, <3>2, Zenon
  <2> QED BY <2>1, Zenon DEF Apart
<1>20. Shape'
  <2>1. IsMemory(head)' /\ IsMemory(Second)'
    <3>1. IsMemory(h)'
      BY <1>0, <1>1, <1>4, <1>14, Zenon DEF Shape
    <3> QED BY <1>13, <1>15, <1>16, <3>1, Zenon DEF IsMemory
  <2>2. \A n \in Listed' : n \in {head', Second', Third'} \/ IsDisk(n)'
    BY <1>0, <1>1, <1>4, <1>9, <1>13, <1>14, <1>16, ZenonT(60) DEF Shape
  <2>3. ASSUME NEW n \in DOMAIN parts', n = Third' \/ IsDisk(n)'
        PROVE  (parts[n].next = 0 \/ IsDisk(parts[n].next))'
    <3>1. n \in DOMAIN parts
      <4>1. second # z
        BY <1>4, <1>13, Zenon DEF Places
      <4> QED BY <1>13, <1>15, <1>16, <2>3, <4>1, Zenon
    <3>2. parts[n].next = 0 \/ IsDisk(parts[n].next)
      <4>1. CASE IsDisk(n)
        BY <1>1, <3>1, <4>1, Zenon DEF Shape
      <4>2. CASE n = second
        <5>1. parts[n].next = third
          BY <1>0, <1>4, <3>1, <4>2, Zenon DEF Third
        <5> QED BY <1>9, <5>1, Zenon
      <4> QED BY <1>14, <1>16, <2>3, <3>1, <4>1, <4>2, Zenon
    <3>3. PICK v : v = parts[n].next
      BY Zenon
    <3>4. v = 0 \/ IsDisk(v)'
      BY <1>14, <3>2, <3>3, Zenon DEF IsDisk
    <3> QED BY <1>13, <3>1, <3>3, <3>4, Zenon DEF IsDisk
  <2> QED BY <1>7, <2>1, <2>2, <2>3, Zenon DEF Shape
<1>21. Calling'
  <2>1. ASSUME NEW k \in DOMAIN RowsOf(b), NEW n \in DOMAIN parts' PROVE parts'[n].max < RowsOf(b)[k].ts
    <3>1. RowsOf(b)[k] \in Row
      BY <1>6
    <3>2. RowsOf(b)[k].ts \in Nat
      BY <3>1, Zenon DEF Row
    <3>3. parts'[n].max \in Nat /\ parts'[n].max <= newest
      BY <1>3, <1>10, <1>13
    <3> QED BY <1>3, <1>6, <3>2, <3>3, SMTT(30)
  <2> QED BY <1>2, <1>4, <1>6, <1>7, <1>8, <1>13, <1>16, <2>1, ZenonT(60) DEF Calling
<1>22. FlushState'
  BY <1>2, <1>8, Zenon DEF FlushState, Flushing
<1>23. Directories'
  <2>1. \A d \in DOMAIN dirs :
           dirs[d].meta = "valid" /\ \E n \in DOMAIN parts' : IsDisk(n)' /\ d = DirOf(n)'
    BY <1>1, <1>8, <1>13, <1>14, Zenon DEF Directories, Flushing
  <2>2. \A n \in Listed' : IsDisk(n)' => Valid(DirOf(n))'
    <3>1. ASSUME NEW n \in Listed', IsDisk(n)' PROVE Valid(DirOf(n)) /\ DirOf(n)' = DirOf(n)
      BY <1>1, <1>4, <1>13, <1>14, <1>15, <3>1, Zenon DEF Directories
    <3> QED BY <1>2, <3>1, Zenon DEF Valid
  <2>3. \A d \in expired :
           /\ \E n \in DOMAIN parts' : IsDisk(n)' /\ d = DirOf(n)'
           /\ d \in DOMAIN dirs => Range(dirs[d].data) \subseteq retired
    BY <1>1, <1>8, <1>13, <1>14, Zenon DEF Directories
  <2>4. ASSUME NEW s \in DOMAIN sweep, NEW k \in DOMAIN sweep[s]
        PROVE  IsDisk(sweep[s][k])' /\ DirOf(sweep[s][k])' \in expired'
    <3>1. PICK v : v = sweep[s][k]
      OBVIOUS
    <3>2. IsDisk(v) /\ DirOf(v) \in expired /\ v \in DOMAIN parts
      BY <1>1, <3>1, Zenon DEF Directories, IsDisk
    <3>3. IsDisk(v)' /\ DirOf(v)' \in expired
      BY <1>14, <3>2, Zenon
    <3> QED BY <1>2, <3>1, <3>3, Zenon DEF IsDisk, DirOf
  <2> QED BY <1>2, <2>1, <2>2, <2>3, <2>4, Zenon DEF Directories
<1>24. Holding'
  <2>1. ASSUME NEW n \in Listed PROVE Kept(n)' = Kept(n)
    BY <1>2, <1>4, <1>13, <1>14, Zenon DEF Kept, Valid
  <2>2. Owed' = Owed
    BY <1>2, Zenon DEF Owed
  <2>3. Owed' \subseteq UNION {Kept(n)' : n \in Listed'}
    BY <1>1, <1>13, <2>1, <2>2, SMTT(30) DEF Holding
  <2> QED BY <2>3, Zenon DEF Holding
<1>25. Segments'
  <2>1. SUFFICES ASSUME Tracked PROVE Segments'
    BY <1>2, Zenon DEF Segments, Tracked, Logging, wal
  <2>2. index \in Nat /\ index' = index /\ segs' = segs
    BY <1>1, <1>2, Zenon DEF Typed, wal
  <2>3. HeadSegment = index - 1 /\ HeadSegment' = index
    BY <1>2, <1>7, <2>2, Zenon DEF HeadSegment
  <2>4. second # 0 => IsMemory(second) /\ IsMemory(second)' /\ second \in DOMAIN parts
    BY <1>0, <1>1, <1>14, Zenon DEF Shape, IsMemory
  <2>5. IsMemory(Third)' = (second # 0)
    <3>1. CASE second = 0
      BY <1>4, <1>13, <1>16, <3>1, Zenon DEF IsMemory
    <3>2. CASE second # 0
      BY <1>16, <2>4, <3>2, Zenon DEF IsMemory
    <3> QED BY <3>1, <3>2, Zenon
  <2>6. OldestSegment' = OldestSegment
    <3>1. OldestSegment' = IF second # 0 THEN index - 2 ELSE index - 1
      BY <1>2, <1>4, <1>8, <1>16, <2>3, <2>5, ZenonT(60) DEF OldestSegment
    <3>2. OldestSegment = IF second # 0 THEN index - 1 - 1 ELSE index - 1
      BY <1>0, <1>8, <1>9, <2>3, Zenon DEF OldestSegment
    <3> QED BY <2>2, <3>1, <3>2
  <2>7. DOMAIN segs' = OldestSegment'..(index' - 1)
    BY <1>1, <2>1, <2>2, <2>6, Zenon DEF Segments
  <2>8. Rows(Second)' \subseteq Range(segs'[HeadSegment' - 1])
    <3>1. Rows(h) \subseteq Range(segs[index - 1])
      BY <1>0, <1>1, <1>2, <2>1, <2>3, Zenon DEF Segments
    <3>2. Rows(Second)' = Rows(h)
      BY <1>4, <1>13, <1>16, Zenon DEF Rows
    <3> QED BY <2>2, <2>3, <3>1, <3>2, Zenon
  <2>9. second # 0 => Rows(Third)' \subseteq Range(segs'[HeadSegment' - 2])
    <3>1. second # 0 => Rows(second) \subseteq Range(segs[index - 1 - 1])
      BY <1>0, <1>1, <2>1, <2>3, Zenon DEF Segments
    <3>2. second # 0 => Rows(Third)' = Rows(second)
      BY <1>13, <1>16, <2>4, Zenon DEF Rows
    <3>3. index - 1 - 1 = index - 2
      BY <2>2
    <3> QED BY <2>2, <2>3, <3>1, <3>2, <3>3, Zenon
  <2> QED BY <1>7, <2>5, <2>7, <2>8, <2>9, Zenon DEF Segments
<1>26. Linked(parts', head', newest')
  BY <1>13, Zenon
<1> QED BY <1>17, <1>18, <1>19, <1>20, <1>21, <1>22, <1>23, <1>24, <1>25, <1>26, ZenonT(60) DEF Running

(* The new head gets its segment, and the flush starts. *)
LEMMA PunctuateKeeps ==
    ASSUME InOrderClient, Running, Punctuate
    PROVE  Running'
<1>1. /\ Typed /\ Linked(parts, head, newest) /\ Filled /\ Apart /\ Shape /\ Calling /\ FlushState
      /\ Directories /\ Holding /\ Segments
  BY DEF Running
<1>2. /\ client.pc = "punctuate" /\ punctuate /\ client' = [client EXCEPT !.pc = "insert", !.at = head]
      /\ flusher' = [flusher EXCEPT ![Min(FreeFlushers)].pc = "started"]
      /\ UNCHANGED <<list, dirs, sweep, closer, expired, retired, acked, newest, calls, scenario>>
      /\ UNCHANGED list /\ parts' = parts /\ head' = head
  BY Zenon DEF Punctuate, history, retention, list
<1>3. flusher[1].pc = "idle" /\ Second # 0 /\ parts[head].min = 0 /\ parts[head].max = 0
      /\ parts[head].points = <<>> /\ parts[head].late = <<>> /\ head \in DOMAIN parts /\ head \in Nat
  <2>1. flusher[1].pc = "idle" /\ Second # 0 /\ parts[head].min = 0
    BY <1>1, <1>2, Zenon DEF Calling
  <2>2. head \in DOMAIN parts /\ parts \in Seq(Partition)
    BY <1>1 DEF Linked
  <2> QED BY <1>1, <2>1, <2>2 DEF Filled
<1>4. Min(FreeFlushers) = 1
  <2>1. FreeFlushers = {1}
    BY <1>3 DEF FreeFlushers, Flushers, InOrderClient
  <2> QED BY <2>1 DEF Min
<1>5. flusher' \in [{1} -> Flush] /\ flusher'[1].pc = "started"
  BY <1>1, <1>2, <1>4, Zenon DEF Typed, Flush
<1>6. /\ client' \in Call /\ client'.pc = "insert" /\ client'.rows = client.rows /\ client'.at = head
      /\ client'.tries = client.tries /\ client'.stored = client.stored
  BY <1>1, <1>2, <1>3, Zenon DEF Typed, Call
<1>7. Listed' = Listed
  BY <1>2, SameListed, Zenon
<1>8. Typed' /\ Segments'
  <2>1. CASE ~ Logging
    <3>1. UNCHANGED wal
      BY <1>2, <2>1, Zenon DEF punctuate, createSegmentFile
    <3>2. Typed'
      BY <1>1, <1>2, <1>5, <1>6, <3>1, Zenon DEF Typed, wal
    <3>3. Segments'
      BY <1>2, <2>1, Zenon DEF Segments, Tracked, Logging
    <3> QED BY <3>2, <3>3, Zenon
  <2>2. CASE Logging
    <3>1. /\ segs' = [i \in DOMAIN segs \cup {index} |-> IF i \in DOMAIN segs THEN segs[i] ELSE <<>>]
          /\ index' = index + 1
      BY <1>2, <2>2, Zenon DEF punctuate, createSegmentFile
    <3>2. index \in Nat /\ segs \in [DOMAIN segs -> Seq(Row)] /\ DOMAIN segs \subseteq Nat
      BY <1>1 DEF Typed
    <3>3. segs' \in [DOMAIN segs' -> Seq(Row)] /\ DOMAIN segs' \subseteq Nat /\ index' \in Nat
      BY <3>1, <3>2
    <3>4. Typed'
      BY <1>1, <1>2, <1>5, <1>6, <3>3, Zenon DEF Typed
    <3>5. HeadSegment = index /\ HeadSegment' = index
      BY <1>2, <1>6, <3>1, <3>2 DEF HeadSegment
    <3>6. /\ Second' = Second /\ Third' = Third /\ IsMemory(Third)' = IsMemory(Third)
          /\ Rows(head)' = Rows(head) /\ Rows(Second)' = Rows(Second) /\ Rows(Third)' = Rows(Third)
      BY <1>2, Zenon DEF Second, Third, IsMemory, Rows
    <3>7. OldestSegment' = OldestSegment /\ OldestSegment \in {index - 1, index - 2}
          /\ (IsMemory(Third) => OldestSegment = index - 2)
      BY <1>3, <1>5, <3>5, <3>6, Zenon DEF OldestSegment
    <3>8. ASSUME Tracked' PROVE Tracked /\ DOMAIN segs = OldestSegment..(index - 1)
      <4>1. Tracked
        BY <2>2, <3>1, <3>2, <3>8 DEF Tracked
      <4> QED BY <1>1, <4>1, Zenon DEF Segments
    <3>9. Tracked' => DOMAIN segs' = OldestSegment'..(index' - 1)
      BY <3>1, <3>2, <3>7, <3>8
    <3>10. Tracked' =>
              /\ index - 1 \in DOMAIN segs /\ segs'[index - 1] = segs[index - 1]
              /\ IsMemory(Third) => index - 2 \in DOMAIN segs /\ segs'[index - 2] = segs[index - 2]
      BY <3>1, <3>2, <3>7, <3>8, SMTT(30)
    <3>11. Rows(head) = {}
      BY <1>3 DEF Rows, RowsIn, Range
    <3>12. Segments'
      BY <1>1, <1>3, <3>5, <3>6, <3>8, <3>9, <3>10, <3>11, ZenonT(60) DEF Segments
    <3> QED BY <3>4, <3>12
  <2> QED BY <2>1, <2>2, Zenon
<1>10. Linked(parts', head', newest') /\ Filled' /\ Apart'
  BY <1>1, <1>2, <1>7, Zenon DEF Filled, Apart, IsDisk
<1>11. Shape'
  BY <1>1, <1>2, <1>5, <1>7, Zenon DEF Shape, IsMemory, IsDisk, Second, Third
<1>12. Calling'
  BY <1>1, <1>2, <1>6, Zenon DEF Calling
<1>13. FlushState'
  BY <1>5, Zenon DEF FlushState, Flushing
<1>14. Directories'
  BY <1>1, <1>2, <1>3, <1>5, <1>7, ZenonT(60) DEF Directories, IsDisk, DirOf, Valid, Flushing
<1>15. Holding'
  BY <1>1, <1>2, <1>7, ZenonT(60) DEF Holding, Owed, Kept, Rows, Valid, DirOf
<1> QED BY <1>8, <1>10, <1>11, <1>12, <1>13, <1>14, <1>15, Zenon DEF Running

(* A directory's retention passes. *)
LEMMA ExpireKeeps ==
    ASSUME Running, NEW d \in DOMAIN dirs, Expire(d)
    PROVE  Running'
<1>1. /\ Typed /\ Linked(parts, head, newest) /\ Filled /\ Apart /\ Shape /\ Calling /\ FlushState
      /\ Directories /\ Holding /\ Segments
  BY DEF Running
<1>2. /\ dirs[d].meta = "valid" /\ expired' = expired \cup {d} /\ retired' = retired \cup Range(dirs[d].data)
      /\ UNCHANGED <<wal, dirs, client, flusher, sweep, closer, acked, newest, calls, scenario>>
      /\ UNCHANGED list /\ parts' = parts /\ head' = head
  BY Zenon DEF Expire, history, list
<1>3. Listed' = Listed
  BY <1>2, SameListed, Zenon
<1>4. Typed'
  BY <1>1, <1>2, Zenon DEF Typed, wal
<1>5. Linked(parts', head', newest') /\ Filled' /\ Apart'
  BY <1>1, <1>2, <1>3, Zenon DEF Filled, Apart, IsDisk
<1>6. Shape'
  BY <1>1, <1>2, <1>3, Zenon DEF Shape, IsMemory, IsDisk, Second, Third
<1>7. Calling'
  BY <1>1, <1>2, Zenon DEF Calling, Second
<1>8. FlushState'
  BY <1>1, <1>2, <1>3, Zenon DEF FlushState, IsMemory, IsDisk, Second, Third, DirOf, Rows
<1>9. Directories'
  <2>1. \/ \E n \in DOMAIN parts : IsDisk(n) /\ d = DirOf(n)
        \/ flusher[1].pc \in {"open", "swap"} /\ d = flusher[1].dir
    BY <1>1, <1>2, Zenon DEF Directories, FlushState, Flushing
  <2>2. \A e \in expired' :
           /\ \/ \E n \in DOMAIN parts : IsDisk(n) /\ e = DirOf(n)
              \/ flusher[1].pc \in {"open", "swap"} /\ e = flusher[1].dir
           /\ e \in DOMAIN dirs => Range(dirs[e].data) \subseteq retired'
    BY <1>1, <1>2, <2>1, Zenon DEF Directories
  <2>3. \A s \in DOMAIN sweep : \A k \in DOMAIN sweep[s] :
           IsDisk(sweep[s][k]) /\ DirOf(sweep[s][k]) \in expired'
    BY <1>1, <1>2, Zenon DEF Directories
  <2> QED BY <1>1, <1>2, <1>3, <2>2, <2>3, ZenonT(60) DEF Directories, IsDisk, DirOf, Valid
<1>10. Holding'
  BY <1>1, <1>2, <1>3 DEF Holding, Owed, Kept, Rows, Valid, DirOf
<1>11. Segments'
  BY <1>1, <1>2, Zenon DEF Segments, Tracked, Logging, OldestSegment, HeadSegment, Second, Third, IsMemory, Rows, wal
<1> QED BY <1>4, <1>5, <1>6, <1>7, <1>8, <1>9, <1>10, <1>11, Zenon DEF Running

(* The ticker finds what has expired. *)
LEMMA TickKeeps ==
    ASSUME Running, Tick
    PROVE  Running'
<1>1. /\ Typed /\ Linked(parts, head, newest) /\ Filled /\ Apart /\ Shape /\ Calling /\ FlushState
      /\ Directories /\ Holding /\ Segments
  BY Zenon DEF Running
<1>2. /\ sweep' = [sweep EXCEPT !["ticker"] = ExpiredList] /\ "ticker" \in DOMAIN sweep
      /\ UNCHANGED <<wal, dirs, client, flusher, closer, expired, retired, acked, newest, calls, scenario>>
      /\ UNCHANGED list /\ parts' = parts /\ head' = head
  BY DEF Tick, ScanExpired, history, retention, list
<1>3. Listed' = Listed
  BY <1>2, SameListed, Zenon
<1>4. ExpiredList \in Seq({n \in 1..Len(parts) : IsExpired(n)})
  BY <1>1, LinkedRanked, ExpiredListFacts, Zenon
<1>5. DOMAIN parts = 1..Len(parts)
  BY <1>1, ListPlaces, Zenon
<1>6. PICK S : S = {n \in 1..Len(parts) : IsExpired(n)}
  BY Zenon
<1>7. S \subseteq Nat /\ \A n \in S : IsDisk(n) /\ DirOf(n) \in expired
  BY <1>5, <1>6 DEF IsExpired, IsDisk, DirOf
<1>8. ExpiredList \in Seq(Nat) /\ \A k \in DOMAIN ExpiredList : ExpiredList[k] \in S
  <2>1. ExpiredList \in Seq(S)
    BY <1>4, <1>6, Zenon
  <2>2. S \subseteq Nat
    BY <1>7, Zenon
  <2> QED BY <2>1, <2>2, SeqOver, Zenon
<1>9. Typed'
  BY <1>1, <1>2, <1>8, Zenon DEF Typed, wal
<1>10. Linked(parts', head', newest') /\ Filled' /\ Apart'
  BY <1>1, <1>2, <1>3, Zenon DEF Filled, Apart, IsDisk
<1>11. Shape'
  BY <1>1, <1>2, <1>3, Zenon DEF Shape, IsMemory, IsDisk, Second, Third
<1>12. Calling'
  BY <1>1, <1>2, Zenon DEF Calling, Second
<1>13. FlushState'
  BY <1>1, <1>2, <1>3, ZenonT(60) DEF FlushState, IsMemory, IsDisk, Second, Third, DirOf, Rows
<1>14. Directories'
  <2>1. ASSUME NEW s \in DOMAIN sweep', NEW k \in DOMAIN sweep'[s]
        PROVE  IsDisk(sweep'[s][k]) /\ DirOf(sweep'[s][k]) \in expired
    <3>1. CASE s = "ticker"
      <4>1. sweep'[s] = ExpiredList
        BY <1>2, <3>1, Zenon
      <4> QED BY <1>7, <1>8, <2>1, <4>1, Zenon
    <3>2. CASE s # "ticker"
      <4>1. s \in DOMAIN sweep /\ sweep'[s] = sweep[s]
        BY <1>2, <3>2
      <4> QED BY <1>1, <2>1, <4>1, Zenon DEF Directories
    <3> QED BY <3>1, <3>2, Zenon
  <2> QED BY <1>1, <1>2, <1>3, <2>1 DEF Directories, IsDisk, DirOf, Valid
<1>15. Holding'
  BY <1>1, <1>2, <1>3, Zenon DEF Holding, Owed, Kept, Rows, Valid, DirOf
<1>16. Segments'
  BY <1>1, <1>2, Zenon DEF Segments, Tracked, Logging, OldestSegment, HeadSegment, Second, Third, IsMemory, Rows, wal
<1> QED BY <1>9, <1>10, <1>11, <1>12, <1>13, <1>14, <1>15, <1>16, Zenon DEF Running

(* The order of the bounds, which are natural numbers with 0 for "none". *)
LEMMA NatOrder ==
    /\ ~ (0 > 0) /\ ~ (0 < 0)
    /\ \A a \in Nat : 0 < a => a > 0
    /\ \A a, b, c \in Nat : (a < b /\ b <= c => a <= c) /\ (a <= b /\ b <= c => a <= c)
OBVIOUS

(* A sequence that is not empty has a first element. *)
LEMMA FirstOf ==
    ASSUME NEW S, NEW s \in Seq(S), s # <<>>
    PROVE  1 \in DOMAIN s /\ s[1] \in S
OBVIOUS

(* The rows of the call go to the log and into the head. *)
LEMMA InsertIntoKeeps ==
    ASSUME Running, InsertInto
    PROVE  Running'
<1>1. /\ Typed /\ Linked(parts, head, newest) /\ Filled /\ Apart /\ Shape /\ Calling /\ FlushState
      /\ Directories /\ Holding /\ Segments
  BY DEF Running
<1>0. PICK h, second, third, rows, p, q :
          /\ h = head /\ second = Second /\ third = Third /\ rows = client.rows
          /\ p = parts[h] /\ q = insertRows(p, rows).part
  BY Zenon
<1>2. /\ client.pc = "insert" /\ client.at = h /\ client.tries = 0 /\ client.stored = {} /\ rows # <<>>
      /\ \A k \in DOMAIN rows :
            rows[k].ts <= newest /\ \A n \in DOMAIN parts : parts[n].max < rows[k].ts
  <2>1. client.pc = "insert"
    BY Zenon DEF InsertInto
  <2> QED BY <1>0, <1>1, <2>1, Zenon DEF Calling
<1>3. /\ Places(h, second, third) /\ Listed \subseteq DOMAIN parts /\ 0 \notin DOMAIN parts
      /\ DOMAIN parts = 1..Len(parts)
      /\ \A n \in DOMAIN parts : parts[n] \in Partition
      /\ \A n \in DOMAIN parts : parts[n].next # n
      /\ h \in DOMAIN parts /\ h \in Listed /\ newest \in Nat /\ rows \in Seq(Row) /\ p \in Partition
      /\ parts \in Seq(Partition) /\ Len(parts) \in Nat
  <2>1. /\ Places(h, second, third) /\ Listed \subseteq DOMAIN parts /\ 0 \notin DOMAIN parts
        /\ DOMAIN parts = 1..Len(parts)
        /\ \A n \in DOMAIN parts : parts[n] \in Partition
        /\ \A n \in DOMAIN parts : parts[n].next # n
    BY <1>0, <1>1, ListPlaces, Zenon
  <2>2. newest \in Nat /\ parts \in Seq(Partition)
    BY <1>1, Zenon DEF Linked
  <2>3. rows \in Seq(Row)
    BY <1>0, <1>1, Zenon DEF Typed, Call
  <2> QED BY <1>0, <2>1, <2>2, <2>3 DEF Places
<1>4. /\ insertRows(p, rows).outdated = <<>>
      /\ q \in Partition /\ q.kind = p.kind /\ q.next = p.next /\ q.points # <<>>
      /\ 0 < q.min /\ q.min <= q.max /\ q.max <= newest
      /\ p.min # 0 => q.min = p.min
      /\ p.min = 0 => \E k \in 1..Len(rows) : q.min = rows[k].ts
      /\ RowsIn(q) = RowsIn(p) \cup Range(rows)
  <2>1. p.min <= p.max
    BY <1>0, <1>1, <1>3, ZenonT(60) DEF Filled
  <2>2. \A k \in 1..Len(rows) : p.max < rows[k].ts /\ rows[k].ts <= newest
    BY <1>0, <1>2, <1>3
  <2>3. q = insertRows(p, rows).part /\ p \in Partition /\ rows \in Seq(Row) /\ rows # <<>> /\ newest \in Nat
    BY <1>0, <1>2, <1>3, Zenon
  <2> QED BY <2>1, <2>2, <2>3, InsertRowsFacts, Zenon
<1>5. /\ append(rows) /\ parts' = [parts EXCEPT ![h] = q]
      /\ client' = Idle /\ acked' = acked \cup Range(rows)
      /\ head' = h /\ UNCHANGED <<index, dirs, flusher, sweep, closer, expired, retired, newest, calls, scenario>>
  <2>1. Range(<<>>) = {}
    BY DEF Range
  <2>2. client.stored \cup (Range(rows) \ Range(insertRows(p, rows).outdated)) = Range(rows)
    BY <1>2, <1>4, <2>1, Zenon
  <2> QED BY <1>0, <1>2, <1>4, <2>2, Zenon DEF InsertInto, retention
<1>6. /\ DOMAIN parts' = DOMAIN parts /\ parts'[h] = q /\ \A n \in DOMAIN parts : n # h => parts'[n] = parts[n]
      /\ parts' \in Seq(Partition) /\ Len(parts') = Len(parts)
  <2>1. DOMAIN parts' = DOMAIN parts /\ parts'[h] = q /\ \A n \in DOMAIN parts : n # h => parts'[n] = parts[n]
    BY <1>3, <1>5, Zenon
  <2>2. parts' \in [1..Len(parts) -> Partition]
    BY <1>3, <1>4, <1>5, Zenon
  <2> QED BY <1>3, <2>1, <2>2, SeqIs, Zenon
<1>7. \A n \in DOMAIN parts : /\ parts'[n].kind = parts[n].kind /\ parts'[n].next = parts[n].next
                              /\ IsDisk(n)' = IsDisk(n) /\ IsMemory(n)' = IsMemory(n)
                              /\ n # h => DirOf(n)' = DirOf(n) /\ Rows(n)' = Rows(n)
  BY <1>0, <1>4, <1>6, ZenonT(60) DEF IsDisk, IsMemory, DirOf, Rows
<1>8. \A n \in DOMAIN parts : /\ parts[n].min \in Nat /\ parts[n].max \in Nat /\ parts[n].min <= parts[n].max
                              /\ parts[n].min <= newest
                              /\ p.min = 0 => parts[n].min < q.min
  <2>1. \A n \in DOMAIN parts : parts[n].min \in Nat /\ parts[n].max \in Nat /\ parts[n].min <= parts[n].max
    BY <1>1, <1>3, Zenon DEF Filled, Partition
  <2>2. q.min \in Nat
    BY <1>4, Zenon DEF Partition
  <2>3. ASSUME p.min = 0, NEW n \in DOMAIN parts PROVE parts[n].min < q.min
    <3>1. PICK k \in 1..Len(rows) : q.min = rows[k].ts
      BY <1>4, <2>3, Zenon
    <3>2. parts[n].max < q.min
      BY <1>2, <1>3, <3>1
    <3> QED BY <2>1, <2>2, <3>2
  <2> QED BY <1>1, <2>1, <2>3, Zenon DEF Linked
<1>9. p.min \in Nat /\ q.min \in Nat /\ q.max \in Nat /\ IsMemory(h) /\ p.kind = "memory"
  BY <1>0, <1>1, <1>3, <1>4, ZenonT(60) DEF Partition, Shape, IsMemory
<1>10. Linked(parts', head', newest')
  <2>1. ASSUME NEW n \in DOMAIN parts
        PROVE  /\ parts'[n].min <= newest
               /\ parts'[n].next # 0 =>
                     /\ parts'[n].next \in DOMAIN parts /\ parts'[parts'[n].next].min > 0
                     /\ parts'[n].min > 0 => parts'[parts'[n].next].min < parts'[n].min
    <3>1. parts'[n].min <= newest
      <4>1. CASE n = h
        BY <1>3, <1>4, <1>6, <1>9, <4>1, NatOrder, Zenon
      <4>2. CASE n # h
        BY <1>6, <1>8, <4>2, Zenon
      <4> QED BY <4>1, <4>2, ZenonT(60)
    <3>2. SUFFICES ASSUME parts[n].next # 0
                   PROVE  /\ parts[n].next \in DOMAIN parts /\ parts'[parts[n].next].min > 0
                          /\ parts'[n].min > 0 => parts'[parts[n].next].min < parts'[n].min
      BY <1>7, <3>1, Zenon
    <3>3. /\ parts[n].next \in DOMAIN parts /\ parts[parts[n].next].min > 0
          /\ parts[n].min > 0 => parts[parts[n].next].min < parts[n].min
      BY <1>1, <3>2, Zenon DEF Linked
    <3>4. CASE parts[n].next = h
      <4>1. n # h /\ p.min # 0 /\ parts'[h].min = p.min
        <5>1. n # h
          BY <1>3, <3>4, Zenon
        <5>2. p.min # 0
          BY <1>0, <3>3, <3>4, NatOrder, Zenon
        <5> QED BY <1>4, <1>6, <5>1, <5>2, Zenon
      <4> QED BY <1>0, <1>6, <3>3, <3>4, <4>1, Zenon
    <3>5. CASE parts[n].next # h
      <4>1. parts'[parts[n].next] = parts[parts[n].next]
        BY <1>6, <3>3, <3>5, Zenon
      <4>2. CASE n = h
        BY <1>0, <1>4, <1>6, <1>8, <1>9, <3>3, <4>1, <4>2, ZenonT(60)
      <4>3. CASE n # h
        BY <1>6, <3>3, <4>1, <4>3, Zenon
      <4> QED BY <4>2, <4>3, Zenon
    <3> QED BY <3>4, <3>5, Zenon
  <2> QED BY <1>3, <1>5, <1>6, <2>1, Zenon DEF Linked
<1>11. Listed' = Listed
  <2>1. Ranked(parts) /\ Ranked(parts') /\ h \in 1..Len(parts)
    BY <1>0, <1>1, <1>10, LinkedRanked, Zenon
  <2>2. Listed' = ListIn(parts', h) /\ Listed = ListIn(parts, h)
    BY <1>0, <1>5, ListedIn, Zenon DEF Listed, From, ListIn, FromIn
  <2>3. \A k \in 1..Len(parts) : parts'[k].next = parts[k].next
    BY <1>3, <1>7, Zenon
  <2> QED BY <1>6, <2>1, <2>2, <2>3, SameLinks, Zenon
<1>12. /\ Second' = second /\ Third' = third
       /\ (second # 0 => second \in DOMAIN parts /\ second # h)
       /\ (third # 0 => third \in DOMAIN parts /\ third # h)
  <2>1. /\ (second # 0 => second \in DOMAIN parts /\ second # h)
        /\ (third # 0 => third \in DOMAIN parts /\ third # h)
    BY <1>3, Zenon DEF Places
  <2>2. Second' = second
    BY <1>0, <1>3, <1>5, <1>7, Zenon DEF Second
  <2>3. Third' = third
    BY <1>0, <1>7, <2>1, <2>2, Zenon DEF Third
  <2> QED BY <2>1, <2>2, <2>3, Zenon
<1>13. IsMemory(Third)' = IsMemory(third)
  BY <1>6, <1>7, <1>12, Zenon DEF IsMemory
<1>14. IsMemory(third) => Rows(Third)' = Rows(third) /\ DirOf(Third)' = DirOf(third)
  BY <1>3, <1>7, <1>12, Zenon DEF IsMemory, Rows, DirOf
<1>16. Typed'
  <2>1. Idle \in Call
    BY DEF Idle, Call
  <2>2. segs' \in [DOMAIN segs' -> Seq(Row)] /\ DOMAIN segs' \subseteq Nat
    <3>1. segs' = [i \in DOMAIN segs |-> IF i = index - 1 THEN segs[i] \o rows ELSE segs[i]]
      BY <1>5, Zenon DEF append
    <3>2. segs \in [DOMAIN segs -> Seq(Row)] /\ DOMAIN segs \subseteq Nat
      BY <1>1, Zenon DEF Typed
    <3>3. \A i \in DOMAIN segs : segs[i] \o rows \in Seq(Row)
      BY <1>3, <3>2, SMTT(30)
    <3> QED BY <3>1, <3>2, <3>3, Zenon
  <2> QED BY <1>1, <1>5, <2>1, <2>2, Zenon DEF Typed
<1>17. Filled'
  <2>1. \A n \in DOMAIN parts : n # h =>
           /\ parts'[n].min <= parts'[n].max /\ parts'[n].min # 0
           /\ parts'[n].kind = "memory" => parts'[n].points # <<>>
    BY <1>0, <1>1, <1>6, <1>8 DEF Filled
  <2>2. parts'[h].min # 0 /\ parts'[h].min <= parts'[h].max /\ parts'[h].points # <<>>
    BY <1>4, <1>6, NatOrder, Zenon
  <2> QED BY <1>6, <2>1, <2>2, ZenonT(60) DEF Filled
<1>18. Apart'
  <2>1. ASSUME NEW n \in DOMAIN parts, n # h, n \in Listed \/ IsDisk(n) PROVE parts[n].min # q.min
    <3>1. CASE p.min = 0
      BY <1>8, <1>9, <2>1, <3>1
    <3>2. CASE p.min # 0
      BY <1>0, <1>1, <1>3, <1>4, <2>1, <3>2, Zenon DEF Apart
    <3> QED BY <3>1, <3>2, Zenon
  <2>2. ASSUME NEW m \in DOMAIN parts, NEW n \in DOMAIN parts,
               m \in Listed \/ IsDisk(m), n \in Listed \/ IsDisk(n), parts'[m].min = parts'[n].min
        PROVE  m = n
    <3>1. CASE m = h \/ n = h
      BY <1>6, <2>1, <2>2, <3>1, ZenonT(60)
    <3>2. CASE m # h /\ n # h
      BY <1>1, <1>6, <2>2, <3>2, Zenon DEF Apart
    <3> QED BY <3>1, <3>2, Zenon
  <2> QED BY <1>6, <1>7, <1>11, <2>2, Zenon DEF Apart
<1>19. Shape'
  <2>1. IsMemory(head)' /\ (second # 0 => IsMemory(Second)')
    <3>1. IsMemory(h)'
      BY <1>3, <1>7, <1>9, Zenon
    <3>2. second # 0 => IsMemory(second)'
      BY <1>0, <1>1, <1>7, <1>12, ZenonT(60) DEF Shape
    <3> QED BY <1>5, <1>12, <3>1, <3>2, Zenon DEF IsMemory
  <2>2. \A n \in Listed' : n \in {head', Second', Third'} \/ IsDisk(n)'
    BY <1>0, <1>1, <1>3, <1>5, <1>7, <1>11, <1>12, Zenon DEF Shape
  <2>3. ASSUME NEW n \in DOMAIN parts', n = Third' \/ IsDisk(n)'
        PROVE  (parts[n].next = 0 \/ IsDisk(parts[n].next))'
    <3>1. n \in DOMAIN parts /\ (n = third \/ IsDisk(n))
      BY <1>6, <1>7, <1>12, <2>3, Zenon
    <3>2. PICK v : v = parts[n].next
      OBVIOUS
    <3>3. v = 0 \/ IsDisk(v)
      BY <1>0, <1>1, <3>1, <3>2, ZenonT(60) DEF Shape
    <3>4. v = 0 \/ IsDisk(v)'
      BY <1>7, <3>3, Zenon DEF IsDisk
    <3> QED BY <1>7, <3>1, <3>2, <3>4, Zenon DEF IsDisk
  <2>4. IsMemory(Third)' =>
          \/ flusher'[1].pc = "started"
          \/ flusher'[1].pc \in {"visit"} \cup Flushing /\ flusher'[1].at = Third'
    BY <1>0, <1>1, <1>2, <1>5, <1>12, <1>13, Zenon DEF Shape
  <2> QED BY <1>12, <2>1, <2>2, <2>3, <2>4, Zenon DEF Shape
<1>20. Calling'
  <2>1. ASSUME NEW n \in DOMAIN parts' PROVE parts'[n].max <= newest
    <3>1. CASE n = h
      BY <1>4, <1>6, <3>1, ZenonT(60)
    <3>2. CASE n # h
      <4>1. 1 \in DOMAIN rows /\ rows[1] \in Row
        BY <1>2, <1>3, FirstOf, Zenon
      <4>2. rows[1].ts \in Nat /\ rows[1].ts <= newest /\ parts[n].max < rows[1].ts
        BY <1>2, <1>6, <4>1, Zenon DEF Row
      <4> QED BY <1>3, <1>6, <1>8, <3>2, <4>2, NatOrder, ZenonT(60)
    <3> QED BY <3>1, <3>2, Zenon
  <2>2. client'.pc = "idle"
    BY <1>5, Zenon DEF Idle
  <2> QED BY <1>5, <2>1, <2>2, Zenon DEF Calling
<1>21. FlushState'
  <2>0. PICK at : at = flusher[1].at
    BY Zenon
  <2>1. flusher[1].pc = "visit" => (at = 0 \/ IsDisk(at) \/ (at = Third /\ IsMemory(Third)))'
    <3>1. IsDisk(at) => IsDisk(at)'
      BY <1>7, Zenon DEF IsDisk
    <3> QED BY <1>0, <1>1, <1>12, <1>13, <2>0, <3>1, Zenon DEF FlushState
  <2>2. ASSUME flusher[1].pc \in Flushing
        PROVE  /\ at = Third' /\ IsMemory(Third)' /\ flusher[1].dir = DirOf(Third)'
               /\ Rows(Third)' = Rows(Third)
    BY <1>0, <1>1, <1>12, <1>13, <1>14, <2>0, <2>2, Zenon DEF FlushState
  <2>3. ASSUME flusher[1].pc = "removeOldest"
        PROVE  at \in DOMAIN parts' /\ Second' # 0 /\ (parts[at].next = 0 \/ IsDisk(parts[at].next))'
    <3>1. at \in DOMAIN parts /\ second # 0 /\ (parts[at].next = 0 \/ IsDisk(parts[at].next))
      BY <1>0, <1>1, <2>0, <2>3, Zenon DEF FlushState
    <3>2. PICK v : v = parts[at].next
      BY Zenon
    <3>3. v = 0 \/ IsDisk(v)'
      BY <1>7, <3>1, <3>2, Zenon DEF IsDisk
    <3> QED BY <1>6, <1>7, <1>12, <3>1, <3>2, <3>3, Zenon DEF IsDisk
  <2> QED BY <1>1, <1>5, <2>0, <2>1, <2>2, <2>3, ZenonT(60) DEF FlushState
<1>22. \A n \in DOMAIN parts : IsDisk(n) => n # h
  BY <1>9, Zenon DEF IsDisk, IsMemory
<1>23. Directories'
  <2>1. \A d \in DOMAIN dirs :
          \/ dirs[d].meta = "valid" /\ \E n \in DOMAIN parts' : IsDisk(n)' /\ d = DirOf(n)'
          \/ flusher[1].pc \in Flushing /\ d = flusher[1].dir
    BY <1>1, <1>6, <1>7, <1>22, ZenonT(60) DEF Directories
  <2>2. \A n \in Listed' : IsDisk(n)' => Valid(DirOf(n))'
    <3>1. ASSUME NEW n \in Listed', IsDisk(n)' PROVE Valid(DirOf(n)) /\ DirOf(n)' = DirOf(n)
      BY <1>1, <1>3, <1>7, <1>11, <1>22, <3>1, Zenon DEF Directories
    <3> QED BY <1>5, <3>1, Zenon DEF Valid
  <2>3. \A d \in expired :
          /\ \/ \E n \in DOMAIN parts' : IsDisk(n)' /\ d = DirOf(n)'
             \/ flusher[1].pc \in {"open", "swap"} /\ d = flusher[1].dir
          /\ d \in DOMAIN dirs => Range(dirs[d].data) \subseteq retired
    BY <1>1, <1>6, <1>7, <1>22, ZenonT(60) DEF Directories
  <2>4. ASSUME NEW s \in DOMAIN sweep, NEW k \in DOMAIN sweep[s]
        PROVE  IsDisk(sweep[s][k])' /\ DirOf(sweep[s][k])' \in expired'
    <3>1. PICK v : v = sweep[s][k]
      OBVIOUS
    <3>2. IsDisk(v) /\ DirOf(v) \in expired /\ v \in DOMAIN parts
      BY <1>1, <3>1, Zenon DEF Directories, IsDisk
    <3>3. IsDisk(v)' /\ DirOf(v)' \in expired
      BY <1>7, <1>22, <3>2, Zenon
    <3> QED BY <1>5, <3>1, <3>3, Zenon DEF IsDisk, DirOf
  <2> QED BY <1>5, <2>1, <2>2, <2>3, <2>4, Zenon DEF Directories
<1>24. Holding'
  <2>1. ASSUME NEW n \in Listed, n # h PROVE Kept(n)' = Kept(n)
    BY <1>3, <1>5, <1>7, <2>1, ZenonT(60) DEF Kept, Valid
  <2>2. Kept(h)' = Kept(h) \cup Range(rows)
    <3>1. Kept(h) = RowsIn(p)
      BY <1>0, <1>9, Zenon DEF Kept, Rows
    <3>2. Kept(h)' = RowsIn(q)
      BY <1>4, <1>6, <1>9, Zenon DEF Kept, Rows
    <3> QED BY <1>4, <3>1, <3>2, Zenon
  <2>3. Owed' \subseteq Owed \cup Range(rows)
    BY <1>5, Zenon DEF Owed
  <2>4. Owed' \subseteq UNION {Kept(n)' : n \in Listed'}
    <3>1. ASSUME NEW r \in Owed' PROVE \E n \in Listed : r \in Kept(n)'
      <4>1. CASE r \in Range(rows)
        BY <1>3, <2>2, <4>1, Zenon
      <4>2. CASE r \in Owed
        <5>1. PICK n \in Listed : r \in Kept(n)
          BY <1>1, <4>2, Zenon DEF Holding
        <5> QED BY <2>1, <2>2, <5>1, Zenon
      <4> QED BY <2>3, <4>1, <4>2, Zenon
    <3> QED BY <1>11, <3>1, Zenon
  <2> QED BY <2>4, Zenon DEF Holding
<1>25. Segments'
  <2>1. SUFFICES ASSUME Tracked PROVE Segments'
    BY <1>5, Zenon DEF Segments, Tracked, Logging
  <2>2. index \in Nat /\ index' = index /\ segs \in [DOMAIN segs -> Seq(Row)]
    BY <1>1, <1>5, Zenon DEF Typed
  <2>3. HeadSegment = index - 1 /\ HeadSegment' = index - 1
    BY <1>2, <1>5, <2>2, Zenon DEF HeadSegment, Idle
  <2>4. OldestSegment' = OldestSegment
    BY <1>0, <1>5, <1>12, <1>13, <2>3, ZenonT(60) DEF OldestSegment
  <2>5. segs' = [i \in DOMAIN segs |-> IF i = index - 1 THEN segs[i] \o rows ELSE segs[i]]
    BY <1>5 DEF append
  <2>6. DOMAIN segs = OldestSegment..(index - 1) /\ DOMAIN segs' = DOMAIN segs
    BY <1>1, <2>1, <2>5, Zenon DEF Segments
  <2>7. /\ index - 1 \in DOMAIN segs /\ (second # 0 => index - 1 - 1 \in DOMAIN segs)
        /\ (IsMemory(third) => index - 1 - 2 \in DOMAIN segs)
    <3>1. third # 0 => second # 0
      BY <1>3, Zenon DEF Places
    <3>2. IsMemory(third) => third # 0
      BY <1>3, Zenon DEF IsMemory
    <3> QED BY <1>0, <2>2, <2>3, <2>6, <3>1, <3>2, SMTT(30) DEF OldestSegment
  <2>8. Rows(head)' \subseteq Range(segs'[index - 1])
    <3>1. Range(segs[index - 1] \o rows) = Range(segs[index - 1]) \cup Range(rows)
      <4>1. segs[index - 1] \in Seq(Row)
        BY <2>2, <2>7, Zenon
      <4> QED BY <1>3, <4>1, RangeConcat
    <3>2. RowsIn(p) \subseteq Range(segs[index - 1])
      BY <1>0, <1>1, <1>2, <2>1, <2>3, Zenon DEF Segments, Rows
    <3>3. Rows(head)' = RowsIn(q)
      BY <1>5, <1>6, Zenon DEF Rows
    <3> QED BY <1>4, <2>5, <2>7, <3>1, <3>2, <3>3, Zenon
  <2>9. second # 0 => Rows(Second)' \subseteq Range(segs'[index - 1 - 1])
    <3>1. SUFFICES ASSUME second # 0 PROVE Rows(Second)' \subseteq Range(segs'[index - 1 - 1])
      BY Zenon
    <3>2. Rows(Second)' = Rows(second)
      BY <1>6, <1>12, <3>1, Zenon DEF Rows
    <3>3. Rows(second) \subseteq Range(segs[index - 1 - 1])
      BY <1>0, <1>1, <2>1, <2>3, <3>1, Zenon DEF Segments
    <3>4. segs'[index - 1 - 1] = segs[index - 1 - 1]
      <4>1. index - 1 - 1 # index - 1
        BY <2>2
      <4> QED BY <2>5, <2>7, <3>1, <4>1, Zenon
    <3> QED BY <3>2, <3>3, <3>4, Zenon
  <2>10. IsMemory(third) => Rows(Third)' \subseteq Range(segs'[index - 1 - 2])
    <3>1. SUFFICES ASSUME IsMemory(third) PROVE Rows(Third)' \subseteq Range(segs'[index - 1 - 2])
      BY Zenon
    <3>2. Rows(third) \subseteq Range(segs[index - 1 - 2])
      BY <1>0, <1>1, <2>1, <2>3, <3>1, Zenon DEF Segments
    <3>3. segs'[index - 1 - 2] = segs[index - 1 - 2]
      <4>1. index - 1 - 2 # index - 1
        BY <2>2
      <4> QED BY <2>5, <2>7, <3>1, <4>1, Zenon
    <3> QED BY <1>14, <3>1, <3>2, <3>3, Zenon
  <2> QED BY <1>12, <1>13, <2>2, <2>3, <2>4, <2>6, <2>8, <2>9, <2>10, ZenonT(60) DEF Segments
<1> QED BY <1>10, <1>16, <1>17, <1>18, <1>19, <1>20, <1>21, <1>23, <1>24, <1>25, ZenonT(60) DEF Running

-----------------------------------------------------------------------------
(* The first run *)

(* Every step of the flusher keeps the invariant. *)
LEMMA FlushPartitionsKeeps ==
    ASSUME Running, FlushPartitions(1)
    PROVE  Running'
<1>1. ~ RemoveEmpty(1)
  <2>1. flusher[1].pc # "remove"
    BY Zenon DEF Running, Typed, Flush
  <2> QED BY <2>1, Zenon DEF RemoveEmpty, At
<1> QED BY <1>1, SkipWritableKeeps, SkipDiskKeeps, CreateDataFileKeeps, EncodePointsKeeps,
           TruncateMetaKeeps, WriteMetaKeeps, OpenDiskPartitionKeeps, RemoveInMemoryKeeps,
           SwapPartitionsKeeps, RemoveOldestKeeps, ZenonT(60) DEF FlushPartitions

(* So does a step that changes nothing. *)
LEMMA SameState ==
    ASSUME Running, UNCHANGED vars
    PROVE  Running'
<1>1. /\ UNCHANGED <<wal, dirs, client, flusher, sweep, closer, expired, retired, acked, newest, calls, scenario>>
      /\ UNCHANGED list /\ parts' = parts /\ head' = head
  BY Zenon DEF vars, history, retention, list
<1>2. Listed' = Listed
  BY <1>1, SameListed, Zenon
<1>3. Typed' /\ Linked(parts', head', newest') /\ Filled' /\ Apart'
  BY <1>1, <1>2, Zenon DEF Running, Typed, Filled, Apart, IsDisk, wal
<1>4. Shape'
  BY <1>1, <1>2, Zenon DEF Running, Shape, IsMemory, IsDisk, Second, Third
<1>5. Calling'
  BY <1>1, Zenon DEF Running, Calling, Second
<1>6. FlushState'
  BY <1>1, <1>2, Zenon DEF Running, FlushState, IsMemory, IsDisk, Second, Third, DirOf, Rows
<1>7. Directories'
  BY <1>1, <1>2, Zenon DEF Running, Directories, IsDisk, DirOf, Valid
<1>8. Holding'
  BY <1>1, <1>2, Zenon DEF Running, Holding, Owed, Kept, Rows, Valid, DirOf
<1>9. Segments'
  BY <1>1, Zenon DEF Running, Segments, Tracked, Logging, OldestSegment, HeadSegment, Second, Third, IsMemory, Rows, wal
<1> QED BY <1>3, <1>4, <1>5, <1>6, <1>7, <1>8, <1>9, Zenon DEF Running

(* What a step leaves of the log and of the directories *)
SafeKept == Logging' = Logging /\ (Safe => Safe')

(* A crash ends the process, and leaves both as they are. *)
LEMMA CrashKeeps ==
    ASSUME Running, ProcessEnds
    PROVE  Ended' /\ SafeKept
<1>1. /\ status' = "down" /\ client' = Idle
      /\ UNCHANGED <<segs, dirs, expired, retired, acked, scenario>>
  BY Zenon DEF ProcessEnds, retention, history
<1>2. scenario \in Scenarios
  BY Zenon DEF Running, Typed
<1>3. Logging' = Logging /\ Safe' = Safe
  BY <1>1, ZenonT(60) DEF Logging, Safe, Owed, Logged, OnDisk, Valid
<1> QED BY <1>1, <1>2, <1>3, Zenon DEF Ended, SafeKept

(* The steps of a first run that is under way *)
LEMMA RunningStep ==
    ASSUME InOrderClient, Running, status = "running", restarts = 0, Next
    PROVE  /\ restarts' = 0
           /\ \/ status' = "running" /\ Running'
              \/ Ended' /\ SafeKept
<1>1. /\ scenario \in Scenarios /\ closer.pc = "none" /\ client.pc # "failed" /\ 0 \notin scenario.closeIn
      /\ Flushers = {1}
  BY DEF Running, Typed, NotClosing, Call, InOrderClient, Flushers
<1>2. ASSUME NEW b \in scenario.batches, InsertRows(b) PROVE status' = "running" /\ Running' /\ restarts' = 0
  <2>1. status' = "running" /\ restarts' = 0
    BY <1>2 DEF InsertRows
  <2> QED BY <1>2, <2>1, InsertActiveKeeps, InsertNewHeadKeeps, Zenon
<1>3. ASSUME ClientStep PROVE status' = "running" /\ Running' /\ restarts' = 0
  <2>1. ~ InsertFailed
    BY <1>1, Zenon DEF InsertFailed
  <2>2. ~ InsertRefused
    BY DEF InsertRefused, Running, Calling, Shape, IsMemory
  <2>3. CASE Punctuate
    BY <2>3, PunctuateKeeps, Zenon DEF Punctuate, history
  <2>4. CASE InsertInto
    BY <2>4, InsertIntoKeeps, Zenon DEF InsertInto
  <2> QED BY <1>3, <2>1, <2>2, <2>3, <2>4, Zenon DEF ClientStep
<1>4. ASSUME NEW f \in Flushers, FlushPartitions(f) PROVE status' = "running" /\ Running' /\ restarts' = 0
  <2>1. status' = status /\ restarts' = restarts
    BY <1>4, ZenonT(60) DEF FlushPartitions, SkipWritable, SkipDisk, CreateDataFile, EncodePoints, TruncateMeta,
        WriteMeta, OpenDiskPartition, RemoveEmpty, RemoveInMemory, SwapPartitions, RemoveOldest, history
  <2> QED BY <1>1, <1>4, <2>1, FlushPartitionsKeeps, Zenon
<1>5. ASSUME NEW d \in DOMAIN dirs, Expire(d) PROVE status' = "running" /\ Running' /\ restarts' = 0
  BY <1>5, ExpireKeeps, Zenon DEF Expire, history
<1>6. ASSUME Tick PROVE status' = "running" /\ Running' /\ restarts' = 0
  BY <1>6, TickKeeps, Zenon DEF Tick, history
<1>7. ASSUME NEW s \in DOMAIN sweep, RemoveExpired(s) PROVE status' = "running" /\ Running' /\ restarts' = 0
  BY <1>7, RemoveExpiredKeeps, Zenon DEF RemoveExpired, history
<1>8. ~ Close /\ ~ CloseStep
  BY <1>1, Zenon DEF Close, CloseStep, CloseInsert, ClosePunctuate, CloseFlush, CloseSweep, CloseRemoveAll,
      CloseFails, Closing
<1>9. ASSUME Crash PROVE Ended' /\ SafeKept /\ restarts' = 0
  BY <1>9, CrashKeeps, Zenon DEF Crash, ProcessEnds, history
<1>10. ~ Exit /\ ~ NewStorage /\ ~ Refresh /\ ~ OpenHead
  BY SMTT(30) DEF Exit, NewStorage, Refresh, OpenHead
<1>11. ASSUME Finished PROVE status' = "running" /\ Running' /\ restarts' = 0
  BY <1>11, SameState, ZenonT(60) DEF Finished, vars, history
<1> QED BY <1>2, <1>3, <1>4, <1>5, <1>6, <1>7, <1>8, <1>9, <1>10, <1>11, ZenonT(60) DEF Next

LEMMA SameSafe ==
    ASSUME UNCHANGED vars
    PROVE  SafeKept
<1>1. UNCHANGED <<segs, dirs, expired, retired, acked, scenario>>
  BY Zenon DEF vars, retention, history, wal
<1> QED BY <1>1, ZenonT(60) DEF SafeKept, Logging, Safe, Owed, Logged, OnDisk, Valid

(* The steps of one that has ended *)
LEMMA EndedStep ==
    ASSUME Ended, restarts = 0, Next
    PROVE  \/ restarts' = 1
           \/ restarts' = 0 /\ Ended' /\ SafeKept
<1>1. status = "down" /\ client.pc = "idle" /\ ~ Up
  BY Zenon DEF Ended, Idle, Up
<1>2. \A b \in scenario.batches : ~ InsertRows(b)
  BY <1>1 DEF InsertRows
<1>3. ~ ClientStep
  BY <1>1, ZenonT(60) DEF ClientStep, Punctuate, InsertInto, InsertRefused, InsertFailed
<1>4. \A f \in Flushers : ~ FlushPartitions(f)
  BY <1>1, ZenonT(60) DEF FlushPartitions, SkipWritable, SkipDisk, CreateDataFile, EncodePoints, TruncateMeta,
      WriteMeta, OpenDiskPartition, RemoveEmpty, RemoveInMemory, SwapPartitions, RemoveOldest, At
<1>5. ~ Tick /\ \A s \in DOMAIN sweep : ~ RemoveExpired(s)
  BY <1>1 DEF Tick, RemoveExpired
<1>6. ~ Close /\ ~ CloseStep
  BY <1>1, Zenon DEF Close, CloseStep, CloseInsert, ClosePunctuate, CloseFlush, CloseSweep, CloseRemoveAll,
      CloseFails, Closing
<1>7. ~ Crash /\ ~ Exit /\ ~ Refresh /\ ~ OpenHead
  BY <1>1, Zenon DEF Crash, Exit, Refresh, OpenHead
<1>8. ASSUME NEW d \in DOMAIN dirs, Expire(d) PROVE restarts' = 0 /\ Ended' /\ SafeKept
  <2>1. /\ retired' = retired \cup Range(dirs[d].data)
        /\ UNCHANGED <<status, segs, dirs, client, acked, restarts, scenario>>
    BY <1>8, Zenon DEF Expire, wal, history
  <2>2. Logging' = Logging /\ (Safe => Safe')
    BY <2>1 DEF Logging, Safe, Owed, Logged, OnDisk, Valid
  <2> QED BY <2>1, <2>2, Zenon DEF Ended, SafeKept
<1>9. NewStorage => restarts' = 1
  BY DEF NewStorage
<1>10. ASSUME Finished PROVE restarts' = 0 /\ Ended' /\ SafeKept
  <2>1. UNCHANGED vars
    BY <1>10, Zenon DEF Finished
  <2>2. restarts' = 0 /\ Ended'
    BY <2>1, Zenon DEF vars, history, Ended
  <2> QED BY <2>1, <2>2, SameSafe, Zenon
<1> QED BY <1>2, <1>3, <1>4, <1>5, <1>6, <1>7, <1>8, <1>9, <1>10, ZenonT(60) DEF Next

(* NewStorage on an empty data path, or without one *)
LEMMA FirstRunStarts ==
    ASSUME InOrderClient, Init
    PROVE  FirstRun
<1>1. /\ scenario \in Scenarios /\ status = "running" /\ head = 1 /\ parts = <<NewPartition>>
      /\ segs = [i \in IF Logging THEN {0} ELSE {} |-> <<>>] /\ index = 1
      /\ dirs = [d \in {} |-> <<>>] /\ client = Idle /\ flusher = [f \in Flushers |-> NoFlush]
      /\ sweep = NoSweep /\ closer = NotClosing /\ expired = {} /\ retired = {}
      /\ acked = {} /\ newest = 0 /\ calls = 0 /\ restarts = 0
  BY Zenon DEF Init
<1>2. /\ NewPartition \in Partition /\ NewPartition.kind = "memory" /\ NewPartition.min = 0
      /\ NewPartition.max = 0 /\ NewPartition.points = <<>> /\ NewPartition.late = <<>>
      /\ NewPartition.next = 0
  BY DEF NewPartition, Partition
<1>3. parts \in Seq(Partition) /\ DOMAIN parts = {1} /\ parts[1] = NewPartition
  BY <1>1, <1>2, SMTT(30)
<1>4. Linked(parts, head, newest)
  BY <1>1, <1>2, <1>3 DEF Linked
<1>5. Listed = {1} /\ Second = 0 /\ Third = 0
  <2>1. Listed \subseteq DOMAIN parts /\ head \in Listed
    BY <1>4, ListPlaces, Zenon DEF Places
  <2> QED BY <1>1, <1>2, <1>3, <2>1, Zenon DEF Second, Third
<1>6. DOMAIN dirs = {} /\ flusher = [f \in {1} |-> NoFlush] /\ flusher[1].pc = "idle"
  BY <1>1 DEF Flushers, InOrderClient, NoFlush
<1>7. Typed
  <2>1. Idle \in Call
    BY DEF Idle, Call
  <2>2. NoFlush \in Flush
    BY Zenon DEF NoFlush, Flush
  <2>3. sweep \in [DOMAIN sweep -> Seq(Nat)] /\ ("Close" \in DOMAIN sweep => sweep["Close"] = <<>>)
    BY <1>1 DEF NoSweep
  <2>4. segs \in [DOMAIN segs -> Seq(Row)] /\ DOMAIN segs \subseteq Nat
    BY <1>1
  <2> QED BY <1>1, <1>6, <2>1, <2>2, <2>3, <2>4, ZenonT(60) DEF Typed
<1>8. Filled /\ Apart
  <2>1. 0 <= 0 /\ ~ (0 > 0)
    BY SMT
  <2>2. Filled
    BY <1>1, <1>2, <1>3, <2>1, Zenon DEF Filled
  <2> QED BY <1>3, <2>2, Zenon DEF Apart
<1>9. Shape
  <2>0. 0 # 1
    BY SMT
  <2>1. IsMemory(1) /\ ~ IsDisk(1) /\ ~ IsMemory(0)
    BY <1>2, <1>3, <2>0, Zenon DEF IsMemory, IsDisk
  <2> QED BY <1>1, <1>2, <1>3, <1>5, <2>1, ZenonT(60) DEF Shape
<1>10. Calling
  BY <1>1, <1>2, <1>3 DEF Calling, Idle
<1>11. FlushState
  BY <1>6, Zenon DEF FlushState, Flushing
<1>12. Directories
  <2>1. \A s \in DOMAIN sweep : DOMAIN sweep[s] = {}
    BY <1>1 DEF NoSweep
  <2> QED BY <1>1, <1>2, <1>3, <1>5, <1>6, <2>1, Zenon DEF Directories, IsDisk
<1>13. Holding
  BY <1>1, Zenon DEF Holding, Owed
<1>14. Segments
  <2>1. SUFFICES ASSUME Tracked PROVE Segments
    BY Zenon DEF Segments
  <2>2. HeadSegment = 0 /\ OldestSegment = 0
    BY <1>1, <1>5 DEF HeadSegment, OldestSegment, Idle
  <2>3. DOMAIN segs = {0} /\ 0..(index - 1) = {0}
    BY <1>1, <2>1 DEF Tracked
  <2>4. Rows(head) = {} /\ ~ IsMemory(Third)
    BY <1>1, <1>2, <1>3, <1>5 DEF Rows, RowsIn, Range, IsMemory
  <2> QED BY <1>5, <2>2, <2>3, <2>4, Zenon DEF Segments
<1> QED BY <1>1, <1>4, <1>7, <1>8, <1>9, <1>10, <1>11, <1>12, <1>13, <1>14, ZenonT(60) DEF FirstRun, Running

(* Only NewStorage counts a restart. *)
LEMMA RestartsStep ==
    ASSUME Next
    PROVE  restarts' = IF NewStorage THEN restarts + 1 ELSE restarts
<1>1. (\E b \in scenario.batches : InsertRows(b)) => restarts' = restarts
  BY Zenon DEF InsertRows
<1>2. ClientStep => restarts' = restarts
  BY DEF ClientStep, Punctuate, InsertInto, InsertRefused, InsertFailed, history
<1>3. (\E f \in Flushers : FlushPartitions(f)) => restarts' = restarts
  BY Zenon DEF FlushPartitions, SkipWritable, SkipDisk, CreateDataFile, EncodePoints, TruncateMeta,
      WriteMeta, OpenDiskPartition, RemoveEmpty, RemoveInMemory, SwapPartitions, RemoveOldest, history
<1>4. (\E d \in DOMAIN dirs : Expire(d)) \/ Tick \/ (\E s \in DOMAIN sweep : RemoveExpired(s))
      => restarts' = restarts
  BY Zenon DEF Expire, Tick, RemoveExpired, history
<1>5. Close \/ CloseStep => restarts' = restarts
  BY Zenon DEF Close, CloseStep, CloseInsert, ClosePunctuate, CloseFlush, CloseSweep, CloseRemoveAll,
      CloseFails, history
<1>6. Crash \/ Exit \/ Refresh \/ OpenHead \/ Finished => restarts' = restarts
  BY Zenon DEF Crash, Exit, ProcessEnds, Refresh, OpenHead, Finished, vars, history
<1>7. NewStorage => restarts' = restarts + 1
  BY DEF NewStorage
<1> QED BY <1>1, <1>2, <1>3, <1>4, <1>5, <1>6, <1>7, Zenon DEF Next

(* Every step of the first run keeps the invariant, and later runs are not  *)
(* concerned.                                                               *)
LEMMA FirstRunKept ==
    ASSUME InOrderClient, FirstRun, [Next]_vars
    PROVE  FirstRun'
<1>1. restarts \in Nat
  BY Zenon DEF FirstRun
<1>2. CASE UNCHANGED vars
  <2>1. /\ UNCHANGED <<status, restarts, client, scenario>>
        /\ (Ended => Ended')
    BY <1>2, Zenon DEF vars, history, Ended
  <2>2. Running => Running'
    BY <1>2, SameState
  <2> QED BY <2>1, <2>2, Zenon DEF FirstRun
<1>3. CASE Next /\ restarts # 0
  <2>1. restarts' = restarts \/ restarts' = restarts + 1
    BY <1>3, RestartsStep, Zenon
  <2> QED BY <1>1, <1>3, <2>1 DEF FirstRun
<1>4. CASE Next /\ restarts = 0
  <2>1. CASE status = "running" /\ Running
    BY <1>4, <2>1, RunningStep, Zenon DEF FirstRun
  <2>2. CASE Ended
    BY <1>4, <2>2, EndedStep DEF FirstRun
  <2> QED BY <1>4, <2>1, <2>2, Zenon DEF FirstRun
<1> QED BY <1>2, <1>3, <1>4, Zenon

-----------------------------------------------------------------------------
(* What holds in the first run *)

(* The inductive invariant: from NewStorage on an empty data path, until    *)
(* the process has crashed and NewStorage is called again, the list is two  *)
(* memory partitions, perhaps a third that the flush is at, and disk        *)
(* partitions, and the partitions hold every row that is owed; each memory  *)
(* partition has a log segment of its own, as long as the process has made  *)
(* no more than ten segments.  This is needed: removeOldest takes segment   *)
(* 10, which is the head's, before segment 8.                               *)
THEOREM FirstRunInvariant ==
    ASSUME InOrderClient
    PROVE  Spec => []FirstRun
<1>1. Init => FirstRun
  BY FirstRunStarts, Zenon
<1>2. FirstRun /\ [Next]_vars => FirstRun'
  BY FirstRunKept
<1> QED BY <1>1, <1>2, PTL DEF Spec

(* After the crash what is owed stays where it is. *)
FirstRunSafe == restarts = 0 /\ Logging => Safe

LEMMA SafeStep ==
    ASSUME InOrderClient, FirstRun, FirstRunSafe, index' <= 10, [Next]_vars
    PROVE  FirstRunSafe'
<1>1. SUFFICES ASSUME restarts' = 0, Logging' PROVE Safe'
  BY Zenon DEF FirstRunSafe
<1>2. restarts = 0
  <2>1. restarts \in Nat
    BY Zenon DEF FirstRun
  <2>2. CASE UNCHANGED vars
    BY <1>1, <2>2, Zenon DEF vars, history
  <2>3. CASE Next
    <3>1. restarts' = restarts \/ restarts' = restarts + 1
      BY <2>3, RestartsStep, Zenon
    <3> QED BY <1>1, <2>1, <3>1
  <2> QED BY <2>2, <2>3
<1>3. SafeKept => Safe'
  BY <1>1, <1>2, Zenon DEF SafeKept, FirstRunSafe
<1>4. Running' => Safe'
  <2>1. (Running /\ Tracked => Safe)'
    BY RunningSafe, PTL
  <2> QED BY <1>1, <2>1, Zenon DEF Tracked
<1>5. CASE UNCHANGED vars
  BY <1>3, <1>5, SameSafe, Zenon
<1>6. CASE Next
  <2>1. CASE status = "running" /\ Running
    BY <1>2, <1>3, <1>4, <1>6, <2>1, RunningStep, Zenon
  <2>2. CASE Ended
    <3>1. 0 # 1
      OBVIOUS
    <3> QED BY <1>1, <1>2, <1>3, <1>6, <2>2, <3>1, EndedStep, Zenon
  <2> QED BY <1>2, <2>1, <2>2, Zenon DEF FirstRun
<1> QED BY <1>5, <1>6

(* Until Close is called, a crash at any moment costs no row that           *)
(* InsertRows has returned nil for: it is in a segment that removeOldest    *)
(* has left, or in a directory whose meta file is written.  The process     *)
(* makes no more than ten segments.                                         *)
THEOREM FirstRunDurable ==
    ASSUME InOrderClient
    PROVE  Spec /\ [](index <= 10) => []Durable
<1>1. Init => FirstRunSafe
  BY Zenon DEF Init, FirstRunSafe, Safe, Owed
<1>2. FirstRun /\ FirstRunSafe /\ (index <= 10)' /\ [Next]_vars => FirstRunSafe'
  BY SafeStep
<1>3. FirstRunSafe => Durable
  BY Zenon DEF FirstRunSafe, Durable
<1> QED BY <1>1, <1>2, <1>3, FirstRunInvariant, PTL DEF Spec

(* In the first run every owed row is in a partition of the list, whatever  *)
(* a roll-over, a flush or the removal of expired partitions is doing.      *)
THEOREM FirstRunHeld ==
    ASSUME InOrderClient
    PROVE  Spec => [](restarts = 0 => Held)
<1>1. FirstRun => (restarts = 0 => Held)
  <2>1. SUFFICES ASSUME Running PROVE Owed \subseteq UNION {Range(Holds(n)) : n \in Listed}
    BY Zenon DEF FirstRun, Held, Ended
  <2>2. Linked(parts, head, newest) /\ Holding
    BY <2>1, Zenon DEF Running
  <2>3. Listed \subseteq DOMAIN parts /\ \A n \in DOMAIN parts : parts[n] \in Partition
    BY <2>2, ListPlaces, Zenon
  <2>4. ASSUME NEW n \in Listed PROVE Kept(n) \subseteq Range(Holds(n))
    <3>1. parts[n].points \in Seq(Row) /\ parts[n].late \in Seq(Row)
      BY <2>3, Zenon DEF Partition
    <3>2. Range(parts[n].points \o parts[n].late) = Rows(n)
      BY <3>1, RangeConcat, ZenonT(60) DEF Rows, RowsIn
    <3> QED BY <3>2, Zenon DEF Kept, Holds, DirOf
  <2> QED BY <2>2, <2>4, Zenon DEF Holding
<1> QED BY <1>1, FirstRunInvariant, PTL

(* In the first run the head is a memory partition, so that InsertRows has  *)
(* one to insert into: no flush or removal reaches it.                      *)
THEOREM FirstRunHead ==
    ASSUME InOrderClient
    PROVE  Spec => [](restarts = 0 => HeadIsMemory)
<1>1. FirstRun => (restarts = 0 => HeadIsMemory)
  BY Zenon DEF FirstRun, Ended, Running, Shape, IsMemory, HeadIsMemory
<1> QED BY <1>1, FirstRunInvariant, PTL

(* No scenario starts the process again. *)
OneRun == \A sc \in Scenarios : sc.maxRestarts = 0

(* A directory that opens as a partition is not written again, only         *)
(* removed: the flush creates, encodes and truncates only in a directory    *)
(* that does not open yet.                                                  *)
LEMMA DirsStep ==
    ASSUME InOrderClient, FirstRun, restarts = 0, Next, NEW d \in DOMAIN dirs, Opened(d) = "ok"
    PROVE  d \notin DOMAIN dirs' \/ dirs'[d] = dirs[d]
<1>1. CASE Ended
  <2>1. ~ Up /\ client.pc = "idle" /\ status = "down"
    BY <1>1, Zenon DEF Ended, Idle, Up
  <2>2. UNCHANGED dirs
    BY <2>1, ZenonT(60) DEF Next, InsertRows, ClientStep, Punctuate, InsertInto, InsertRefused, InsertFailed,
        FlushPartitions, SkipWritable, SkipDisk, CreateDataFile, EncodePoints, TruncateMeta, WriteMeta,
        OpenDiskPartition, RemoveEmpty, RemoveInMemory, SwapPartitions, RemoveOldest, At, Expire, Tick,
        RemoveExpired, Close, CloseStep, CloseInsert, ClosePunctuate, CloseFlush, CloseSweep,
        CloseRemoveAll, CloseFails, Closing, Crash, Exit, NewStorage, Refresh, OpenHead, Finished, vars
  <2> QED BY <2>2, Zenon
<1>2. CASE status = "running" /\ Running
  <2>1. Typed /\ Linked(parts, head, newest) /\ FlushState /\ Directories
    BY <1>2, Zenon DEF Running
  <2>2. dirs[d].meta = "valid"
    BY <2>1, Zenon DEF Typed, Directory, Opened
  <2>3. ASSUME FlushPartitions(1) PROVE dirs'[d] = dirs[d]
    <3>1. ~ RemoveEmpty(1)
      BY <2>1, Zenon DEF Typed, Flush, RemoveEmpty, At
    <3>2. CASE SkipWritable(1) \/ SkipDisk(1) \/ OpenDiskPartition(1) \/ RemoveInMemory(1)
               \/ SwapPartitions(1) \/ RemoveOldest(1)
      BY <3>2, Zenon DEF SkipWritable, SkipDisk, OpenDiskPartition, RemoveInMemory, SwapPartitions, RemoveOldest
    <3>3. CASE CreateDataFile(1)
      <4>1. flusher[1].pc = "visit" /\ flusher[1].at = Third /\ IsMemory(Third)
        BY <2>1, <3>3, Zenon DEF CreateDataFile, At, FlushState, IsDisk
      <4>2. \A n \in DOMAIN parts : IsDisk(n) => DirOf(n) # DirOf(Third)
        BY <1>2, <4>1, DirIsNew, Zenon
      <4>3. DirOf(Third) \notin DOMAIN dirs
        BY <2>1, <4>1, <4>2, Zenon DEF Directories, Flushing
      <4>4. dirs' = [e \in DOMAIN dirs \cup {DirOf(Third)} |-> IF e = DirOf(Third) THEN NewDir ELSE dirs[e]]
        BY <3>3, <4>1, <4>3, Zenon DEF CreateDataFile, DirOf
      <4> QED BY <4>3, <4>4, Zenon
    <3>4. CASE EncodePoints(1) \/ TruncateMeta(1) \/ WriteMeta(1)
      <4>1. d # flusher[1].dir
        BY <2>1, <2>2, <3>4, Zenon DEF EncodePoints, TruncateMeta, WriteMeta, At, FlushState, Flushing
      <4> QED BY <3>4, <4>1, Zenon DEF EncodePoints, TruncateMeta, WriteMeta
    <3> QED BY <2>3, <3>1, <3>2, <3>3, <3>4, Zenon DEF FlushPartitions
  <2>4. ASSUME NEW s \in DOMAIN sweep, RemoveExpired(s) PROVE d \notin DOMAIN dirs' \/ dirs'[d] = dirs[d]
    BY <2>4, Zenon DEF RemoveExpired, cleaned
  <2>5. Flushers = {1}
    BY DEF Flushers, InOrderClient
  <2>6. CASE ~ (\E f \in Flushers : FlushPartitions(f)) /\ ~ (\E s \in DOMAIN sweep : RemoveExpired(s))
    <3>1. UNCHANGED dirs
      BY <2>6, Zenon DEF Next, InsertRows, ClientStep, Punctuate, InsertInto, InsertRefused, InsertFailed,
          Expire, Tick, Close, CloseStep, CloseInsert, ClosePunctuate, CloseFlush, CloseSweep,
          CloseRemoveAll, CloseFails, Crash, Exit, ProcessEnds, NewStorage, Refresh, OpenHead, Finished, vars
    <3> QED BY <3>1
  <2> QED BY <2>3, <2>4, <2>5, <2>6, Zenon
<1> QED BY <1>1, <1>2, Zenon DEF FirstRun

(* "Disk partition is immutable", in a process that is not started again.   *)
THEOREM FirstRunDiskImmutable ==
    ASSUME InOrderClient, OneRun
    PROVE  Spec => DiskImmutable
<1> DEFINE Kept1 == \A d \in DOMAIN dirs : Opened(d) = "ok" => d \notin DOMAIN dirs' \/ dirs'[d] = dirs[d]
           First == FirstRun /\ restarts = 0
<1>1. Init => First
  BY FirstRunStarts, Zenon DEF Init
<1>2. First /\ [Next]_vars => First'
  <2>1. SUFFICES ASSUME First, [Next]_vars PROVE restarts' = 0
    BY FirstRunKept, Zenon
  <2>2. CASE UNCHANGED vars
    BY <2>1, <2>2, Zenon DEF vars, history
  <2>3. CASE Next
    <3>1. scenario.maxRestarts = 0
      BY <2>1 DEF FirstRun, Running, Typed, Ended, OneRun
    <3>2. ~ NewStorage
      BY <2>1, <3>1 DEF NewStorage
    <3> QED BY <2>1, <2>3, <3>2, RestartsStep, Zenon
  <2> QED BY <2>1, <2>2, <2>3, Zenon
<1>3. First /\ [Next]_vars => [Kept1]_vars
  BY DirsStep
<1> QED BY <1>1, <1>2, <1>3, PTL DEF Spec, DiskImmutable
=============================================================================
