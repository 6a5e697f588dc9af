----------------------------- MODULE StoresProofs -----------------------------
(***************************************************************************)
(* Theorems about what is kept for a user between turns, for any number of *)
(* overlapping requests: the skills that are shown and switched on, the    *)
(* facts that are remembered, and the MCP servers.                         *)
(***************************************************************************)
EXTENDS SkillShelf, Memories, McpServers, FiniteSetTheorems, TLAPS

-----------------------------------------------------------------------------
(* Skills *)

Mates(n) == {m \in SkillNames \ {n} : Folder[m] = Folder[n]}
Founds == UNION {[S -> {"user", "bundled"}] : S \in SUBSET SkillNames}

VisitRecords ==
    [ask : Operations \X SkillNames, at : {"idle", "remove", "read", "select", "over"},
     skill : SkillNames, found : Founds, late : BOOLEAN]

ShelfTypes ==
    /\ skillRow \in [SkillNames -> [type : {Empty, "user", "bundled"}, enabled : BOOLEAN]]
    /\ disk \in [Folders -> SkillNames \cup {Empty}]
    /\ visit \in [Visits -> VisitRecords]
    /\ crossed \in BOOLEAN

\* Where a skill is, and that another of its directory is told apart once it was installed.
DiskTrue ==
    /\ \A f \in Folders : disk[f] # Empty => Folder[disk[f]] = f
    /\ \A n \in SkillNames : (disk[Folder[n]] = n \/ skillRow[n].type = "user") => Mates(n) \subseteq replaced
    /\ \A n \in SkillNames \ replaced : n \in owned <=> disk[Folder[n]] = n

RowsTrue ==
    \A n \in SkillNames :
        /\ skillRow[n].type = Empty => skillRow[n].enabled
        /\ skillRow[n].type = "bundled" => n \in Bundled
        /\ ~skillRow[n].enabled => n \in switchedOff

Mid(v) == visit[v].at \in {"remove", "read", "select"}

\* What a request carries, whether or not it is still true.
VisitTrue(v) ==
    /\ visit[v].late => Mid(v) \/ crossed
    /\ Mid(v) => \/ (Asked(v) = "install" /\ visit[v].at # "remove")
                 \/ Asked(v) = "uninstall"
                 \/ (Asked(v) = "list" /\ visit[v].at = "select")
    /\ visit[v].at = "idle" => visit[v].skill = Skill(v) /\ DOMAIN visit[v].found = {}
    /\ Mid(v) /\ Asked(v) \in {"install", "uninstall"} => Mates(visit[v].skill) \subseteq replaced
    /\ \A n \in DOMAIN visit[v].found :
          /\ visit[v].found[n] = "user" => Mates(n) \subseteq replaced
          /\ visit[v].found[n] = "bundled" => n \in Bundled
    /\ visit[v].at = "select" /\ Asked(v) = "uninstall" => visit[v].skill \notin DOMAIN visit[v].found
    /\ visit[v].at = "select" /\ Asked(v) = "list" => DOMAIN visit[v].found # {}

Undisturbed == ~crossed /\ \A v \in Visits : ~visit[v].late

\* An install, or an uninstall, that has changed the disk and not yet its row.
Pending(op, n) == \E v \in Visits : Asked(v) = op /\ visit[v].at \in {"read", "select"} /\ visit[v].skill = n

HaveRows == {n \in SkillNames : HasRow(n)}

\* While nothing has changed under a request what it has read is so.
VisitFresh(v) ==
    /\ Asked(v) = "install" /\ visit[v].at \in {"read", "select"} => disk[Folder[visit[v].skill]] = visit[v].skill
    /\ Asked(v) = "uninstall" /\ visit[v].at \in {"read", "select"} => disk[Folder[visit[v].skill]] = Empty
    /\ visit[v].at = "select" =>
          /\ Asked(v) = "list" => /\ DOMAIN visit[v].found = Brought(FALSE)
                                  /\ \A n \in Brought(FALSE) : visit[v].found[n] = "user"
          /\ Asked(v) = "install" =>
                /\ DOMAIN visit[v].found = HaveRows \cup {visit[v].skill}
                /\ \A n \in HaveRows \cup {visit[v].skill} :
                      visit[v].found[n] = IF n = visit[v].skill THEN "user" ELSE skillRow[n].type
          /\ Asked(v) = "uninstall" =>
                /\ DOMAIN visit[v].found = HaveRows \ {visit[v].skill}
                /\ \A n \in HaveRows \ {visit[v].skill} : visit[v].found[n] = skillRow[n].type

\* Then rows and directories agree but for what is pending.
RowsKept ==
    \A n \in SkillNames \ replaced :
        /\ n \in owned => skillRow[n].type = "user" \/ Pending("install", n)
        /\ skillRow[n].type = "user" /\ n \notin wiped => disk[Folder[n]] = n \/ Pending("uninstall", n)
        /\ n \in switchedOff => ~skillRow[n].enabled \/ (Relisted /\ n \in Bundled \cup wiped)

ShelfInv ==
    /\ ShelfTypes /\ DiskTrue /\ RowsTrue /\ (\A v \in Visits : VisitTrue(v))
    /\ Undisturbed => RowsKept /\ \A v \in Visits : VisitFresh(v)

\* What each way of moving on leaves of every request.
Alike(v, u) ==
    /\ Asked(u)' = Asked(u) /\ Skill(u)' = Skill(u)
    /\ u # v => /\ visit'[u].at = visit[u].at /\ visit'[u].skill = visit[u].skill
                /\ visit'[u].found = visit[u].found
Calls(v) == \A u \in Visits : Alike(v, u)
NoneLater(v) == \A u \in Visits : visit'[u].late = visit[u].late
OthersLater(v) ==
    /\ visit'[v].late = visit[v].late
    /\ \A u \in Visits \ {v} : visit'[u].late = (visit[u].late \/ Mid(u))

\* A request goes on, carrying what it did.
LEMMA VisitReaches ==
    ASSUME visit \in [Visits -> VisitRecords], NEW v \in Visits,
           NEW at, at \in {"idle", "remove", "read", "select", "over"}, Reaches(v, at)
    PROVE  /\ visit' \in [Visits -> VisitRecords] /\ Calls(v) /\ NoneLater(v)
           /\ visit'[v].at = at /\ visit'[v].skill = visit[v].skill /\ visit'[v].found = visit[v].found
<1>1. \A u \in Visits : visit[u] \in VisitRecords
  OBVIOUS
<1>2. visit' = [visit EXCEPT ![v] = [visit[v] EXCEPT !.at = at]]
  BY DEF Reaches
<1>3. [visit[v] EXCEPT !.at = at] \in VisitRecords
  BY <1>1 DEF VisitRecords
<1>4. visit' \in [Visits -> VisitRecords]
  BY <1>2, <1>3
<1>5. visit'[v] = [visit[v] EXCEPT !.at = at] /\ \A u \in Visits \ {v} : visit'[u] = visit[u]
  BY <1>2
<1>6. /\ visit'[v].at = at /\ visit'[v].skill = visit[v].skill /\ visit'[v].found = visit[v].found
      /\ visit'[v].late = visit[v].late /\ visit'[v].ask = visit[v].ask
  BY <1>1, <1>5 DEF VisitRecords
<1>7. Calls(v) /\ NoneLater(v)
  BY <1>5, <1>6 DEF Calls, NoneLater, Alike, Asked, Skill
<1> QED
  BY <1>4, <1>6, <1>7

\* A request that changes something the others do not see.
LEMMA VisitChanges ==
    ASSUME visit \in [Visits -> VisitRecords], NEW v \in Visits,
           NEW at, at \in {"idle", "remove", "read", "select", "over"}, Changes(v, at)
    PROVE  /\ visit' \in [Visits -> VisitRecords] /\ Calls(v) /\ OthersLater(v)
           /\ visit'[v].at = at /\ visit'[v].skill = visit[v].skill /\ visit'[v].found = visit[v].found
<1>1. \A u \in Visits : visit[u] \in VisitRecords
  OBVIOUS
<1>2. visit' = [u \in Visits |-> IF u = v THEN [visit[u] EXCEPT !.at = at]
                              ELSE [visit[u] EXCEPT !.late = visit[u].late \/ visit[u].at \notin {"idle", "over"}]]
  BY DEF Changes
<1>3. \A u \in Visits \ {v} :
          visit'[u] = [visit[u] EXCEPT !.late = visit[u].late \/ visit[u].at \notin {"idle", "over"}]
  BY <1>2
<1>4. visit'[v] = [visit[v] EXCEPT !.at = at]
  BY <1>2
<1>5. ASSUME NEW u \in Visits \ {v}
      PROVE  /\ visit'[u] \in VisitRecords /\ visit'[u].at = visit[u].at /\ visit'[u].skill = visit[u].skill
             /\ visit'[u].found = visit[u].found /\ visit'[u].ask = visit[u].ask
             /\ visit'[u].late = (visit[u].late \/ Mid(u))
  <2>1. visit'[u] = [visit[u] EXCEPT !.late = visit[u].late \/ visit[u].at \notin {"idle", "over"}]
    BY <1>3
  <2>2. visit[u] \in VisitRecords
    BY <1>1
  <2>3. visit[u].at \notin {"idle", "over"} <=> Mid(u)
    BY <2>2 DEF VisitRecords, Mid
  <2>4. visit[u].late \in BOOLEAN
    BY <2>2 DEF VisitRecords
  <2>5. /\ visit'[u] \in VisitRecords /\ visit'[u].at = visit[u].at /\ visit'[u].skill = visit[u].skill
        /\ visit'[u].found = visit[u].found /\ visit'[u].ask = visit[u].ask
    BY <2>1, <2>2 DEF VisitRecords
  <2>6. visit'[u].late = (visit[u].late \/ visit[u].at \notin {"idle", "over"})
    BY <2>1, <2>2 DEF VisitRecords
  <2> QED
    BY <2>3, <2>5, <2>6
<1>6. /\ visit'[v].at = at /\ visit'[v].skill = visit[v].skill /\ visit'[v].found = visit[v].found
      /\ visit'[v].late = visit[v].late /\ visit'[v].ask = visit[v].ask /\ visit'[v] \in VisitRecords
  BY <1>1, <1>4 DEF VisitRecords
<1>7. \A u \in Visits : visit'[u] \in VisitRecords
  BY <1>5, <1>6
<1>8. visit' \in [Visits -> VisitRecords]
  BY <1>2, <1>7
<1>9. Calls(v) /\ OthersLater(v)
  BY <1>5, <1>6 DEF Calls, OthersLater, Alike, Asked, Skill
<1> QED
  BY <1>6, <1>8, <1>9

\* A request that has read what it goes on with.
LEMMA VisitReads ==
    ASSUME visit \in [Visits -> VisitRecords], NEW v \in Visits,
           NEW at, at \in {"idle", "remove", "read", "select", "over"}, NEW found, found \in Founds,
           visit' = [visit EXCEPT ![v] = [@ EXCEPT !.at = at, !.found = found]]
    PROVE  /\ visit' \in [Visits -> VisitRecords] /\ Calls(v) /\ NoneLater(v)
           /\ visit'[v].at = at /\ visit'[v].skill = visit[v].skill /\ visit'[v].found = found
<1>1. \A u \in Visits : visit[u] \in VisitRecords
  OBVIOUS
<1>3. [visit[v] EXCEPT !.at = at, !.found = found] \in VisitRecords
  BY <1>1 DEF VisitRecords
<1>4. visit' \in [Visits -> VisitRecords]
  BY <1>3
<1>5. visit'[v] = [visit[v] EXCEPT !.at = at, !.found = found] /\ \A u \in Visits \ {v} : visit'[u] = visit[u]
  OBVIOUS
<1>6. /\ visit'[v].at = at /\ visit'[v].skill = visit[v].skill /\ visit'[v].found = found
      /\ visit'[v].late = visit[v].late /\ visit'[v].ask = visit[v].ask
  BY <1>1, <1>5 DEF VisitRecords
<1>7. Calls(v) /\ NoneLater(v)
  BY <1>5, <1>6 DEF Calls, NoneLater, Alike, Asked, Skill
<1> QED
  BY <1>4, <1>6, <1>7

\* A request that has found which skill is meant.
LEMMA VisitMeans ==
    ASSUME visit \in [Visits -> VisitRecords], NEW v \in Visits, NEW m \in SkillNames,
           visit' = [visit EXCEPT ![v] = [@ EXCEPT !.at = "remove", !.skill = m]]
    PROVE  /\ visit' \in [Visits -> VisitRecords] /\ Calls(v) /\ NoneLater(v)
           /\ visit'[v].at = "remove" /\ visit'[v].skill = m /\ visit'[v].found = visit[v].found
<1>1. \A u \in Visits : visit[u] \in VisitRecords
  OBVIOUS
<1>3. [visit[v] EXCEPT !.at = "remove", !.skill = m] \in VisitRecords
  BY <1>1 DEF VisitRecords
<1>4. visit' \in [Visits -> VisitRecords]
  BY <1>3
<1>5. visit'[v] = [visit[v] EXCEPT !.at = "remove", !.skill = m] /\ \A u \in Visits \ {v} : visit'[u] = visit[u]
  OBVIOUS
<1>6. /\ visit'[v].at = "remove" /\ visit'[v].skill = m /\ visit'[v].found = visit[v].found
      /\ visit'[v].late = visit[v].late /\ visit'[v].ask = visit[v].ask
  BY <1>1, <1>5 DEF VisitRecords
<1>7. Calls(v) /\ NoneLater(v)
  BY <1>5, <1>6 DEF Calls, NoneLater, Alike, Asked, Skill
<1> QED
  BY <1>4, <1>6, <1>7

\* Which fields a request has.
LEMMA VisitFields ==
    ASSUME visit \in [Visits -> VisitRecords], NEW v \in Visits
    PROVE  /\ visit[v].at \in {"idle", "remove", "read", "select", "over"} /\ visit[v].skill \in SkillNames
           /\ visit[v].found \in Founds /\ visit[v].late \in BOOLEAN
           /\ Asked(v) \in Operations /\ Skill(v) \in SkillNames
           /\ Mid(v) <=> visit[v].at \notin {"idle", "over"}
BY DEF VisitRecords, Asked, Skill, Mid

LEMMA FoundIn ==
    ASSUME NEW f, NEW S \in SUBSET SkillNames, f \in [S -> {"user", "bundled"}]
    PROVE  f \in Founds
BY DEF Founds

LEMMA FoundIs ==
    ASSUME NEW f \in Founds
    PROVE  /\ DOMAIN f \subseteq SkillNames
           /\ \A n \in DOMAIN f : f[n] \in {"user", "bundled"}
BY DEF Founds

\* What is found in the directories is of them, and what shares one with it is told apart.
LEMMA BroughtFacts ==
    ASSUME ShelfTypes, DiskTrue, NEW on \in BOOLEAN, NEW n \in Brought(on)
    PROVE  /\ n \in SkillNames /\ disk[Folder[n]] = n /\ Mates(n) \subseteq replaced
           /\ \E m \in SkillNames : /\ skillRow[m].type = "user" /\ (on => skillRow[m].enabled)
                                    /\ Folder[m] = Folder[n]
<1>1. PICK m \in SkillNames : /\ skillRow[m].type = "user" /\ (on => skillRow[m].enabled)
                              /\ n = disk[Folder[m]] /\ n # Empty
  BY DEF Brought
<1>2. Folder[m] \in Folders
  BY DEF Folders
<1>3. n \in SkillNames
  BY <1>1, <1>2 DEF ShelfTypes
<1>4. Folder[n] = Folder[m]
  BY <1>1, <1>2 DEF DiskTrue
<1>5. Mates(n) \subseteq replaced
  BY <1>1, <1>3, <1>4 DEF DiskTrue
<1> QED
  BY <1>1, <1>3, <1>4, <1>5
LEMMA OwnBrought ==
    ASSUME ShelfTypes, NEW n \in SkillNames, skillRow[n].type = "user", disk[Folder[n]] = n,
           NEW on \in BOOLEAN, on => skillRow[n].enabled
    PROVE  n \in Brought(on)
BY ShelfAssumption DEF Brought

\* Who else is under way when nothing has changed under anybody.
LEMMA AloneNow ==
    ASSUME visit \in [Visits -> VisitRecords], NEW v \in Visits, OthersLater(v),
           crossed' = crossed \/ crossed' = (crossed \/ visit[v].late), Undisturbed'
    PROVE  /\ Undisturbed
           /\ \A u \in Visits \ {v} : ~Mid(u)
<1>1. \A u \in Visits : ~visit'[u].late
  BY DEF Undisturbed
<1>2. ~visit[v].late
  BY <1>1 DEF OthersLater
<1>3. \A u \in Visits \ {v} : ~visit[u].late /\ ~Mid(u)
  BY <1>1 DEF OthersLater
<1>4. visit[v].late \in BOOLEAN
  BY VisitFields
<1>5. ~crossed
  BY <1>2, <1>4 DEF Undisturbed
<1> QED
  BY <1>2, <1>3, <1>5 DEF Undisturbed

LEMMA OtherVisitTrue ==
    ASSUME NEW v \in Visits, NEW u \in Visits \ {v}, VisitTrue(u), Alike(v, u),
           visit'[u].late => visit[u].late \/ Mid(u), crossed => crossed', replaced \subseteq replaced'
    PROVE  VisitTrue(u)'
<1>1. /\ visit'[u].at = visit[u].at /\ visit'[u].skill = visit[u].skill /\ visit'[u].found = visit[u].found
      /\ Asked(u)' = Asked(u) /\ Skill(u)' = Skill(u)
  BY DEF Alike
<1>2. Mid(u)' = Mid(u)
  BY <1>1 DEF Mid
<1>3. \A n : Mates(n)' = Mates(n)
  BY DEF Mates
<1>4. (visit[u].late => Mid(u) \/ crossed)'
  BY <1>2 DEF VisitTrue
<1>5. (Mid(u) => \/ (Asked(u) = "install" /\ visit[u].at # "remove")
                 \/ Asked(u) = "uninstall"
                 \/ (Asked(u) = "list" /\ visit[u].at = "select"))'
  BY <1>1, <1>2 DEF VisitTrue
<1>6. (Mid(u) /\ Asked(u) \in {"install", "uninstall"} => Mates(visit[u].skill) \subseteq replaced)'
  BY <1>1, <1>2, <1>3 DEF VisitTrue
<1>7. (\A n \in DOMAIN visit[u].found :
          /\ visit[u].found[n] = "user" => Mates(n) \subseteq replaced
          /\ visit[u].found[n] = "bundled" => n \in Bundled)'
  BY <1>1, <1>3 DEF VisitTrue
<1>8. (/\ visit[u].at = "idle" => visit[u].skill = Skill(u) /\ DOMAIN visit[u].found = {}
       /\ visit[u].at = "select" /\ Asked(u) = "uninstall" => visit[u].skill \notin DOMAIN visit[u].found
       /\ visit[u].at = "select" /\ Asked(u) = "list" => DOMAIN visit[u].found # {})'
  BY <1>1 DEF VisitTrue
<1> QED
  BY <1>4, <1>5, <1>6, <1>7, <1>8 DEF VisitTrue

LEMMA OthersVisitTrue ==
    ASSUME NEW v \in Visits, \A u \in Visits : VisitTrue(u), Calls(v), NoneLater(v) \/ OthersLater(v),
           crossed => crossed', replaced \subseteq replaced'
    PROVE  \A u \in Visits \ {v} : VisitTrue(u)'
BY OtherVisitTrue DEF Calls, NoneLater, OthersLater

\* A request that is not under way holds nothing that could be stale.
LEMMA RestingFresh ==
    ASSUME NEW u \in Visits, ~Mid(u)'
    PROVE  VisitFresh(u)'
BY DEF Mid, VisitFresh

LEMMA OtherFresh ==
    ASSUME NEW v \in Visits, NEW u \in Visits \ {v}, VisitFresh(u), Alike(v, u),
           UNCHANGED skillRow, UNCHANGED disk
    PROVE  VisitFresh(u)'
<1>1. /\ visit'[u].at = visit[u].at /\ visit'[u].skill = visit[u].skill /\ visit'[u].found = visit[u].found
      /\ Asked(u)' = Asked(u)
  BY DEF Alike
<1>2. HaveRows' = HaveRows /\ Brought(FALSE)' = Brought(FALSE)
  BY DEF HaveRows, HasRow, Brought
<1>3. (/\ Asked(u) = "install" /\ visit[u].at \in {"read", "select"} => disk[Folder[visit[u].skill]] = visit[u].skill
       /\ Asked(u) = "uninstall" /\ visit[u].at \in {"read", "select"} => disk[Folder[visit[u].skill]] = Empty)'
  BY <1>1 DEF VisitFresh
<1>4. ASSUME visit'[u].at = "select", Asked(u)' = "list"
      PROVE  (/\ DOMAIN visit[u].found = Brought(FALSE) /\ \A n \in Brought(FALSE) : visit[u].found[n] = "user")'
  BY <1>1, <1>2, <1>4 DEF VisitFresh
<1>5. ASSUME visit'[u].at = "select", Asked(u)' = "install"
      PROVE  (/\ DOMAIN visit[u].found = HaveRows \cup {visit[u].skill}
              /\ \A n \in HaveRows \cup {visit[u].skill} :
                    visit[u].found[n] = IF n = visit[u].skill THEN "user" ELSE skillRow[n].type)'
  BY <1>1, <1>2, <1>5 DEF VisitFresh
<1>6. ASSUME visit'[u].at = "select", Asked(u)' = "uninstall"
      PROVE  (/\ DOMAIN visit[u].found = HaveRows \ {visit[u].skill}
              /\ \A n \in HaveRows \ {visit[u].skill} : visit[u].found[n] = skillRow[n].type)'
  BY <1>1, <1>2, <1>6 DEF VisitFresh
<1> QED
  BY <1>3, <1>4, <1>5, <1>6 DEF VisitFresh

LEMMA OthersFresh ==
    ASSUME NEW v \in Visits, \A u \in Visits : VisitFresh(u), Calls(v), UNCHANGED <<skillRow, disk>>
    PROVE  \A u \in Visits \ {v} : VisitFresh(u)'
BY OtherFresh DEF Calls

LEMMA OthersResting ==
    ASSUME NEW v \in Visits, Calls(v), \A u \in Visits \ {v} : ~Mid(u)
    PROVE  \A u \in Visits \ {v} : ~Mid(u)' /\ VisitFresh(u)'
BY RestingFresh DEF Mid, Calls, Alike

\* Nothing is pending but what a request at its second or third step has left.
LEMMA PendingOnly ==
    ASSUME NEW v \in Visits, \A u \in Visits \ {v} : ~Mid(u), NEW op, NEW n, Pending(op, n)
    PROVE  Asked(v) = op /\ visit[v].at \in {"read", "select"} /\ visit[v].skill = n
BY DEF Pending, Mid

\* A list that has been through stays so.
LEMMA RelistedStays ==
    ASSUME NEW v \in Visits, Calls(v), Relisted,
           visit'[v].found = visit[v].found \/ visit[v].at = "idle" \/ Asked(v) # "list", VisitTrue(v)
    PROVE  Relisted'
<1>1. PICK u \in Visits : Asked(u) = "list" /\ DOMAIN visit[u].found # {}
  BY DEF Relisted
<1>2. Asked(u)' = "list" /\ visit'[u].found = visit[u].found
  BY <1>1 DEF Calls, Alike, VisitTrue
<1> QED
  BY <1>1, <1>2 DEF Relisted

\* What stays true of the directories and the rows as long as they and the requests do.
LEMMA RowsStay ==
    ASSUME NEW v \in Visits, Calls(v), RowsKept, UNCHANGED <<skillRow, disk, owned, switchedOff, replaced, wiped>>,
           Asked(v) # "list" => (visit'[v].at \in {"read", "select"} <=> visit[v].at \in {"read", "select"}),
           Asked(v) # "list" /\ visit[v].at \in {"read", "select"} => visit'[v].skill = visit[v].skill,
           Relisted => Relisted'
    PROVE  RowsKept'
<1>1. ASSUME NEW op, op # "list", NEW n, Pending(op, n)
      PROVE  Pending(op, n)'
  <2>1. PICK u \in Visits : Asked(u) = op /\ visit[u].at \in {"read", "select"} /\ visit[u].skill = n
    BY <1>1 DEF Pending
  <2>2. Asked(u)' = op /\ visit'[u].at \in {"read", "select"} /\ visit'[u].skill = n
    BY <1>1, <2>1 DEF Calls, Alike
  <2> QED
    BY <2>2 DEF Pending
<1>2. ASSUME NEW n \in SkillNames, n \notin replaced'
      PROVE  (/\ n \in owned => skillRow[n].type = "user" \/ Pending("install", n)
              /\ skillRow[n].type = "user" /\ n \notin wiped => disk[Folder[n]] = n \/ Pending("uninstall", n)
              /\ n \in switchedOff => ~skillRow[n].enabled \/ (Relisted /\ n \in Bundled \cup wiped))'
  <2>1. n \in SkillNames \ replaced
    BY <1>2
  <2>2. (n \in owned => skillRow[n].type = "user" \/ Pending("install", n))'
    BY <1>1, <2>1 DEF RowsKept
  <2>3. (skillRow[n].type = "user" /\ n \notin wiped => disk[Folder[n]] = n \/ Pending("uninstall", n))'
    BY <1>1, <2>1 DEF RowsKept
  <2>4. (n \in switchedOff => ~skillRow[n].enabled \/ (Relisted /\ n \in Bundled \cup wiped))'
    BY <2>1 DEF RowsKept
  <2> QED
    BY <2>2, <2>3, <2>4
<1> QED
  BY <1>2 DEF RowsKept

\* The parts of the invariant that hold whatever has crossed, and those that hold until something has.
ShelfSure == ShelfTypes /\ DiskTrue /\ RowsTrue /\ \A v \in Visits : VisitTrue(v)
ShelfFresh == RowsKept /\ \A v \in Visits : VisitFresh(v)

\* A request before it begins.
LEMMA VisitBegins ==
    ASSUME NEW v, NEW a \in Operations \X SkillNames, NEW none \in Founds,
           visit[v] = [ask |-> a, at |-> "idle", skill |-> a[2], found |-> none, late |-> FALSE]
    PROVE  /\ visit[v] \in VisitRecords /\ visit[v].at = "idle" /\ ~visit[v].late
           /\ visit[v].skill = Skill(v) /\ visit[v].found = none
BY DEF VisitRecords, Skill

LEMMA ShelfStarts == ShelfInit => ShelfInv
<1> SUFFICES ASSUME ShelfInit PROVE ShelfInv
  OBVIOUS
<1>1. PICK asks \in Asks : ShelfStart(asks)
  BY DEF ShelfInit
<1>2. asks \in [Visits -> Operations \X SkillNames]
  BY <1>1, ShelfAssumption
<1>3. PICK none : none = <<>>
  OBVIOUS
<1>4. none \in Founds /\ DOMAIN none = {}
  <2>1. none \in [{} -> {"user", "bundled"}]
    BY <1>3
  <2> QED
    BY <2>1 DEF Founds
<1>5. ASSUME NEW v \in Visits
      PROVE  /\ visit[v] \in VisitRecords /\ visit[v].at = "idle" /\ ~visit[v].late
             /\ visit[v].skill = Skill(v) /\ visit[v].found = none
  <2>1. visit[v] = [ask |-> asks[v], at |-> "idle", skill |-> asks[v][2], found |-> none, late |-> FALSE]
    BY <1>1, <1>3 DEF ShelfStart
  <2>2. asks[v] \in Operations \X SkillNames
    BY <1>2
  <2> QED
    BY <1>4, <2>1, <2>2, VisitBegins
<1>6. ShelfTypes
  BY <1>1, <1>5 DEF ShelfTypes, ShelfStart, NoRow
<1>7. DiskTrue /\ RowsTrue
  <2>1. \A n \in SkillNames : n # Empty /\ disk[Folder[n]] = Empty
    BY <1>1, ShelfAssumption DEF ShelfStart, Folders
  <2>2. \A n \in SkillNames : skillRow[n].type = Empty /\ skillRow[n].enabled
    BY <1>1 DEF ShelfStart, NoRow
  <2>3. owned = {} /\ replaced = {} /\ \A f \in Folders : disk[f] = Empty
    BY <1>1 DEF ShelfStart
  <2> QED
    BY <2>1, <2>2, <2>3 DEF DiskTrue, RowsTrue, Empty
<1>8. \A v \in Visits : VisitTrue(v) /\ VisitFresh(v)
  BY <1>4, <1>5 DEF VisitTrue, VisitFresh, Mid
<1>9. RowsKept
  <2>1. \A n \in SkillNames : skillRow[n].type = Empty
    BY <1>1 DEF ShelfStart, NoRow
  <2>2. owned = {} /\ switchedOff = {}
    BY <1>1 DEF ShelfStart
  <2> QED
    BY <2>1, <2>2 DEF RowsKept, Empty
<1> QED
  BY <1>6, <1>7, <1>8, <1>9 DEF ShelfInv

\* A copy over what was there.
LEMMA InstallSure ==
    ASSUME ShelfInv, NEW v \in Visits, InstallSkillDir(v)
    PROVE  ShelfInv'
<1>0. PICK n : n = Skill(v)
  OBVIOUS
<1>1. /\ visit[v].at = "idle" /\ Asked(v) = "install" /\ Changes(v, "read")
      /\ disk' = [disk EXCEPT ![Folder[n]] = n] /\ owned' = (owned \ {m \in SkillNames : Folder[m] = Folder[n]}) \cup {n}
      /\ replaced' = replaced \cup {m \in SkillNames : m # n /\ Folder[m] = Folder[n]}
      /\ UNCHANGED <<skillRow, switchedOff, wiped, crossed>>
  BY <1>0 DEF InstallSkillDir, Stands, Takes
<1>2. /\ visit \in [Visits -> VisitRecords] /\ disk \in [Folders -> SkillNames \cup {Empty}]
      /\ DiskTrue /\ RowsTrue /\ \A u \in Visits : VisitTrue(u)
  BY DEF ShelfInv, ShelfTypes
<1>3. /\ visit' \in [Visits -> VisitRecords] /\ Calls(v) /\ OthersLater(v) /\ visit'[v].at = "read"
      /\ visit'[v].skill = visit[v].skill /\ visit'[v].found = visit[v].found
  BY <1>1, <1>2, VisitChanges
<1>4. n \in SkillNames /\ n # Empty /\ visit[v].skill = n /\ Folder[n] \in Folders
  BY <1>0, <1>1, <1>2, VisitFields, ShelfAssumption DEF VisitTrue, Folders
<1>5. ShelfTypes'
  BY <1>1, <1>3, <1>4 DEF ShelfInv, ShelfTypes, Folders
<1>6. \A m : Mates(m)' = Mates(m)
  BY DEF Mates
<1>7. Mates(n) \subseteq replaced' /\ replaced \subseteq replaced'
  BY <1>1 DEF Mates
<1>8. disk'[Folder[n]] = n /\ \A f \in Folders \ {Folder[n]} : disk'[f] = disk[f]
  BY <1>1, <1>2, <1>4
<1>9. DiskTrue'
  <2>1. (\A f \in Folders : disk[f] # Empty => Folder[disk[f]] = f)'
    BY <1>2, <1>4, <1>8 DEF DiskTrue, Folders
  <2>2. ASSUME NEW m \in SkillNames, disk'[Folder[m]] = m \/ skillRow'[m].type = "user"
        PROVE  Mates(m) \subseteq replaced'
    <3>1. CASE m = n
      BY <3>1, <1>7
    <3>2. CASE Folder[m] = Folder[n] /\ m # n
      <4>1. skillRow[m].type = "user"
        BY <1>1, <1>8, <2>2, <3>2
      <4> QED
        BY <4>1, <1>2, <1>7 DEF DiskTrue
    <3>3. CASE Folder[m] # Folder[n]
      <4>1. disk'[Folder[m]] = disk[Folder[m]] /\ skillRow'[m].type = skillRow[m].type
        BY <1>1, <1>8, <3>3 DEF Folders
      <4> QED
        BY <4>1, <2>2, <1>2, <1>7 DEF DiskTrue
    <3> QED
      BY <3>1, <3>2, <3>3
  <2>3. ASSUME NEW m \in SkillNames, m \notin replaced'
        PROVE  m \in owned' <=> disk'[Folder[m]] = m
    <3>1. CASE m = n
      BY <3>1, <1>1, <1>8
    <3>2. CASE Folder[m] # Folder[n]
      <4>1. disk'[Folder[m]] = disk[Folder[m]]
        BY <1>8, <3>2 DEF Folders
      <4>2. m \in owned' <=> m \in owned
        BY <1>1, <3>2
      <4> QED
        BY <4>1, <4>2, <2>3, <1>2, <1>7 DEF DiskTrue
    <3> QED
      BY <3>1, <3>2, <2>3, <1>1
  <2>4. (\A m \in SkillNames : (disk[Folder[m]] = m \/ skillRow[m].type = "user") => Mates(m) \subseteq replaced)'
    BY <2>2, <1>6
  <2> QED
    BY <2>1, <2>3, <2>4 DEF DiskTrue
<1>10. RowsTrue'
  BY <1>1, <1>2 DEF RowsTrue
<1>11. VisitTrue(v)'
  <2>1. Asked(v)' = "install" /\ Mid(v)'
    BY <1>1, <1>3 DEF Calls, Alike, Mid
  <2>2. DOMAIN visit[v].found = {}
    BY <1>1, <1>2 DEF VisitTrue
  <2> QED
    BY <1>3, <1>4, <1>6, <1>7, <2>1, <2>2 DEF VisitTrue
<1>12. \A u \in Visits \ {v} : VisitTrue(u)'
  BY <1>1, <1>2, <1>3, <1>7, OthersVisitTrue
<1>13. ASSUME Undisturbed'
       PROVE  RowsKept' /\ \A u \in Visits : VisitFresh(u)'
  <2>1. Undisturbed /\ \A u \in Visits \ {v} : ~Mid(u)
    BY <1>1, <1>2, <1>3, <1>13, AloneNow
  <2>2. RowsKept
    BY <2>1 DEF ShelfInv
  <2>3. \A op, m : ~Pending(op, m)
    BY <2>1, <1>1, PendingOnly
  <2>4. Relisted => Relisted'
    BY <1>2, <1>3, RelistedStays
  <2>5. Pending("install", n)'
    BY <1>1, <1>3, <1>4 DEF Pending, Calls, Alike
  <2>6. ASSUME NEW m \in SkillNames, m \notin replaced'
        PROVE  (/\ m \in owned => skillRow[m].type = "user" \/ Pending("install", m)
                /\ skillRow[m].type = "user" /\ m \notin wiped => disk[Folder[m]] = m \/ Pending("uninstall", m)
                /\ m \in switchedOff => ~skillRow[m].enabled \/ (Relisted /\ m \in Bundled \cup wiped))'
    <3>1. m \in SkillNames \ replaced
      BY <2>6, <1>7
    <3>2. (m \in owned => skillRow[m].type = "user" \/ Pending("install", m))'
      BY <3>1, <1>1, <2>2, <2>3, <2>5 DEF RowsKept
    <3>3. (skillRow[m].type = "user" /\ m \notin wiped => disk[Folder[m]] = m \/ Pending("uninstall", m))'
      <4>1. m = n \/ Folder[m] # Folder[n]
        BY <2>6, <1>1
      <4>2. Folder[m] # Folder[n] => disk'[Folder[m]] = disk[Folder[m]]
        BY <1>8 DEF Folders
      <4> QED
        BY <3>1, <4>1, <4>2, <1>1, <1>8, <2>2, <2>3 DEF RowsKept
    <3>4. (m \in switchedOff => ~skillRow[m].enabled \/ (Relisted /\ m \in Bundled \cup wiped))'
      BY <3>1, <1>1, <2>2, <2>4 DEF RowsKept
    <3> QED
      BY <3>2, <3>3, <3>4
  <2>7. \A u \in Visits \ {v} : VisitFresh(u)'
    BY <1>3, <2>1, OthersResting
  <2>8. VisitFresh(v)'
    BY <1>1, <1>3, <1>4, <1>8 DEF VisitFresh, Calls, Alike
  <2> QED
    BY <2>6, <2>7, <2>8 DEF RowsKept
<1> QED
  BY <1>5, <1>9, <1>10, <1>11, <1>12, <1>13 DEF ShelfInv

\* A copy that failed.
LEMMA CopyFailsSure ==
    ASSUME ShelfInv, NEW v \in Visits, CopyFails(v)
    PROVE  ShelfInv'
<1>0. PICK f : f = Folder[Skill(v)]
  OBVIOUS
<1>1. /\ visit[v].at = "idle" /\ Asked(v) = "install" /\ Changes(v, "over")
      /\ disk' = [disk EXCEPT ![f] = Empty] /\ owned' = owned \ {disk[f]}
      /\ wiped' = wiped \cup ({disk[f]} \ {Empty})
      /\ UNCHANGED <<skillRow, switchedOff, replaced, crossed>>
  BY <1>0 DEF CopyFails, Stands
<1>2. /\ visit \in [Visits -> VisitRecords] /\ disk \in [Folders -> SkillNames \cup {Empty}]
      /\ DiskTrue /\ RowsTrue /\ \A u \in Visits : VisitTrue(u)
  BY DEF ShelfInv, ShelfTypes
<1>3. /\ visit' \in [Visits -> VisitRecords] /\ Calls(v) /\ OthersLater(v) /\ visit'[v].at = "over"
      /\ visit'[v].skill = visit[v].skill /\ visit'[v].found = visit[v].found
  BY <1>1, <1>2, VisitChanges
<1>4. f \in Folders
  BY <1>0, <1>2, VisitFields DEF Folders
<1>5. ShelfTypes'
  BY <1>1, <1>3, <1>4 DEF ShelfInv, ShelfTypes, Folders
<1>6. \A m : Mates(m)' = Mates(m)
  BY DEF Mates
<1>8. disk'[f] = Empty /\ \A g \in Folders \ {f} : disk'[g] = disk[g]
  BY <1>1, <1>2, <1>4
<1>9. DiskTrue'
  <2>1. (\A g \in Folders : disk[g] # Empty => Folder[disk[g]] = g)'
    BY <1>2, <1>8 DEF DiskTrue, Folders
  <2>2. ASSUME NEW m \in SkillNames, disk'[Folder[m]] = m \/ skillRow'[m].type = "user"
        PROVE  Mates(m) \subseteq replaced'
    <3>1. disk[Folder[m]] = m \/ skillRow[m].type = "user"
      BY <2>2, <1>1, <1>8, ShelfAssumption DEF Folders
    <3> QED
      BY <3>1, <1>1, <1>2 DEF DiskTrue
  <2>3. ASSUME NEW m \in SkillNames, m \notin replaced'
        PROVE  m \in owned' <=> disk'[Folder[m]] = m
    <3>1. m \in owned <=> disk[Folder[m]] = m
      BY <2>3, <1>1, <1>2 DEF DiskTrue
    <3>2. CASE Folder[m] = f
      BY <3>1, <3>2, <1>1, <1>8, ShelfAssumption
    <3>3. CASE Folder[m] # f
      <4>1. disk'[Folder[m]] = disk[Folder[m]] /\ Folder[m] \in Folders
        BY <3>3, <1>8 DEF Folders
      <4>2. disk[f] # m
        BY <3>3, <1>2, <1>4, ShelfAssumption DEF DiskTrue
      <4> QED
        BY <3>1, <4>1, <4>2, <1>1
    <3> QED
      BY <3>2, <3>3
  <2>4. (\A m \in SkillNames : (disk[Folder[m]] = m \/ skillRow[m].type = "user") => Mates(m) \subseteq replaced)'
    BY <2>2, <1>6
  <2> QED
    BY <2>1, <2>3, <2>4 DEF DiskTrue
<1>10. RowsTrue'
  BY <1>1, <1>2 DEF RowsTrue
<1>11. VisitTrue(v)'
  <2>1. ~Mid(v)' /\ ~Mid(v) /\ visit'[v].late = visit[v].late
    BY <1>1, <1>3 DEF OthersLater, Mid
  <2>2. DOMAIN visit[v].found = {}
    BY <1>1, <1>2 DEF VisitTrue
  <2> QED
    BY <1>1, <1>2, <1>3, <2>1, <2>2 DEF VisitTrue
<1>12. \A u \in Visits \ {v} : VisitTrue(u)'
  BY <1>1, <1>2, <1>3, OthersVisitTrue
<1>13. ASSUME Undisturbed'
       PROVE  RowsKept' /\ \A u \in Visits : VisitFresh(u)'
  <2>1. Undisturbed /\ \A u \in Visits \ {v} : ~Mid(u)
    BY <1>1, <1>2, <1>3, <1>13, AloneNow
  <2>2. RowsKept
    BY <2>1 DEF ShelfInv
  <2>3. \A op, m : ~Pending(op, m)
    BY <2>1, <1>1, PendingOnly
  <2>4. Relisted => Relisted'
    BY <1>2, <1>3, RelistedStays
  <2>6. ASSUME NEW m \in SkillNames, m \notin replaced'
        PROVE  (/\ m \in owned => skillRow[m].type = "user" \/ Pending("install", m)
                /\ skillRow[m].type = "user" /\ m \notin wiped => disk[Folder[m]] = m \/ Pending("uninstall", m)
                /\ m \in switchedOff => ~skillRow[m].enabled \/ (Relisted /\ m \in Bundled \cup wiped))'
    <3>1. m \in SkillNames \ replaced
      BY <2>6, <1>1
    <3>2. (m \in owned => skillRow[m].type = "user" \/ Pending("install", m))'
      BY <3>1, <1>1, <2>2, <2>3 DEF RowsKept
    <3>3. (skillRow[m].type = "user" /\ m \notin wiped => disk[Folder[m]] = m \/ Pending("uninstall", m))'
      <4>1. Folder[m] # f => disk'[Folder[m]] = disk[Folder[m]]
        BY <1>8 DEF Folders
      <4>2. m # Empty
        BY ShelfAssumption
      <4> QED
        BY <3>1, <4>1, <4>2, <1>1, <2>2, <2>3 DEF RowsKept
    <3>4. (m \in switchedOff => ~skillRow[m].enabled \/ (Relisted /\ m \in Bundled \cup wiped))'
      BY <3>1, <1>1, <2>2, <2>4 DEF RowsKept
    <3> QED
      BY <3>2, <3>3, <3>4
  <2>7. \A u \in Visits \ {v} : VisitFresh(u)'
    BY <1>3, <2>1, OthersResting
  <2>8. VisitFresh(v)'
    BY <1>3, RestingFresh DEF Mid
  <2> QED
    BY <2>6, <2>7, <2>8 DEF RowsKept
<1> QED
  BY <1>5, <1>9, <1>10, <1>11, <1>12, <1>13 DEF ShelfInv

\* The directory of a skill that is taken away.
LEMMA RemoveSure ==
    ASSUME ShelfInv, NEW v \in Visits, RemoveDir(v)
    PROVE  ShelfInv'
<1>0. PICK n, f : n = visit[v].skill /\ f = Folder[n]
  OBVIOUS
<1>1. /\ visit[v].at = "remove" /\ Asked(v) = "uninstall" /\ Changes(v, "read")
      /\ disk' = [disk EXCEPT ![f] = Empty] /\ owned' = owned \ {m \in SkillNames : Folder[m] = f}
      /\ UNCHANGED <<skillRow, switchedOff, replaced, wiped, crossed>>
  BY <1>0 DEF RemoveDir, Stands
<1>2. /\ visit \in [Visits -> VisitRecords] /\ disk \in [Folders -> SkillNames \cup {Empty}]
      /\ DiskTrue /\ RowsTrue /\ \A u \in Visits : VisitTrue(u)
  BY DEF ShelfInv, ShelfTypes
<1>3. /\ visit' \in [Visits -> VisitRecords] /\ Calls(v) /\ OthersLater(v) /\ visit'[v].at = "read"
      /\ visit'[v].skill = visit[v].skill /\ visit'[v].found = visit[v].found
  BY <1>1, <1>2, VisitChanges
<1>4. f \in Folders /\ n \in SkillNames /\ Mid(v)
  BY <1>0, <1>1, <1>2, VisitFields DEF Folders, Mid
<1>5. ShelfTypes'
  BY <1>1, <1>3, <1>4 DEF ShelfInv, ShelfTypes, Folders
<1>6. \A m : Mates(m)' = Mates(m)
  BY DEF Mates
<1>7. Mates(n) \subseteq replaced
  BY <1>0, <1>1, <1>2, <1>4 DEF VisitTrue
<1>8. disk'[f] = Empty /\ \A g \in Folders \ {f} : disk'[g] = disk[g]
  BY <1>1, <1>2, <1>4
<1>9. DiskTrue'
  <2>1. (\A g \in Folders : disk[g] # Empty => Folder[disk[g]] = g)'
    BY <1>2, <1>8 DEF DiskTrue, Folders
  <2>2. ASSUME NEW m \in SkillNames, disk'[Folder[m]] = m \/ skillRow'[m].type = "user"
        PROVE  Mates(m) \subseteq replaced'
    <3>1. disk[Folder[m]] = m \/ skillRow[m].type = "user"
      BY <2>2, <1>1, <1>8, ShelfAssumption DEF Folders
    <3> QED
      BY <3>1, <1>1, <1>2 DEF DiskTrue
  <2>3. ASSUME NEW m \in SkillNames, m \notin replaced'
        PROVE  m \in owned' <=> disk'[Folder[m]] = m
    <3>1. m \in owned <=> disk[Folder[m]] = m
      BY <2>3, <1>1, <1>2 DEF DiskTrue
    <3>2. CASE Folder[m] = f
      BY <3>1, <3>2, <1>1, <1>8, ShelfAssumption
    <3>3. CASE Folder[m] # f
      <4>1. disk'[Folder[m]] = disk[Folder[m]] /\ Folder[m] \in Folders
        BY <3>3, <1>8 DEF Folders
      <4> QED
        BY <3>1, <3>3, <4>1, <1>1
    <3> QED
      BY <3>2, <3>3
  <2>4. (\A m \in SkillNames : (disk[Folder[m]] = m \/ skillRow[m].type = "user") => Mates(m) \subseteq replaced)'
    BY <2>2, <1>6
  <2> QED
    BY <2>1, <2>3, <2>4 DEF DiskTrue
<1>10. RowsTrue'
  BY <1>1, <1>2 DEF RowsTrue
<1>11. VisitTrue(v)'
  <2>1. Mid(v)' /\ Asked(v)' = "uninstall"
    BY <1>1, <1>3 DEF Mid, Calls, Alike
  <2>2. \A m \in DOMAIN visit[v].found :
          /\ visit[v].found[m] = "user" => Mates(m) \subseteq replaced
          /\ visit[v].found[m] = "bundled" => m \in Bundled
    BY <1>2 DEF VisitTrue
  <2> QED
    BY <1>0, <1>1, <1>3, <1>6, <1>7, <2>1, <2>2 DEF VisitTrue
<1>12. \A u \in Visits \ {v} : VisitTrue(u)'
  BY <1>1, <1>2, <1>3, OthersVisitTrue
<1>13. ASSUME Undisturbed'
       PROVE  RowsKept' /\ \A u \in Visits : VisitFresh(u)'
  <2>1. Undisturbed /\ \A u \in Visits \ {v} : ~Mid(u)
    BY <1>1, <1>2, <1>3, <1>13, AloneNow
  <2>2. RowsKept
    BY <2>1 DEF ShelfInv
  <2>3. \A op, m : ~Pending(op, m)
    BY <2>1, <1>1, PendingOnly
  <2>4. Relisted => Relisted'
    BY <1>2, <1>3, RelistedStays
  <2>5. Pending("uninstall", n)'
    BY <1>0, <1>1, <1>3, <1>4 DEF Pending, Calls, Alike
  <2>6. ASSUME NEW m \in SkillNames, m \notin replaced'
        PROVE  (/\ m \in owned => skillRow[m].type = "user" \/ Pending("install", m)
                /\ skillRow[m].type = "user" /\ m \notin wiped => disk[Folder[m]] = m \/ Pending("uninstall", m)
                /\ m \in switchedOff => ~skillRow[m].enabled \/ (Relisted /\ m \in Bundled \cup wiped))'
    <3>1. m \in SkillNames \ replaced
      BY <2>6, <1>1
    <3>2. (m \in owned => skillRow[m].type = "user" \/ Pending("install", m))'
      BY <3>1, <1>1, <2>2, <2>3 DEF RowsKept
    <3>3. (skillRow[m].type = "user" /\ m \notin wiped => disk[Folder[m]] = m \/ Pending("uninstall", m))'
      <4>1. Folder[m] # f => disk'[Folder[m]] = disk[Folder[m]]
        BY <1>8 DEF Folders
      <4>2. Folder[m] = f => m = n
        BY <1>0, <1>7, <3>1 DEF Mates
      <4> QED
        BY <3>1, <4>1, <4>2, <1>1, <2>2, <2>3, <2>5 DEF RowsKept
    <3>4. (m \in switchedOff => ~skillRow[m].enabled \/ (Relisted /\ m \in Bundled \cup wiped))'
      BY <3>1, <1>1, <2>2, <2>4 DEF RowsKept
    <3> QED
      BY <3>2, <3>3, <3>4
  <2>7. \A u \in Visits \ {v} : VisitFresh(u)'
    BY <1>3, <2>1, OthersResting
  <2>8. VisitFresh(v)'
    BY <1>0, <1>1, <1>3, <1>8 DEF VisitFresh, Calls, Alike
  <2> QED
    BY <2>6, <2>7, <2>8 DEF RowsKept
<1> QED
  BY <1>5, <1>9, <1>10, <1>11, <1>12, <1>13 DEF ShelfInv

\* A request that goes on without having changed what the others read.
LEMMA QuietSure ==
    ASSUME ShelfInv, NEW v \in Visits, Calls(v), NoneLater(v),
           UNCHANGED <<skillRow, disk, owned, switchedOff, replaced, wiped, crossed>>,
           visit' \in [Visits -> VisitRecords],
           Asked(v) # "list" => (visit'[v].at \in {"read", "select"} <=> visit[v].at \in {"read", "select"}),
           Asked(v) # "list" /\ visit[v].at \in {"read", "select"} => visit'[v].skill = visit[v].skill,
           visit'[v].found = visit[v].found \/ visit[v].at = "idle" \/ Asked(v) # "list",
           VisitTrue(v)', ShelfFresh => VisitFresh(v)'
    PROVE  ShelfInv'
<1>1. ShelfTypes'
  BY DEF ShelfInv, ShelfTypes, Folders
<1>2. DiskTrue' /\ RowsTrue'
  BY DEF ShelfInv, DiskTrue, RowsTrue, Mates, Folders
<1>3. \A u \in Visits \ {v} : VisitTrue(u)'
  BY OthersVisitTrue DEF ShelfInv
<1>4. ASSUME Undisturbed'
      PROVE  RowsKept' /\ \A u \in Visits : VisitFresh(u)'
  <2>1. Undisturbed
    BY <1>4 DEF Undisturbed, NoneLater
  <2>2. ShelfFresh
    BY <2>1 DEF ShelfInv, ShelfFresh
  <2>3. Relisted => Relisted'
    BY RelistedStays DEF ShelfInv
  <2>4. RowsKept'
    BY <2>2, <2>3, RowsStay DEF ShelfFresh
  <2>5. \A u \in Visits \ {v} : VisitFresh(u)'
    BY <2>2, OthersFresh DEF ShelfFresh
  <2> QED
    BY <2>2, <2>4, <2>5
<1> QED
  BY <1>1, <1>2, <1>3, <1>4 DEF ShelfInv

\* A request that ends at once.
LEMMA EndsSure ==
    ASSUME ShelfInv, NEW v \in Visits, visit[v].at = "idle", Reaches(v, "over"),
           UNCHANGED <<skillRow, disk, owned, switchedOff, replaced, wiped, crossed>>
    PROVE  ShelfInv'
<1>1. visit \in [Visits -> VisitRecords] /\ VisitTrue(v)
  BY DEF ShelfInv, ShelfTypes
<1>2. /\ visit' \in [Visits -> VisitRecords] /\ Calls(v) /\ NoneLater(v) /\ visit'[v].at = "over"
      /\ visit'[v].skill = visit[v].skill /\ visit'[v].found = visit[v].found
  BY <1>1, VisitReaches
<1>3. VisitTrue(v)'
  BY <1>1, <1>2 DEF VisitTrue, Mid, NoneLater
<1>4. VisitFresh(v)'
  BY <1>2, RestingFresh DEF Mid
<1> QED
  BY <1>2, <1>3, <1>4, QuietSure

\* The rows an install or an uninstall found.
LEMMA ReadSure ==
    ASSUME ShelfInv, NEW v \in Visits, ReadRows(v)
    PROVE  ShelfInv'
<1>0. PICK n : n = visit[v].skill
  OBVIOUS
<1>1. PICK keep : keep = IF Asked(v) = "install" THEN HaveRows \cup {n} ELSE HaveRows \ {n}
  OBVIOUS
<1>2. PICK found : found = [m \in keep |-> IF m = n THEN "user" ELSE skillRow[m].type]
  OBVIOUS
<1>3. /\ visit \in [Visits -> VisitRecords] /\ skillRow \in [SkillNames -> [type : {Empty, "user", "bundled"}, enabled : BOOLEAN]]
      /\ DiskTrue /\ RowsTrue /\ VisitTrue(v)
  BY DEF ShelfInv, ShelfTypes
<1>4. /\ visit[v].at = "read" /\ Asked(v) \in {"install", "uninstall"} /\ n \in SkillNames
      /\ UNCHANGED <<skillRow, disk, owned, switchedOff, replaced, wiped, crossed>>
      /\ visit' = [visit EXCEPT ![v] = [@ EXCEPT !.at = "select", !.found = found]]
  BY <1>0, <1>1, <1>2, <1>3, VisitFields DEF ReadRows, Stands, HaveRows
<1>5. keep \in SUBSET SkillNames
  BY <1>1, <1>4 DEF HaveRows
<1>6. ASSUME NEW m \in keep
      PROVE  /\ found[m] = (IF m = n THEN "user" ELSE skillRow[m].type)
             /\ found[m] \in {"user", "bundled"}
  <2>1. m = n \/ (m \in SkillNames /\ skillRow[m].type # Empty)
    BY <1>1 DEF HaveRows, HasRow
  <2>2. m # n => skillRow[m].type \in {"user", "bundled"}
    BY <2>1, <1>3
  <2> QED
    BY <2>2, <1>2
<1>7. DOMAIN found = keep /\ found \in Founds
  <2>1. found \in [keep -> {"user", "bundled"}]
    BY <1>2, <1>6
  <2> QED
    BY <2>1, <1>2, <1>5, FoundIn
<1>8. /\ visit' \in [Visits -> VisitRecords] /\ Calls(v) /\ NoneLater(v) /\ visit'[v].at = "select"
      /\ visit'[v].skill = n /\ visit'[v].found = found
  BY <1>0, <1>3, <1>4, <1>7, VisitReads
<1>9. Asked(v)' = Asked(v) /\ Mid(v)' /\ Mid(v) /\ visit'[v].late = visit[v].late
  BY <1>4, <1>8 DEF Calls, Alike, Mid, NoneLater
<1>10. ASSUME NEW m \in keep
       PROVE  /\ found[m] = "user" => Mates(m) \subseteq replaced
              /\ found[m] = "bundled" => m \in Bundled
  <2>1. Mates(n) \subseteq replaced
    BY <1>0, <1>3, <1>4, <1>9 DEF VisitTrue
  <2>2. m \in SkillNames
    BY <1>5
  <2>3. skillRow[m].type = "user" => Mates(m) \subseteq replaced
    BY <2>2, <1>3 DEF DiskTrue
  <2>4. skillRow[m].type = "bundled" => m \in Bundled
    BY <2>2, <1>3 DEF RowsTrue
  <2> QED
    BY <2>1, <2>3, <2>4, <1>6
<1>11. \A m : Mates(m)' = Mates(m)
  BY DEF Mates
<1>12. VisitTrue(v)'
  <2>1. (Mid(v) => \/ (Asked(v) = "install" /\ visit[v].at # "remove")
                   \/ Asked(v) = "uninstall"
                   \/ (Asked(v) = "list" /\ visit[v].at = "select"))'
    BY <1>4, <1>8, <1>9
  <2>2. (Mid(v) /\ Asked(v) \in {"install", "uninstall"} => Mates(visit[v].skill) \subseteq replaced)'
    BY <1>0, <1>3, <1>4, <1>8, <1>9, <1>11 DEF VisitTrue
  <2>3. (\A m \in DOMAIN visit[v].found :
          /\ visit[v].found[m] = "user" => Mates(m) \subseteq replaced
          /\ visit[v].found[m] = "bundled" => m \in Bundled)'
    BY <1>4, <1>7, <1>8, <1>10, <1>11
  <2>4. (visit[v].at = "select" /\ Asked(v) = "uninstall" => visit[v].skill \notin DOMAIN visit[v].found)'
    BY <1>1, <1>7, <1>8, <1>9
  <2>5. (/\ visit[v].at = "idle" => visit[v].skill = Skill(v) /\ DOMAIN visit[v].found = {}
         /\ visit[v].at = "select" /\ Asked(v) = "list" => DOMAIN visit[v].found # {})'
    BY <1>4, <1>8, <1>9
  <2> QED
    BY <1>9, <2>1, <2>2, <2>3, <2>4, <2>5 DEF VisitTrue
<1>13. ASSUME ShelfFresh PROVE VisitFresh(v)'
  <2>1. VisitFresh(v)
    BY <1>13 DEF ShelfFresh
  <2>2. HaveRows' = HaveRows
    BY <1>4 DEF HaveRows, HasRow
  <2>3. (/\ Asked(v) = "install" /\ visit[v].at \in {"read", "select"} => disk[Folder[visit[v].skill]] = visit[v].skill
         /\ Asked(v) = "uninstall" /\ visit[v].at \in {"read", "select"} => disk[Folder[visit[v].skill]] = Empty)'
    BY <1>0, <1>4, <1>8, <1>9, <2>1 DEF VisitFresh
  <2>4. ASSUME Asked(v) = "install"
        PROVE  (/\ DOMAIN visit[v].found = HaveRows \cup {visit[v].skill}
                /\ \A m \in HaveRows \cup {visit[v].skill} :
                      visit[v].found[m] = IF m = visit[v].skill THEN "user" ELSE skillRow[m].type)'
    BY <1>1, <1>4, <1>6, <1>7, <1>8, <2>2, <2>4
  <2>5. ASSUME Asked(v) = "uninstall"
        PROVE  (/\ DOMAIN visit[v].found = HaveRows \ {visit[v].skill}
                /\ \A m \in HaveRows \ {visit[v].skill} : visit[v].found[m] = skillRow[m].type)'
    BY <1>1, <1>4, <1>6, <1>7, <1>8, <2>2, <2>5
  <2> QED
    BY <1>4, <1>9, <2>3, <2>4, <2>5 DEF VisitFresh
<1> QED
  BY <1>3, <1>4, <1>8, <1>12, <1>13, QuietSure

\* What a list found in the directories.
LEMMA ListSure ==
    ASSUME ShelfInv, NEW v \in Visits, ListSkills(v)
    PROVE  ShelfInv'
<1>1. PICK at, found : /\ at = IF Brought(FALSE) = {} THEN "over" ELSE "select"
                       /\ found = [m \in Brought(FALSE) |-> "user"]
  OBVIOUS
<1>2. /\ visit[v].at = "idle" /\ Asked(v) = "list" /\ visit' = [visit EXCEPT ![v] = [@ EXCEPT !.at = at, !.found = found]]
      /\ UNCHANGED <<skillRow, disk, owned, switchedOff, replaced, wiped, crossed>>
  BY <1>1 DEF ListSkills, Stands
<1>3. ShelfTypes /\ visit \in [Visits -> VisitRecords] /\ DiskTrue /\ VisitTrue(v)
  BY DEF ShelfInv, ShelfTypes
<1>4. \A m \in Brought(FALSE) : m \in SkillNames /\ Mates(m) \subseteq replaced
  BY <1>3, BroughtFacts
<1>5. found \in Founds /\ DOMAIN found = Brought(FALSE) /\ \A m \in Brought(FALSE) : found[m] = "user"
  <2>1. found \in [Brought(FALSE) -> {"user", "bundled"}]
    BY <1>1
  <2>2. Brought(FALSE) \in SUBSET SkillNames
    BY <1>4
  <2> QED
    BY <2>1, <2>2, <1>1, FoundIn
<1>6. /\ visit' \in [Visits -> VisitRecords] /\ Calls(v) /\ NoneLater(v) /\ visit'[v].at = at
      /\ visit'[v].skill = visit[v].skill /\ visit'[v].found = found
  BY <1>1, <1>2, <1>3, <1>5, VisitReads, ZenonT(30)
<1>7. Asked(v)' = "list" /\ visit'[v].late = visit[v].late /\ ~Mid(v)
  BY <1>2, <1>6 DEF Calls, Alike, NoneLater, Mid
<1>8. \A m : Mates(m)' = Mates(m)
  BY DEF Mates
<1>9. VisitTrue(v)'
  <2>1. (\A m \in DOMAIN visit[v].found :
          /\ visit[v].found[m] = "user" => Mates(m) \subseteq replaced
          /\ visit[v].found[m] = "bundled" => m \in Bundled)'
    BY <1>2, <1>4, <1>5, <1>6, <1>8
  <2>2. (visit[v].at = "select" => DOMAIN visit[v].found # {})'
    BY <1>1, <1>5, <1>6
  <2>3. visit'[v].at \in {"over", "select"}
    BY <1>1, <1>6
  <2>4. (visit[v].late => Mid(v) \/ crossed)'
    BY <1>2, <1>3, <1>7 DEF VisitTrue
  <2> QED
    BY <1>7, <2>1, <2>2, <2>3, <2>4 DEF VisitTrue, Mid
<1>10. VisitFresh(v)'
  <2>1. Brought(FALSE)' = Brought(FALSE)
    BY <1>2 DEF Brought
  <2> QED
    BY <1>5, <1>6, <1>7, <2>1 DEF VisitFresh
<1> QED
  BY <1>2, <1>6, <1>9, <1>10, QuietSure

\* Which skill is meant.
LEMMA FindSure ==
    ASSUME ShelfInv, NEW v \in Visits, FindSkill(v)
    PROVE  ShelfInv'
<1>1. /\ visit[v].at = "idle" /\ Asked(v) = "uninstall"
      /\ UNCHANGED <<skillRow, disk, owned, switchedOff, replaced, wiped, crossed>>
  BY DEF FindSkill, Stands
<1>2. ShelfTypes /\ visit \in [Visits -> VisitRecords] /\ DiskTrue /\ VisitTrue(v)
  BY DEF ShelfInv, ShelfTypes
<1>3. CASE Reaches(v, "over")
  BY <1>1, <1>3, EndsSure
<1>4. ASSUME NEW m, Removable(m), visit' = [visit EXCEPT ![v] = [@ EXCEPT !.at = "remove", !.skill = m]]
      PROVE  ShelfInv'
  <2>1. m \in SkillNames /\ Mates(m) \subseteq replaced
    BY <1>2, <1>4, BroughtFacts DEF Removable
  <2>2. /\ visit' \in [Visits -> VisitRecords] /\ Calls(v) /\ NoneLater(v) /\ visit'[v].at = "remove"
        /\ visit'[v].skill = m /\ visit'[v].found = visit[v].found
    BY <1>2, <1>4, <2>1, VisitMeans
  <2>3. Asked(v)' = "uninstall" /\ DOMAIN visit[v].found = {} /\ Mid(v)'
    BY <1>1, <1>2, <2>2 DEF Calls, Alike, VisitTrue, Mid
  <2>4. Mates(m)' = Mates(m)
    BY DEF Mates
  <2>5. VisitTrue(v)'
    BY <1>1, <2>1, <2>2, <2>3, <2>4 DEF VisitTrue
  <2>6. VisitFresh(v)'
    BY <2>2 DEF VisitFresh
  <2> QED
    BY <1>1, <2>2, <2>5, <2>6, QuietSure
<1> QED
  BY <1>3, <1>4 DEF FindSkill

\* Rows that are written by a request that ends with it: all that is left to show of each such
\* write is that rows and history go together.
LEMMA WriteSure ==
    ASSUME ShelfInv, NEW v \in Visits, NEW new, WritesRows(v, new),
           new \in [SkillNames -> [type : {Empty, "user", "bundled"}, enabled : BOOLEAN]],
           UNCHANGED <<disk, owned, replaced, wiped>>, RowsTrue',
           \A n \in SkillNames : new[n].type = "user" => Mates(n) \subseteq replaced,
           ShelfFresh /\ (\A u \in Visits \ {v} : ~Mid(u)) => RowsKept'
    PROVE  ShelfInv'
<1>1. skillRow' = new /\ Changes(v, "over") /\ crossed' = (crossed \/ visit[v].late)
  BY DEF WritesRows
<1>2. visit \in [Visits -> VisitRecords] /\ VisitTrue(v) /\ DiskTrue
  BY DEF ShelfInv, ShelfTypes
<1>3. /\ visit' \in [Visits -> VisitRecords] /\ Calls(v) /\ OthersLater(v) /\ visit'[v].at = "over"
      /\ visit'[v].skill = visit[v].skill /\ visit'[v].found = visit[v].found
  BY <1>1, <1>2, VisitChanges
<1>4. ShelfTypes'
  BY <1>1, <1>2, <1>3, VisitFields DEF ShelfInv, ShelfTypes, Folders
<1>5. \A m : Mates(m)' = Mates(m)
  BY DEF Mates
<1>6. DiskTrue'
  <2>1. (\A f \in Folders : disk[f] # Empty => Folder[disk[f]] = f)'
    BY <1>2 DEF DiskTrue, Folders
  <2>2. (\A n \in SkillNames : (disk[Folder[n]] = n \/ skillRow[n].type = "user") => Mates(n) \subseteq replaced)'
    BY <1>1, <1>2, <1>5 DEF DiskTrue
  <2>3. (\A n \in SkillNames \ replaced : n \in owned <=> disk[Folder[n]] = n)'
    BY <1>2 DEF DiskTrue
  <2> QED
    BY <2>1, <2>2, <2>3 DEF DiskTrue
<1>7. VisitTrue(v)'
  <2>1. \A m \in DOMAIN visit[v].found :
          /\ visit[v].found[m] = "user" => Mates(m) \subseteq replaced
          /\ visit[v].found[m] = "bundled" => m \in Bundled
    BY <1>2 DEF VisitTrue
  <2>2. ~Mid(v)' /\ (visit'[v].late => crossed')
    BY <1>1, <1>3 DEF Mid, OthersLater
  <2> QED
    BY <1>3, <1>5, <2>1, <2>2 DEF VisitTrue
<1>8. \A u \in Visits \ {v} : VisitTrue(u)'
  BY <1>1, <1>3, OthersVisitTrue DEF ShelfInv
<1>9. ASSUME Undisturbed'
      PROVE  RowsKept' /\ \A u \in Visits : VisitFresh(u)'
  <2>1. Undisturbed /\ \A u \in Visits \ {v} : ~Mid(u)
    BY <1>1, <1>2, <1>3, <1>9, AloneNow
  <2>2. ShelfFresh
    BY <2>1 DEF ShelfInv, ShelfFresh
  <2>3. \A u \in Visits \ {v} : VisitFresh(u)'
    BY <1>3, <2>1, OthersResting
  <2>4. VisitFresh(v)'
    BY <1>3, RestingFresh DEF Mid
  <2> QED
    BY <2>1, <2>2, <2>3, <2>4
<1> QED
  BY <1>4, <1>6, <1>7, <1>8, <1>9 DEF ShelfInv
LEMMA WriteRelisted ==
    ASSUME ShelfInv, NEW v \in Visits, NEW new, WritesRows(v, new)
    PROVE  /\ Relisted => Relisted'
           /\ Asked(v) = "list" /\ DOMAIN visit[v].found # {} => Relisted'
<1>1. visit \in [Visits -> VisitRecords] /\ VisitTrue(v)
  BY DEF ShelfInv, ShelfTypes
<1>2. Calls(v) /\ visit'[v].found = visit[v].found
  BY <1>1, VisitChanges DEF WritesRows
<1>3. Relisted => Relisted'
  BY <1>1, <1>2, RelistedStays
<1>4. Asked(v)' = Asked(v)
  BY <1>2 DEF Calls, Alike
<1> QED
  BY <1>2, <1>3, <1>4 DEF Relisted

\* A switch.
LEMMA ToggleSure ==
    ASSUME ShelfInv, NEW v \in Visits, SetEnabled(v)
    PROVE  ShelfInv'
<1>0. PICK n : n = Skill(v)
  OBVIOUS
<1>1. visit[v].at = "idle" /\ Asked(v) \in {"enable", "disable"} /\ UNCHANGED <<disk, owned, replaced, wiped>>
  BY DEF SetEnabled, Stands
<1>2. /\ visit \in [Visits -> VisitRecords] /\ VisitTrue(v) /\ DiskTrue /\ RowsTrue
      /\ skillRow \in [SkillNames -> [type : {Empty, "user", "bundled"}, enabled : BOOLEAN]]
  BY DEF ShelfInv, ShelfTypes
<1>3. n \in SkillNames
  BY <1>0, <1>2, VisitFields
<1>4. CASE ~(HasRow(n) \/ n \in Bundled)
  BY <1>0, <1>1, <1>4, EndsSure DEF SetEnabled
<1>5. CASE HasRow(n) \/ n \in Bundled
  <2>1. PICK type, on : /\ type = (IF HasRow(n) THEN skillRow[n].type ELSE "bundled")
                        /\ on = (Asked(v) = "enable")
    OBVIOUS
  <2>2. PICK new : new = [skillRow EXCEPT ![n] = [type |-> type, enabled |-> on]]
    OBVIOUS
  <2>3. /\ WritesRows(v, new)
        /\ switchedOff' = IF Asked(v) = "enable" THEN switchedOff \ {n} ELSE switchedOff \cup {n}
    BY <1>0, <1>5, <2>1, <2>2 DEF SetEnabled
  <2>4. /\ type \in {Empty, "user", "bundled"} /\ type # Empty /\ on \in BOOLEAN
        /\ type = "bundled" => n \in Bundled
        /\ type = "user" => skillRow[n].type = "user"
        /\ skillRow[n].type = "user" => type = "user"
    BY <1>2, <1>3, <1>5, <2>1 DEF HasRow, RowsTrue, Empty
  <2>5. /\ new \in [SkillNames -> [type : {Empty, "user", "bundled"}, enabled : BOOLEAN]]
        /\ new[n].type = type /\ new[n].enabled = on
        /\ \A m \in SkillNames \ {n} : new[m] = skillRow[m]
    BY <1>2, <1>3, <2>2, <2>4
  <2>6. skillRow' = new
    BY <2>3 DEF WritesRows
  <2>7. on <=> Asked(v) = "enable"
    BY <2>1
  <2>8. RowsTrue'
    <3>1. ASSUME NEW m \in SkillNames
          PROVE  (/\ skillRow[m].type = Empty => skillRow[m].enabled
                  /\ skillRow[m].type = "bundled" => m \in Bundled
                  /\ ~skillRow[m].enabled => m \in switchedOff)'
      <4>1. CASE m = n
        BY <4>1, <2>3, <2>4, <2>5, <2>6, <2>7
      <4>2. CASE m # n
        <5>1. skillRow'[m] = skillRow[m] /\ (m \in switchedOff => m \in switchedOff')
          BY <4>2, <2>3, <2>5, <2>6
        <5> QED
          BY <5>1, <1>2 DEF RowsTrue
      <4> QED
        BY <4>1, <4>2
    <3> QED
      BY <3>1 DEF RowsTrue
  <2>9. \A m \in SkillNames : new[m].type = "user" => Mates(m) \subseteq replaced
    BY <1>2, <1>3, <2>4, <2>5 DEF DiskTrue
  <2>10. ASSUME ShelfFresh, \A u \in Visits \ {v} : ~Mid(u)
         PROVE  RowsKept'
    <3>1. \A op, m : ~Pending(op, m)
      BY <2>10, <1>1, PendingOnly
    <3>2. RowsKept
      BY <2>10 DEF ShelfFresh
    <3>3. Relisted => Relisted'
      BY <2>3, WriteRelisted
    <3>4. ASSUME NEW m \in SkillNames, m \notin replaced'
          PROVE  (/\ m \in owned => skillRow[m].type = "user" \/ Pending("install", m)
                  /\ skillRow[m].type = "user" /\ m \notin wiped => disk[Folder[m]] = m \/ Pending("uninstall", m)
                  /\ m \in switchedOff => ~skillRow[m].enabled \/ (Relisted /\ m \in Bundled \cup wiped))'
      <4>1. m \in SkillNames \ replaced
        BY <3>4, <1>1
      <4>2. skillRow'[m].type = "user" <=> skillRow[m].type = "user"
        BY <2>4, <2>5, <2>6
      <4>3. (m \in owned => skillRow[m].type = "user" \/ Pending("install", m))'
        BY <1>1, <3>1, <3>2, <4>1, <4>2 DEF RowsKept
      <4>4. (skillRow[m].type = "user" /\ m \notin wiped => disk[Folder[m]] = m \/ Pending("uninstall", m))'
        BY <1>1, <3>1, <3>2, <4>1, <4>2 DEF RowsKept
      <4>5. CASE m = n
        <5>1. m \in switchedOff' => ~skillRow'[m].enabled
          BY <4>5, <2>3, <2>5, <2>6, <2>7
        <5> QED
          BY <4>3, <4>4, <5>1
      <4>6. CASE m # n
        <5>1. skillRow'[m] = skillRow[m] /\ (m \in switchedOff' => m \in switchedOff)
          BY <4>6, <2>3, <2>5, <2>6
        <5>2. (m \in switchedOff => ~skillRow[m].enabled \/ (Relisted /\ m \in Bundled \cup wiped))'
          BY <5>1, <3>2, <3>3, <4>1, <1>1 DEF RowsKept
        <5> QED
          BY <4>3, <4>4, <5>2
      <4> QED
        BY <4>5, <4>6
    <3> QED
      BY <3>4 DEF RowsKept
  <2> QED
    BY <1>1, <2>3, <2>5, <2>8, <2>9, <2>10, WriteSure
<1> QED
  BY <1>4, <1>5

\* What the rows come to when what a request found is written.
LEMMA SyncedIs ==
    ASSUME NEW found \in Founds,
           skillRow \in [SkillNames -> [type : {Empty, "user", "bundled"}, enabled : BOOLEAN]]
    PROVE  /\ Synced(found) \in [SkillNames -> [type : {Empty, "user", "bundled"}, enabled : BOOLEAN]]
           /\ \A n \in DOMAIN found : /\ n \in SkillNames /\ found[n] \in {"user", "bundled"}
                                      /\ Synced(found)[n].type = found[n]
                                      /\ Synced(found)[n].enabled = skillRow[n].enabled
           /\ \A n \in SkillNames \ DOMAIN found : Synced(found)[n].type = Empty /\ Synced(found)[n].enabled
<1>1. DOMAIN found \subseteq SkillNames /\ \A n \in DOMAIN found : found[n] \in {"user", "bundled"}
  BY FoundIs
<1>2. \A n \in SkillNames : skillRow[n] \in [type : {Empty, "user", "bundled"}, enabled : BOOLEAN]
  OBVIOUS
<1>3. ASSUME NEW n \in DOMAIN found
      PROVE  /\ Synced(found)[n] \in [type : {Empty, "user", "bundled"}, enabled : BOOLEAN]
             /\ Synced(found)[n].type = found[n] /\ Synced(found)[n].enabled = skillRow[n].enabled
  <2>1. Synced(found)[n] = [skillRow[n] EXCEPT !.type = found[n]]
    BY <1>1 DEF Synced
  <2>2. PICK t : t = found[n] /\ t \in {"user", "bundled"}
    BY <1>1
  <2>3. Synced(found)[n] = [skillRow[n] EXCEPT !.type = t]
    BY <2>1, <2>2
  <2> QED
    BY <1>1, <1>2, <2>2, <2>3
<1>4. ASSUME NEW n \in SkillNames \ DOMAIN found
      PROVE  /\ Synced(found)[n] \in [type : {Empty, "user", "bundled"}, enabled : BOOLEAN]
             /\ Synced(found)[n].type = Empty /\ Synced(found)[n].enabled
  BY DEF Synced, NoRow
<1>5. Synced(found) \in [SkillNames -> [type : {Empty, "user", "bundled"}, enabled : BOOLEAN]]
  <2>1. \A n \in SkillNames : Synced(found)[n] \in [type : {Empty, "user", "bundled"}, enabled : BOOLEAN]
    BY <1>3, <1>4
  <2>2. PICK s : s = Synced(found)
    OBVIOUS
  <2>3. s = [n \in SkillNames |-> s[n]]
    BY <2>2 DEF Synced
  <2> QED
    BY <2>1, <2>2, <2>3
<1> QED
  BY <1>1, <1>3, <1>4, <1>5

LEMMA SyncSure ==
    ASSUME ShelfInv, NEW v \in Visits, SyncUserSkills(v)
    PROVE  ShelfInv'
<1>0. PICK n, found : n = visit[v].skill /\ found = visit[v].found
  OBVIOUS
<1>1. PICK new : new = Synced(found)
  OBVIOUS
<1>2. /\ visit[v].at = "select" /\ WritesRows(v, new) /\ UNCHANGED <<disk, owned, replaced, wiped>>
      /\ switchedOff' = IF Asked(v) = "uninstall" THEN switchedOff \ {n} ELSE switchedOff
  BY <1>0, <1>1 DEF SyncUserSkills
<1>3. /\ visit \in [Visits -> VisitRecords] /\ VisitTrue(v) /\ DiskTrue /\ RowsTrue /\ ShelfTypes
      /\ skillRow \in [SkillNames -> [type : {Empty, "user", "bundled"}, enabled : BOOLEAN]]
  BY DEF ShelfInv, ShelfTypes
<1>4. /\ n \in SkillNames /\ found \in Founds
      /\ Asked(v) = "install" \/ Asked(v) = "uninstall" \/ Asked(v) = "list"
  BY <1>0, <1>2, <1>3, VisitFields DEF VisitTrue, Mid
<1>5. /\ new \in [SkillNames -> [type : {Empty, "user", "bundled"}, enabled : BOOLEAN]]
      /\ \A m \in DOMAIN found : /\ m \in SkillNames /\ found[m] \in {"user", "bundled"}
                                 /\ new[m].type = found[m] /\ new[m].enabled = skillRow[m].enabled
      /\ \A m \in SkillNames \ DOMAIN found : new[m].type = Empty /\ new[m].enabled
  BY <1>1, <1>3, <1>4, SyncedIs
<1>6. skillRow' = new
  BY <1>2 DEF WritesRows
<1>7. \A m \in DOMAIN found : /\ found[m] = "user" => Mates(m) \subseteq replaced
                              /\ found[m] = "bundled" => m \in Bundled
  BY <1>0, <1>3 DEF VisitTrue
<1>8. Asked(v) = "uninstall" => n \notin DOMAIN found
  BY <1>0, <1>2, <1>3 DEF VisitTrue
<1>9. RowsTrue'
  <2>1. ASSUME NEW m \in SkillNames
        PROVE  (/\ skillRow[m].type = Empty => skillRow[m].enabled
                /\ skillRow[m].type = "bundled" => m \in Bundled
                /\ ~skillRow[m].enabled => m \in switchedOff)'
    <3>1. CASE m \in DOMAIN found
      <4>1. skillRow'[m].type = found[m] /\ found[m] # Empty /\ skillRow'[m].enabled = skillRow[m].enabled
        BY <3>1, <1>5, <1>6 DEF Empty
      <4>2. ~skillRow[m].enabled => m \in switchedOff
        BY <1>3 DEF RowsTrue
      <4>3. m \in switchedOff => m \in switchedOff'
        BY <3>1, <1>2, <1>8
      <4> QED
        BY <3>1, <4>1, <4>2, <4>3, <1>7
    <3>2. CASE m \notin DOMAIN found
      BY <3>2, <1>5, <1>6 DEF Empty
    <3> QED
      BY <3>1, <3>2
  <2> QED
    BY <2>1 DEF RowsTrue
<1>10. \A m \in SkillNames : new[m].type = "user" => Mates(m) \subseteq replaced
  BY <1>5, <1>7 DEF Empty
<1>11. ASSUME ShelfFresh, \A u \in Visits \ {v} : ~Mid(u)
       PROVE  RowsKept'
  <2>1. RowsKept /\ VisitFresh(v)
    BY <1>11 DEF ShelfFresh
  <2>2. \A op, m : Pending(op, m) => Asked(v) = op /\ m = n
    BY <1>0, <1>11, PendingOnly
  <2>3. /\ Relisted => Relisted'
        /\ Asked(v) = "list" /\ DOMAIN found # {} => Relisted'
    BY <1>0, <1>2, WriteRelisted
  <2>4. ASSUME NEW m \in SkillNames, m \notin replaced
        PROVE  /\ m \in owned => new[m].type = "user"
               /\ new[m].type = "user" /\ m \notin wiped => disk[Folder[m]] = m
               /\ m \in switchedOff' => ~new[m].enabled \/ (Relisted' /\ m \in Bundled \cup wiped)
    <3>1. /\ m \in owned => skillRow[m].type = "user" \/ Pending("install", m)
          /\ skillRow[m].type = "user" /\ m \notin wiped => disk[Folder[m]] = m \/ Pending("uninstall", m)
          /\ m \in switchedOff => ~skillRow[m].enabled \/ (Relisted /\ m \in Bundled \cup wiped)
      BY <2>1, <2>4 DEF RowsKept
    <3>2. m \in owned <=> disk[Folder[m]] = m
      BY <2>4, <1>3 DEF DiskTrue
    <3>3. ~skillRow[m].enabled => HasRow(m)
      BY <1>3 DEF RowsTrue, HasRow
    <3>4. HasRow(m) => m \in HaveRows
      BY DEF HaveRows
    <3>5. skillRow[m].type = "user" => HasRow(m)
      BY DEF HasRow, Empty
    <3>6. m \in DOMAIN found => new[m].type = found[m] /\ new[m].enabled = skillRow[m].enabled
      BY <1>5
    <3>7. m \notin DOMAIN found => new[m].type # "user"
      BY <1>5 DEF Empty
    <3>8. CASE Asked(v) = "list"
      <4>1. /\ DOMAIN found = Brought(FALSE)
            /\ \A k \in Brought(FALSE) : found[k] = "user"
        BY <1>0, <1>2, <2>1, <3>8 DEF VisitFresh
      <4>2. ~Pending("install", m) /\ ~Pending("uninstall", m)
        BY <2>2, <3>8
      <4>3. skillRow[m].type = "user" /\ disk[Folder[m]] = m => m \in Brought(FALSE)
        BY <1>3, OwnBrought
      <4>4. m \in Brought(FALSE) => disk[Folder[m]] = m
        BY <1>3, BroughtFacts
      <4>5. m \in owned => new[m].type = "user"
        BY <3>1, <3>2, <3>6, <4>1, <4>2, <4>3
      <4>6. new[m].type = "user" => disk[Folder[m]] = m
        BY <3>7, <4>1, <4>4
      <4>7. Relisted' /\ switchedOff' = switchedOff
        <5>1. DOMAIN found # {}
          BY <1>0, <1>2, <1>3, <3>8 DEF VisitTrue
        <5> QED
          BY <5>1, <1>2, <2>3, <3>8
      <4>8. ASSUME m \in switchedOff, m \notin DOMAIN found, ~skillRow[m].enabled
            PROVE  m \in Bundled \cup wiped
        <5>1. skillRow[m].type \in {"user", "bundled"}
          BY <4>8, <3>3, <1>3 DEF HasRow
        <5>2. skillRow[m].type = "bundled" => m \in Bundled
          BY <1>3 DEF RowsTrue
        <5> QED
          BY <5>1, <5>2, <3>1, <4>1, <4>2, <4>3, <4>8
      <4>9. m \in switchedOff' => ~new[m].enabled \/ (Relisted' /\ m \in Bundled \cup wiped)
        BY <3>1, <3>6, <4>7, <4>8
      <4> QED
        BY <4>5, <4>6, <4>9
    <3>9. CASE Asked(v) = "install"
      <4>1. /\ DOMAIN found = HaveRows \cup {n} /\ disk[Folder[n]] = n
            /\ \A k \in HaveRows \cup {n} : found[k] = IF k = n THEN "user" ELSE skillRow[k].type
        BY <1>0, <1>2, <2>1, <3>9 DEF VisitFresh
      <4>2. ~Pending("uninstall", m) /\ (Pending("install", m) => m = n)
        BY <2>2, <3>9
      <4>3. m \in owned => new[m].type = "user"
        BY <3>1, <3>4, <3>5, <3>6, <4>1, <4>2
      <4>4. new[m].type = "user" /\ m \notin wiped => disk[Folder[m]] = m
        BY <3>1, <3>6, <3>7, <4>1, <4>2
      <4>5. m \in switchedOff' => ~new[m].enabled \/ (Relisted' /\ m \in Bundled \cup wiped)
        BY <1>2, <2>3, <3>1, <3>3, <3>4, <3>6, <3>9, <4>1
      <4> QED
        BY <4>3, <4>4, <4>5
    <3>10. CASE Asked(v) = "uninstall"
      <4>1. /\ DOMAIN found = HaveRows \ {n} /\ disk[Folder[n]] = Empty
            /\ \A k \in HaveRows \ {n} : found[k] = skillRow[k].type
        BY <1>0, <1>2, <2>1, <3>10 DEF VisitFresh
      <4>2. ~Pending("install", m) /\ (Pending("uninstall", m) => m = n)
        BY <2>2, <3>10
      <4>3. m \in owned => m # n
        BY <3>2, <4>1, ShelfAssumption
      <4>4. m \in owned => new[m].type = "user"
        BY <3>1, <3>4, <3>5, <3>6, <4>1, <4>2, <4>3
      <4>5. new[m].type = "user" /\ m \notin wiped => disk[Folder[m]] = m
        BY <3>1, <3>6, <3>7, <4>1, <4>2
      <4>6. m \in switchedOff' => ~new[m].enabled \/ (Relisted' /\ m \in Bundled \cup wiped)
        BY <1>2, <2>3, <3>1, <3>3, <3>4, <3>6, <3>10, <4>1
      <4> QED
        BY <4>4, <4>5, <4>6
    <3> QED
      BY <1>4, <3>8, <3>9, <3>10
  <2>5. ASSUME NEW m \in SkillNames, m \notin replaced'
        PROVE  (/\ m \in owned => skillRow[m].type = "user" \/ Pending("install", m)
                /\ skillRow[m].type = "user" /\ m \notin wiped => disk[Folder[m]] = m \/ Pending("uninstall", m)
                /\ m \in switchedOff => ~skillRow[m].enabled \/ (Relisted /\ m \in Bundled \cup wiped))'
    BY <1>2, <1>6, <2>4, <2>5
  <2> QED
    BY <2>5 DEF RowsKept
<1> QED
  BY <1>2, <1>5, <1>9, <1>10, <1>11, WriteSure

LEMMA ShelfUnchanged == ShelfInv /\ UNCHANGED shelfVars => ShelfInv'
<1> SUFFICES ASSUME ShelfInv, UNCHANGED shelfVars PROVE ShelfInv'
  OBVIOUS
<1>0. UNCHANGED <<skillRow, disk, visit, owned, switchedOff, replaced, wiped, crossed>>
  BY DEF shelfVars
<1>1. ShelfTypes' /\ DiskTrue' /\ RowsTrue'
  BY <1>0 DEF ShelfInv, ShelfTypes, DiskTrue, RowsTrue, Mates, Folders
<1>2. \A v \in Visits : VisitTrue(v)'
  BY <1>0 DEF ShelfInv, VisitTrue, Mid, Mates, Asked, Skill
<1>3. Undisturbed' => Undisturbed
  BY <1>0 DEF Undisturbed
<1>4. RowsKept => RowsKept'
  BY <1>0 DEF RowsKept, Pending, Relisted, Asked
<1>5. (\A v \in Visits : VisitFresh(v)) => (\A v \in Visits : VisitFresh(v)')
  BY <1>0 DEF VisitFresh, HaveRows, HasRow, Brought, Asked
<1> QED
  BY <1>1, <1>2, <1>3, <1>4, <1>5 DEF ShelfInv

LEMMA ShelfInvShown == ShelfInv => SkillsShown
<1> SUFFICES ASSUME ShelfInv, AtRest, ~crossed, NEW n \in SkillNames \ replaced
             PROVE  /\ n \in Visible => n \in Bundled \cup owned
                    /\ n \in (Bundled \cup owned) \ switchedOff => n \in Visible
                    /\ n \in switchedOff /\ ~(Relisted /\ n \in Bundled \cup wiped) => n \notin Visible
  BY DEF SkillsShown
<1>1. \A v \in Visits : ~Mid(v)
  BY DEF AtRest, Mid
<1>2. Undisturbed
  BY <1>1 DEF ShelfInv, VisitTrue, Undisturbed
<1>3. RowsKept /\ ShelfTypes /\ DiskTrue /\ RowsTrue
  BY <1>2 DEF ShelfInv
<1>4. \A op : ~Pending(op, n)
  BY <1>1 DEF Pending, Mid
<1>5. n \in owned <=> disk[Folder[n]] = n
  BY <1>3 DEF DiskTrue
<1>6. n \in Brought(TRUE) => disk[Folder[n]] = n /\ skillRow[n].type = "user" /\ skillRow[n].enabled
  <2> SUFFICES ASSUME n \in Brought(TRUE)
               PROVE  disk[Folder[n]] = n /\ skillRow[n].type = "user" /\ skillRow[n].enabled
    OBVIOUS
  <2>1. disk[Folder[n]] = n
    BY <1>3, BroughtFacts
  <2>2. PICK m \in SkillNames : skillRow[m].type = "user" /\ skillRow[m].enabled /\ Folder[m] = Folder[n]
    BY <1>3, BroughtFacts
  <2>3. m = n
    BY <1>3, <2>2 DEF DiskTrue, Mates
  <2> QED
    BY <2>1, <2>2, <2>3
<1>7. ASSUME n \in Visible PROVE n \in Bundled \cup owned
  BY <1>5, <1>6, <1>7 DEF Visible, Shown
<1>8. ASSUME n \in (Bundled \cup owned) \ switchedOff PROVE n \in Visible
  <2>1. skillRow[n].enabled
    BY <1>3, <1>8 DEF RowsTrue
  <2>2. n \in Bundled => n \in Visible
    BY <2>1 DEF Visible, Shown
  <2>3. n \in owned => skillRow[n].type = "user" /\ disk[Folder[n]] = n
    BY <1>3, <1>4, <1>5 DEF RowsKept
  <2>4. n \in owned => n \in Brought(TRUE)
    BY <1>3, <2>1, <2>3, OwnBrought
  <2> QED
    BY <1>8, <2>2, <2>4 DEF Visible
<1>9. ASSUME n \in switchedOff, ~(Relisted /\ n \in Bundled \cup wiped) PROVE n \notin Visible
  <2>1. ~skillRow[n].enabled
    BY <1>3, <1>9 DEF RowsKept
  <2> QED
    BY <1>6, <2>1 DEF Visible, Shown
<1> QED
  BY <1>7, <1>8, <1>9

\* Whatever is asked, in whatever order and however the requests interleave: with none under way,
\* and none that wrote over another, a turn sees what the user installed and left on.
THEOREM ShelfShown == ShelfSpec => []SkillsShown
<1>1. ShelfInit => ShelfInv
  BY ShelfStarts
<1>2. ShelfInv /\ [ShelfNext]_shelfVars => ShelfInv'
  <2> SUFFICES ASSUME ShelfInv, [ShelfNext]_shelfVars PROVE ShelfInv'
    OBVIOUS
  <2>1. CASE UNCHANGED shelfVars
    BY <2>1, ShelfUnchanged
  <2>2. ASSUME NEW v \in Visits, VisitStep(v)
        PROVE  ShelfInv'
    <3>1. CASE InstallSkillDir(v)
      BY <3>1, InstallSure
    <3>2. CASE FetchFails(v)
      BY <3>2, EndsSure DEF FetchFails, Stands
    <3>3. CASE CopyFails(v)
      BY <3>3, CopyFailsSure
    <3>4. CASE ReadRows(v)
      BY <3>4, ReadSure
    <3>5. CASE SyncUserSkills(v)
      BY <3>5, SyncSure
    <3>6. CASE ListSkills(v)
      BY <3>6, ListSure
    <3>7. CASE FindSkill(v)
      BY <3>7, FindSure
    <3>8. CASE RemoveDir(v)
      BY <3>8, RemoveSure
    <3>9. CASE SetEnabled(v)
      BY <3>9, ToggleSure
    <3> QED
      BY <2>2, <3>1, <3>2, <3>3, <3>4, <3>5, <3>6, <3>7, <3>8, <3>9 DEF VisitStep
  <2> QED
    BY <2>1, <2>2 DEF ShelfNext
<1>3. ShelfInv => SkillsShown
  BY ShelfInvShown
<1> QED
  BY <1>1, <1>2, <1>3, PTL DEF ShelfSpec

-----------------------------------------------------------------------------
(* Memory *)

TurnRecords == [n : Nat, at : {"idle", "runs", "flushes", "goes on"}, queue : Seq(Nat)]
UpsertRecords == [n : Nat, at : {"none", "mark", "select", "commit"}, seen : SUBSET Nat, tries : Nat]
FactRecords == [value : Values, active : BOOLEAN]

MemoryTypes ==
    /\ script \in Scripts
    /\ toldSoFar \in Seq(Values \cup {Nothing}) /\ Len(toldSoFar) <= Len(script.says)
    /\ \A n \in 1..Len(toldSoFar) : toldSoFar[n] = script.says[n][2]
    /\ context \in [Chats -> Seq(Nat)] /\ turnOf \in [Chats -> TurnRecords]
    /\ facts \in Seq(FactRecords) /\ upsert \in [Writers -> UpsertRecords]
    /\ newest \in 0..Len(toldSoFar) /\ faded \in BOOLEAN /\ awry \in BOOLEAN

\* A message of a conversation.
ToldIn(c, n) == n \in 1..Len(toldSoFar) /\ script.says[n][1] = c /\ script.says[n][2] \in Values

\* A conversation works on its own messages; the facts of one whose turn runs are not being taken.
ChatTrue(c) ==
    /\ \A i \in DOMAIN context[c] : ToldIn(c, context[c][i])
    /\ \A i \in DOMAIN turnOf[c].queue : ToldIn(c, turnOf[c].queue[i])
    /\ turnOf[c].at # "idle" => ToldIn(c, turnOf[c].n) /\ upsert[turnOf[c].n].at = "none"

\* What is upserted was told; after a turn, by that turn.
UpsertTrue(w) ==
    upsert[w].at # "none" => /\ \E c \in Chats : ToldIn(c, upsert[w].n)
                             /\ w \in TellIds => upsert[w].n = w
                             /\ w \notin TellIds => upsert[w].at # "mark"

\* The fact that is active is the last that reached the store, unless a stale one was kept.
FactsTrue ==
    /\ \A i, j \in ActiveFacts : i = j
    /\ ~faded => /\ \A i \in ActiveFacts : newest # 0 /\ facts[i].value = toldSoFar[newest]
                 /\ newest # 0 /\ toldSoFar[newest] # Nothing => ActiveFacts # {}

\* A turn in the ledger has reached the store, or is about to.
LedgerTrue ==
    ~awry => \A n \in ledger : n \in 1..newest \/ (n \in TellIds /\ upsert[n].at \in {"select", "commit"})

FactsInv ==
    /\ MemoryTypes /\ FactsTrue /\ LedgerTrue
    /\ (\A c \in Chats : ChatTrue(c)) /\ \A w \in Writers : UpsertTrue(w)

EntriesInv ==
    /\ storer \in [Storers -> [at : {"idle", "commit", "over"}, value : Values, found : BOOLEAN]]
    /\ ~missed => entry = lastStored
    /\ entry # Nothing => \E s \in Storers : storer[s].at = "over" /\ storer[s].value = entry

\* What is told grows at its end.
Grows == script' = script /\ \E new : toldSoFar' = Append(toldSoFar, new)
Keeps == script' = script /\ (toldSoFar' = toldSoFar \/ Grows)

LEMMA ToldKept ==
    ASSUME MemoryTypes, Keeps
    PROVE  /\ Len(toldSoFar) \in Nat /\ Len(toldSoFar') \in Nat /\ Len(toldSoFar) <= Len(toldSoFar')
           /\ \A n \in 1..Len(toldSoFar) : toldSoFar'[n] = toldSoFar[n]
           /\ \A c, n : ToldIn(c, n) => ToldIn(c, n)'
<1>1. toldSoFar \in Seq(Values \cup {Nothing})
  BY DEF MemoryTypes
<1>2. /\ Len(toldSoFar) \in Nat /\ Len(toldSoFar') \in Nat /\ Len(toldSoFar) <= Len(toldSoFar')
      /\ \A n \in 1..Len(toldSoFar) : toldSoFar'[n] = toldSoFar[n]
  BY <1>1 DEF Keeps, Grows
<1>3. script' = script
  BY DEF Keeps, Grows
<1> QED
  BY <1>2, <1>3 DEF ToldIn

\* Every place of a script is among TellIds.
LEMMA TellIdsReach ==
    ASSUME script \in Scripts, NEW n \in 1..Len(script.says)
    PROVE  n \in TellIds
<1>1. Len(script.says) \in Nat /\ \A t \in Scripts : Len(t.says) \in Nat
  BY MemoryAssumption
<1>2. PICK m : m = Max({Len(s.says) : s \in Scripts})
  OBVIOUS
<1>3. \E x \in {Len(s.says) : s \in Scripts} : \A y \in {Len(s.says) : s \in Scripts} : x >= y
  <2>1. PICK s \in Scripts : \A t \in Scripts : Len(t.says) <= Len(s.says)
    BY MemoryAssumption
  <2> QED
    BY <1>1, <2>1
<1>4. /\ m \in {Len(s.says) : s \in Scripts}
      /\ \A y \in {Len(s.says) : s \in Scripts} : m >= y
  BY <1>2, <1>3 DEF Max
<1>5. Len(script.says) <= m /\ m \in Int
  BY <1>1, <1>4
<1> QED
  BY <1>1, <1>2, <1>5 DEF TellIds

LEMMA TellIdsNat == TellIds \subseteq Nat
BY DEF TellIds
LEMMA ToldIs ==
    ASSUME MemoryTypes, NEW c \in Chats, NEW n, ToldIn(c, n)
    PROVE  /\ n \in TellIds /\ n \in Nat /\ n # 0 /\ n \notin Chats
           /\ toldSoFar[n] \in Values /\ toldSoFar[n] # Nothing
<1>1. script \in Scripts /\ Len(toldSoFar) <= Len(script.says) /\ n \in 1..Len(toldSoFar)
  BY DEF MemoryTypes, ToldIn
<1>2. toldSoFar[n] = script.says[n][2] /\ script.says[n][2] \in Values
  BY DEF MemoryTypes, ToldIn
<1>3. Len(toldSoFar) \in Nat /\ Len(script.says) \in Nat
  BY <1>1, MemoryAssumption DEF MemoryTypes
<1>4. n \in TellIds
  BY <1>1, <1>3, TellIdsReach
<1> QED
  BY <1>1, <1>2, <1>3, <1>4, MemoryAssumption

\* What is told next.
LEMMA SaysIs ==
    ASSUME MemoryTypes, NEW what, Says(what), UNCHANGED script
    PROVE  /\ Keeps /\ what \in Sayings /\ Len(toldSoFar') = Len(toldSoFar) + 1
           /\ toldSoFar'[Len(toldSoFar) + 1] = what[2]
           /\ toldSoFar' \in Seq(Values \cup {Nothing}) /\ Len(toldSoFar') <= Len(script.says)
           /\ \A n \in 1..Len(toldSoFar') : toldSoFar'[n] = script.says[n][2]
           /\ script.says[Len(toldSoFar) + 1] = what
<1>1. script \in Scripts /\ toldSoFar \in Seq(Values \cup {Nothing}) /\ script.says \in Seq(Sayings)
  BY MemoryAssumption DEF MemoryTypes
<1>2. /\ Len(toldSoFar) < Len(script.says) /\ what = script.says[Len(toldSoFar) + 1]
      /\ toldSoFar' = Append(toldSoFar, what[2])
  BY DEF Says
<1>3. Len(toldSoFar) \in Nat /\ Len(script.says) \in Nat
  BY <1>1
<1>4. what \in Sayings
  BY <1>1, <1>2, <1>3
<1>5. what[2] \in Values \cup {Nothing}
  BY <1>4 DEF Sayings
<1>6. Keeps
  BY <1>2 DEF Keeps, Grows
<1>7. \A n \in 1..Len(toldSoFar) : toldSoFar[n] = script.says[n][2]
  BY DEF MemoryTypes
<1>8. /\ toldSoFar' \in Seq(Values \cup {Nothing}) /\ Len(toldSoFar') = Len(toldSoFar) + 1
      /\ \A n \in 1..Len(toldSoFar) : toldSoFar'[n] = toldSoFar[n]
      /\ toldSoFar'[Len(toldSoFar) + 1] = what[2]
  BY <1>1, <1>2, <1>5
<1>9. Len(toldSoFar') <= Len(script.says)
  BY <1>2, <1>3, <1>8
<1>10. ASSUME NEW n \in 1..Len(toldSoFar')
       PROVE  toldSoFar'[n] = script.says[n][2]
  <2>1. n \in 1..Len(toldSoFar) \/ n = Len(toldSoFar) + 1
    BY <1>3, <1>8
  <2> QED
    BY <1>2, <1>7, <1>8, <2>1
<1> QED
  BY <1>2, <1>4, <1>6, <1>8, <1>9, <1>10

\* Which fields a turn and an upsert have.
LEMMA TurnFields ==
    ASSUME turnOf \in [Chats -> TurnRecords], NEW c \in Chats
    PROVE  /\ turnOf[c] \in TurnRecords /\ turnOf[c].n \in Nat /\ turnOf[c].queue \in Seq(Nat)
           /\ turnOf[c].at \in {"idle", "runs", "flushes", "goes on"}
BY DEF TurnRecords
LEMMA UpsertFields ==
    ASSUME upsert \in [Writers -> UpsertRecords], NEW w \in Writers
    PROVE  /\ upsert[w] \in UpsertRecords /\ upsert[w].n \in Nat /\ upsert[w].seen \in SUBSET Nat
           /\ upsert[w].at \in {"none", "mark", "select", "commit"} /\ upsert[w].tries \in Nat
BY DEF UpsertRecords

LEMMA TurnMade ==
    ASSUME NEW n \in Nat
    PROVE  /\ [NoTurn EXCEPT !.n = n, !.at = "runs"] \in TurnRecords
           /\ [NoTurn EXCEPT !.n = n, !.at = "runs"].n = n
           /\ [NoTurn EXCEPT !.n = n, !.at = "runs"].queue = <<>>
<1>1. PICK q : q = <<>>
  OBVIOUS
<1>2. q \in Seq(Nat)
  BY <1>1
<1>3. PICK t : t = NoTurn
  OBVIOUS
<1>4. t = [n |-> 0, at |-> "idle", queue |-> q]
  BY <1>1, <1>3 DEF NoTurn
<1>5. /\ [t EXCEPT !.n = n, !.at = "runs"] \in TurnRecords
      /\ [t EXCEPT !.n = n, !.at = "runs"].n = n
      /\ [t EXCEPT !.n = n, !.at = "runs"].queue = q
  BY <1>2, <1>4 DEF TurnRecords
<1> QED
  BY <1>1, <1>3, <1>5
LEMMA TurnNone == NoTurn \in TurnRecords /\ NoTurn.at = "idle" /\ NoTurn.queue = <<>>
<1>1. PICK q : q = <<>>
  OBVIOUS
<1>2. q \in Seq(Nat)
  BY <1>1
<1>3. NoTurn = [n |-> 0, at |-> "idle", queue |-> q]
  BY <1>1 DEF NoTurn
<1> QED
  BY <1>1, <1>2, <1>3 DEF TurnRecords
LEMMA UpsertMade ==
    /\ NoUpsert \in UpsertRecords /\ NoUpsert.at = "none"
    /\ \A n \in Nat : /\ Upserts(n) \in UpsertRecords /\ Upserts(n).at = "select" /\ Upserts(n).n = n
                      /\ [Upserts(n) EXCEPT !.at = "mark"] \in UpsertRecords
                      /\ [Upserts(n) EXCEPT !.at = "mark"].at = "mark"
                      /\ [Upserts(n) EXCEPT !.at = "mark"].n = n
<1>1. NoUpsert \in UpsertRecords /\ NoUpsert.at = "none"
  BY DEF NoUpsert, UpsertRecords
<1>2. ASSUME NEW n \in Nat
      PROVE  /\ Upserts(n) \in UpsertRecords /\ Upserts(n).at = "select" /\ Upserts(n).n = n
             /\ [Upserts(n) EXCEPT !.at = "mark"] \in UpsertRecords
             /\ [Upserts(n) EXCEPT !.at = "mark"].at = "mark"
             /\ [Upserts(n) EXCEPT !.at = "mark"].n = n
  BY DEF Upserts, NoUpsert, UpsertRecords
<1> QED
  BY <1>1, <1>2

\* An upsert that has been written: the others are as they were.
UpsertBecomes(w, r) == upsert' = [upsert EXCEPT ![w] = r]
LEMMA UpsertWritten ==
    ASSUME upsert \in [Writers -> UpsertRecords], NEW w \in Writers, NEW r \in UpsertRecords, UpsertBecomes(w, r)
    PROVE  /\ upsert' \in [Writers -> UpsertRecords] /\ upsert'[w] = r
           /\ \A x \in Writers \ {w} : upsert'[x] = upsert[x]
BY DEF UpsertBecomes

\* What conversations hold stays theirs, as long as no upsert begins under a turn.
LEMMA ChatKept ==
    ASSUME MemoryTypes, Keeps, NEW c \in Chats, ChatTrue(c),
           context'[c] = context[c], turnOf'[c] = turnOf[c],
           turnOf[c].at # "idle" => upsert'[turnOf[c].n].at = "none"
    PROVE  ChatTrue(c)'
<1>1. \A n : ToldIn(c, n) => ToldIn(c, n)'
  BY ToldKept
<1> QED
  BY <1>1 DEF ChatTrue

LEMMA UpsertKept ==
    ASSUME MemoryTypes, Keeps, NEW w \in Writers, UpsertTrue(w), upsert'[w] = upsert[w]
    PROVE  UpsertTrue(w)'
<1>1. \A c, n : ToldIn(c, n) => ToldIn(c, n)'
  BY ToldKept
<1> QED
  BY <1>1 DEF UpsertTrue

\* Two conversations have no message in common.
LEMMA ToldApart ==
    ASSUME NEW c, NEW d, NEW n, ToldIn(c, n), ToldIn(d, n)
    PROVE  c = d
BY DEF ToldIn

\* A message that is added to a conversation, or a history that is kept or summarised.
LEMMA ContextGrown ==
    ASSUME NEW s \in Seq(Nat), NEW n \in Nat
    PROVE  /\ Append(s, n) \in Seq(Nat)
           /\ \A i \in DOMAIN Append(s, n) : Append(s, n)[i] = n \/ \E j \in DOMAIN s : Append(s, n)[i] = s[j]
OBVIOUS
LEMMA QueueTaken ==
    ASSUME NEW s \in Seq(Nat), s # <<>>
    PROVE  /\ Tail(s) \in Seq(Nat) /\ Head(s) \in Nat /\ \E j \in DOMAIN s : Head(s) = s[j]
           /\ \A i \in DOMAIN Tail(s) : \E j \in DOMAIN s : Tail(s)[i] = s[j]
<1>1. Len(s) \in Nat /\ Len(s) # 0 /\ DOMAIN s = 1..Len(s)
  OBVIOUS
<1>2. Tail(s) \in Seq(Nat) /\ Len(Tail(s)) = Len(s) - 1 /\ \A i \in 1..(Len(s) - 1) : Tail(s)[i] = s[i + 1]
  BY <1>1
<1>3. Head(s) = s[1] /\ 1 \in DOMAIN s /\ s[1] \in Nat
  BY <1>1
<1> QED
  BY <1>1, <1>2, <1>3

\* How the parts of the invariant survive a step that leaves the store alone.
StoreStill == UNCHANGED <<ledger, facts, newest, faded, awry>>
LEMMA StoreKept ==
    ASSUME MemoryTypes, Keeps, StoreStill, FactsTrue
    PROVE  FactsTrue'
<1>1. /\ Len(toldSoFar) \in Nat /\ newest \in 0..Len(toldSoFar)
      /\ \A n \in 1..Len(toldSoFar) : toldSoFar'[n] = toldSoFar[n]
  BY ToldKept DEF MemoryTypes
<1>2. newest # 0 => toldSoFar'[newest] = toldSoFar[newest]
  BY <1>1
<1> QED
  BY <1>2 DEF FactsTrue, ActiveFacts, StoreStill

LEMMA StoreTyped ==
    ASSUME MemoryTypes, Keeps, StoreStill
    PROVE  facts' \in Seq(FactRecords) /\ newest' \in 0..Len(toldSoFar') /\ faded' \in BOOLEAN /\ awry' \in BOOLEAN
BY ToldKept DEF MemoryTypes, StoreStill

LEMMA LedgerKept ==
    ASSUME LedgerTrue, StoreStill,
           \A n \in TellIds : upsert[n].at \in {"select", "commit"} => upsert'[n].at \in {"select", "commit"}
    PROVE  LedgerTrue'
BY DEF LedgerTrue, StoreStill

\* A message and its turn, the first time or again.
LEMMA RunsSafe ==
    ASSUME FactsInv, Keeps, StoreStill, UNCHANGED upsert, NEW c \in Chats, NEW n \in Nat, Runs(c, n),
           ToldIn(c, n)', upsert[n].at = "none", toldSoFar' \in Seq(Values \cup {Nothing}),
           Len(toldSoFar') <= Len(script.says), \A k \in 1..Len(toldSoFar') : toldSoFar'[k] = script.says[k][2]
    PROVE  FactsInv'
<1>1. /\ MemoryTypes /\ context \in [Chats -> Seq(Nat)] /\ turnOf \in [Chats -> TurnRecords] /\ script' = script
      /\ (\A d \in Chats : ChatTrue(d)) /\ \A w \in Writers : UpsertTrue(w)
  BY DEF FactsInv, MemoryTypes, Keeps, Grows
<1>2. PICK r : r = [NoTurn EXCEPT !.n = n, !.at = "runs"]
  OBVIOUS
<1>3. r \in TurnRecords /\ r.n = n /\ r.queue = <<>>
  BY <1>2, TurnMade
<1>4. turnOf' = [turnOf EXCEPT ![c] = r] /\ context' = [context EXCEPT ![c] = Append(@, n)]
  BY <1>2 DEF Runs
<1>5. /\ turnOf' \in [Chats -> TurnRecords] /\ turnOf'[c].n = n /\ turnOf'[c].queue = <<>>
      /\ \A d \in Chats \ {c} : turnOf'[d] = turnOf[d] /\ context'[d] = context[d]
      /\ context'[c] = Append(context[c], n) /\ context[c] \in Seq(Nat)
  BY <1>1, <1>3, <1>4
<1>6. context' \in [Chats -> Seq(Nat)]
  BY <1>1, <1>4, <1>5, ContextGrown
<1>7. MemoryTypes'
  <2>1. /\ facts' \in Seq(FactRecords) /\ newest' \in 0..Len(toldSoFar') /\ faded' \in BOOLEAN /\ awry' \in BOOLEAN
        /\ script' \in Scripts /\ upsert' \in [Writers -> UpsertRecords]
    BY <1>1, StoreTyped DEF MemoryTypes
  <2> QED
    BY <1>1, <1>5, <1>6, <2>1 DEF MemoryTypes
<1>8. \A k : ToldIn(c, k) => ToldIn(c, k)'
  BY <1>1, ToldKept
<1>9. ChatTrue(c)'
  <2>1. (\A i \in DOMAIN context[c] : ToldIn(c, context[c][i]))'
    <3>1. \A i \in DOMAIN context'[c] : context'[c][i] = n \/ \E j \in DOMAIN context[c] : context'[c][i] = context[c][j]
      BY <1>5, ContextGrown
    <3>2. \A j \in DOMAIN context[c] : ToldIn(c, context[c][j])
      BY <1>1 DEF ChatTrue
    <3> QED
      BY <1>8, <3>1, <3>2
  <2>2. (\A i \in DOMAIN turnOf[c].queue : ToldIn(c, turnOf[c].queue[i]))'
    BY <1>5
  <2>3. (upsert[turnOf[c].n].at = "none" /\ ToldIn(c, turnOf[c].n))'
    BY <1>5
  <2> QED
    BY <2>1, <2>2, <2>3 DEF ChatTrue
<1>10. ASSUME NEW d \in Chats \ {c} PROVE ChatTrue(d)'
  <2>1. turnOf[d].at # "idle" => upsert'[turnOf[d].n].at = "none"
    BY <1>1 DEF ChatTrue
  <2> QED
    BY <1>1, <1>5, <2>1, ChatKept
<1>11. \A w \in Writers : UpsertTrue(w)'
  BY <1>1, UpsertKept
<1>12. FactsTrue' /\ LedgerTrue'
  BY <1>1, StoreKept, LedgerKept DEF FactsInv
<1> QED
  BY <1>7, <1>9, <1>10, <1>11, <1>12 DEF FactsInv

LEMMA BeginsSafe ==
    ASSUME FactsInv, NEW c \in Chats, NEW v \in Values, TurnBegins(c, v)
    PROVE  FactsInv'
<1>1. /\ Says(<<c, v>>) /\ Runs(c, Len(toldSoFar) + 1) /\ StoreStill /\ UNCHANGED <<script, upsert>>
  BY DEF TurnBegins, StoreStill
<1>2. MemoryTypes
  BY DEF FactsInv
<1>3. /\ Keeps /\ Len(toldSoFar') = Len(toldSoFar) + 1
      /\ toldSoFar' \in Seq(Values \cup {Nothing}) /\ Len(toldSoFar') <= Len(script.says)
      /\ \A k \in 1..Len(toldSoFar') : toldSoFar'[k] = script.says[k][2]
      /\ script.says[Len(toldSoFar) + 1] = <<c, v>>
  BY <1>1, <1>2, SaysIs
<1>4. PICK n : n = Len(toldSoFar) + 1
  OBVIOUS
<1>5. Len(toldSoFar) \in Nat /\ n \in Nat /\ n \in 1..Len(toldSoFar')
  BY <1>2, <1>3, <1>4 DEF MemoryTypes
<1>6. ToldIn(c, n)'
  <2>1. script.says[n] = <<c, v>>
    BY <1>3, <1>4
  <2>2. script.says[n][1] = c /\ script.says[n][2] = v
    BY <2>1
  <2> QED
    BY <1>1, <1>5, <2>2 DEF ToldIn
<1>7. upsert[n].at = "none"
  <2>1. n \in TellIds
    <3>1. script \in Scripts /\ Len(script.says) \in Nat
      BY <1>2, MemoryAssumption DEF MemoryTypes
    <3>2. n \in 1..Len(script.says)
      BY <3>1, <1>3, <1>5
    <3> QED
      BY <3>1, <3>2, TellIdsReach
  <2>2. n \in Writers /\ UpsertTrue(n)
    BY <2>1 DEF Writers, FactsInv
  <2>3. \A d : ~ToldIn(d, n)
    BY <1>4, <1>5 DEF ToldIn
  <2> QED
    BY <2>1, <2>2, <2>3 DEF UpsertTrue
<1> QED
  BY <1>1, <1>3, <1>4, <1>5, <1>6, <1>7, RunsSafe

LEMMA AgainSafe ==
    ASSUME FactsInv, NEW c \in Chats, NEW n \in TellIds, SentAgain(c, n)
    PROVE  FactsInv'
<1>1. /\ context[c] = <<n>> /\ upsert[n].at = "none" /\ Runs(c, n) /\ StoreStill
      /\ UNCHANGED <<script, upsert, toldSoFar>>
  BY DEF SentAgain, StoreStill
<1>2. MemoryTypes /\ ChatTrue(c) /\ Keeps
  BY <1>1 DEF FactsInv, Keeps
<1>3. ToldIn(c, n)
  <2>1. 1 \in DOMAIN context[c] /\ context[c][1] = n
    BY <1>1
  <2> QED
    BY <1>2, <2>1 DEF ChatTrue
<1>4. ToldIn(c, n)' /\ n \in Nat
  BY <1>2, <1>3, ToldKept, ToldIs
<1>5. /\ toldSoFar' \in Seq(Values \cup {Nothing})
      /\ Len(toldSoFar') <= Len(script.says) /\ \A k \in 1..Len(toldSoFar') : toldSoFar'[k] = script.says[k][2]
  BY <1>1, <1>2 DEF MemoryTypes
<1> QED
  BY <1>1, <1>2, <1>4, <1>5, RunsSafe

\* A turn of c that goes on with r, and a history that is as it was or empty.
LEMMA TurnGoes ==
    ASSUME FactsInv, UNCHANGED <<script, toldSoFar>>, NEW c \in Chats, NEW r \in TurnRecords,
           turnOf' = [turnOf EXCEPT ![c] = r],
           r.at = "idle" \/ (r.n = turnOf[c].n /\ turnOf[c].at # "idle" /\ upsert'[r.n].at = "none"),
           \A i \in DOMAIN r.queue : ToldIn(c, r.queue[i]),
           context' = context \/ context' = [context EXCEPT ![c] = <<>>],
           \A d \in Chats \ {c} : turnOf[d].at # "idle" => upsert'[turnOf[d].n].at = "none"
    PROVE  /\ turnOf' \in [Chats -> TurnRecords] /\ context' \in [Chats -> Seq(Nat)]
           /\ \A d \in Chats : ChatTrue(d)'
<1>1. /\ MemoryTypes /\ context \in [Chats -> Seq(Nat)] /\ turnOf \in [Chats -> TurnRecords] /\ Keeps
      /\ \A d \in Chats : ChatTrue(d)
  BY DEF FactsInv, MemoryTypes, Keeps
<1>2. \A d, n : ToldIn(d, n)' = ToldIn(d, n)
  BY DEF ToldIn
<1>3. /\ turnOf' \in [Chats -> TurnRecords] /\ turnOf'[c] = r /\ \A d \in Chats \ {c} : turnOf'[d] = turnOf[d]
  BY <1>1
<1>4. /\ context' \in [Chats -> Seq(Nat)] /\ \A d \in Chats \ {c} : context'[d] = context[d]
      /\ context'[c] = context[c] \/ context'[c] = <<>>
  <2>1. CASE context' = context
    BY <1>1, <2>1
  <2>2. CASE context' = [context EXCEPT ![c] = <<>>]
    <3>1. PICK e : e = <<>>
      OBVIOUS
    <3>2. e \in Seq(Nat) /\ context' = [context EXCEPT ![c] = e]
      BY <2>2, <3>1
    <3> QED
      BY <1>1, <3>1, <3>2
  <2> QED
    BY <2>1, <2>2
<1>5. ChatTrue(c)'
  <2>1. \A i \in DOMAIN context'[c] : ToldIn(c, context'[c][i])
    BY <1>1, <1>4 DEF ChatTrue
  <2>2. r.at # "idle" => ToldIn(c, r.n)
    BY <1>1 DEF ChatTrue
  <2> QED
    BY <1>2, <1>3, <2>1, <2>2 DEF ChatTrue
<1>6. ASSUME NEW d \in Chats \ {c} PROVE ChatTrue(d)'
  BY <1>1, <1>3, <1>4, ChatKept
<1> QED
  BY <1>3, <1>4, <1>5, <1>6

LEMMA CompactsSafe ==
    ASSUME FactsInv, NEW c \in Chats, Compacts(c)
    PROVE  FactsInv'
<1>1. /\ turnOf[c].at = "runs" /\ turnOf' = [turnOf EXCEPT ![c].at = "flushes", ![c].queue = context[c]]
      /\ context' = context \/ context' = [context EXCEPT ![c] = <<>>]
      /\ StoreStill /\ UNCHANGED <<script, toldSoFar, upsert>>
  BY DEF Compacts, StoreStill
<1>2. /\ MemoryTypes /\ Keeps /\ ChatTrue(c) /\ context[c] \in Seq(Nat) /\ turnOf \in [Chats -> TurnRecords]
  BY <1>1 DEF FactsInv, Keeps, MemoryTypes
<1>3. PICK r : r = [turnOf[c] EXCEPT !.at = "flushes", !.queue = context[c]]
  OBVIOUS
<1>4. r \in TurnRecords /\ r.n = turnOf[c].n /\ r.queue = context[c] /\ r.at = "flushes"
  BY <1>2, <1>3 DEF TurnRecords
<1>5. turnOf' = [turnOf EXCEPT ![c] = r]
  BY <1>1, <1>3
<1>6. \A d \in Chats : turnOf[d].at # "idle" => upsert'[turnOf[d].n].at = "none"
  BY <1>1 DEF FactsInv, ChatTrue
<1>7. /\ turnOf' \in [Chats -> TurnRecords] /\ context' \in [Chats -> Seq(Nat)]
      /\ \A d \in Chats : ChatTrue(d)'
  <2>1. r.n = turnOf[c].n /\ turnOf[c].at # "idle" /\ upsert'[r.n].at = "none"
    BY <1>1, <1>4, <1>6
  <2>2. \A i \in DOMAIN r.queue : ToldIn(c, r.queue[i])
    BY <1>2, <1>4 DEF ChatTrue
  <2> QED
    BY <1>1, <1>4, <1>5, <1>6, <2>1, <2>2, TurnGoes, ZenonT(30)
<1>8. MemoryTypes'
  BY <1>1, <1>2, <1>7, StoreTyped DEF MemoryTypes
<1>9. \A w \in Writers : UpsertTrue(w)'
  BY <1>1, <1>2, UpsertKept DEF FactsInv
<1> QED
  BY <1>1, <1>2, <1>7, <1>8, <1>9, StoreKept, LedgerKept DEF FactsInv

\* The next message a compaction upserts; or it is through.
LEMMA FlushSafe ==
    ASSUME FactsInv, NEW c \in Chats, FlushNext(c)
    PROVE  FactsInv'
<1>1. /\ turnOf[c].at = "flushes" /\ upsert[c].at = "none" /\ UNCHANGED context
      /\ StoreStill /\ UNCHANGED <<script, toldSoFar>>
  BY DEF FlushNext, StoreStill
<1>2. /\ MemoryTypes /\ Keeps /\ ChatTrue(c) /\ turnOf \in [Chats -> TurnRecords]
      /\ upsert \in [Writers -> UpsertRecords] /\ c \in Writers
  BY <1>1 DEF FactsInv, Keeps, MemoryTypes, Writers
<1>3. \A d \in Chats : turnOf[d].at # "idle" => ToldIn(d, turnOf[d].n) /\ upsert[turnOf[d].n].at = "none"
  BY DEF FactsInv, ChatTrue
<1>4. \A d \in Chats : turnOf[d].at # "idle" => turnOf[d].n \in Writers \ {c}
  BY <1>2, <1>3, ToldIs DEF Writers
<1>5. CASE turnOf[c].queue = <<>>
  <2>1. PICK r : r = [turnOf[c] EXCEPT !.at = "goes on"]
    OBVIOUS
  <2>2. r \in TurnRecords /\ r.n = turnOf[c].n /\ r.queue = turnOf[c].queue
    BY <1>2, <2>1 DEF TurnRecords
  <2>3. turnOf' = [turnOf EXCEPT ![c] = r] /\ UNCHANGED upsert
    BY <1>5, <2>1 DEF FlushNext
  <2>4. r.n = turnOf[c].n /\ turnOf[c].at # "idle" /\ upsert'[r.n].at = "none"
    BY <1>1, <1>3, <2>2, <2>3
  <2>5. \A i \in DOMAIN r.queue : ToldIn(c, r.queue[i])
    BY <1>2, <2>2 DEF ChatTrue
  <2>6. /\ turnOf' \in [Chats -> TurnRecords] /\ context' \in [Chats -> Seq(Nat)]
        /\ \A d \in Chats : ChatTrue(d)'
    BY <1>1, <1>3, <2>2, <2>3, <2>4, <2>5, TurnGoes
  <2>7. MemoryTypes'
    BY <1>1, <1>2, <2>3, <2>6, StoreTyped DEF MemoryTypes
  <2>8. \A w \in Writers : UpsertTrue(w)'
    BY <1>2, <2>3, UpsertKept DEF FactsInv
  <2> QED
    BY <1>1, <1>2, <2>3, <2>6, <2>7, <2>8, StoreKept, LedgerKept DEF FactsInv
<1>6. CASE turnOf[c].queue # <<>>
  <2>1. PICK q, h : q = Tail(turnOf[c].queue) /\ h = Head(turnOf[c].queue)
    OBVIOUS
  <2>2. /\ q \in Seq(Nat) /\ h \in Nat /\ ToldIn(c, h)
        /\ \A i \in DOMAIN q : ToldIn(c, q[i])
    <3>1. /\ q \in Seq(Nat) /\ h \in Nat /\ \E j \in DOMAIN turnOf[c].queue : h = turnOf[c].queue[j]
          /\ \A i \in DOMAIN q : \E j \in DOMAIN turnOf[c].queue : q[i] = turnOf[c].queue[j]
      BY <1>2, <1>6, <2>1, TurnFields, QueueTaken
    <3>2. \A j \in DOMAIN turnOf[c].queue : ToldIn(c, turnOf[c].queue[j])
      BY <1>2 DEF ChatTrue
    <3> QED
      BY <3>1, <3>2
  <2>3. PICK r : r = [turnOf[c] EXCEPT !.queue = q]
    OBVIOUS
  <2>4. r \in TurnRecords /\ r.n = turnOf[c].n /\ r.queue = q
    BY <1>2, <2>2, <2>3 DEF TurnRecords
  <2>5. turnOf' = [turnOf EXCEPT ![c] = r] /\ UpsertBecomes(c, Upserts(h))
    BY <1>6, <2>1, <2>3 DEF FlushNext, UpsertBecomes
  <2>6. /\ upsert' \in [Writers -> UpsertRecords] /\ upsert'[c] = Upserts(h)
        /\ \A x \in Writers \ {c} : upsert'[x] = upsert[x]
    BY <1>2, <2>2, <2>5, UpsertMade, UpsertWritten
  <2>7. \A d \in Chats : turnOf[d].at # "idle" => upsert'[turnOf[d].n].at = "none"
    BY <1>3, <1>4, <2>6
  <2>8. /\ turnOf' \in [Chats -> TurnRecords] /\ context' \in [Chats -> Seq(Nat)]
        /\ \A d \in Chats : ChatTrue(d)'
    <3>1. r.n = turnOf[c].n /\ turnOf[c].at # "idle" /\ upsert'[r.n].at = "none"
      BY <1>1, <2>4, <2>7
    <3> QED
      BY <1>1, <2>2, <2>4, <2>5, <2>7, <3>1, TurnGoes
  <2>9. MemoryTypes'
    BY <1>1, <1>2, <2>6, <2>8, StoreTyped DEF MemoryTypes
  <2>10. UpsertTrue(c)'
    <3>1. Upserts(h).n = h /\ Upserts(h).at = "select"
      BY <2>2, UpsertMade
    <3>2. ToldIn(c, h)'
      BY <1>2, <2>2, ToldKept
    <3>3. c \notin TellIds
      BY MemoryAssumption, <1>2, TellIdsNat
    <3> QED
      BY <2>6, <3>1, <3>2, <3>3 DEF UpsertTrue
  <2>11. \A w \in Writers \ {c} : UpsertTrue(w)'
    BY <1>2, <2>6, UpsertKept DEF FactsInv
  <2>12. \A n \in TellIds : upsert[n].at \in {"select", "commit"} => upsert'[n].at \in {"select", "commit"}
    BY <2>6, MemoryAssumption, TellIdsNat DEF Writers
  <2> QED
    BY <1>1, <1>2, <2>8, <2>9, <2>10, <2>11, <2>12, StoreKept, LedgerKept DEF FactsInv
<1> QED
  BY <1>5, <1>6

\* A turn that is over, whose facts are taken, if it has completed.
LEMMA EndsTold ==
    ASSUME FactsInv, NEW c \in Chats, NEW completed \in BOOLEAN, TurnEnds(c, completed)
    PROVE  FactsInv'
<1>1. PICK n : n = turnOf[c].n
  OBVIOUS
<1>2. /\ turnOf[c].at # "idle" /\ turnOf' = [turnOf EXCEPT ![c] = NoTurn] /\ UNCHANGED context
      /\ StoreStill /\ UNCHANGED <<script, toldSoFar>>
      /\ IF completed THEN UpsertBecomes(n, [Upserts(n) EXCEPT !.at = "mark"]) ELSE UNCHANGED upsert
  BY <1>1 DEF TurnEnds, StoreStill, UpsertBecomes
<1>3. /\ MemoryTypes /\ Keeps /\ turnOf \in [Chats -> TurnRecords] /\ upsert \in [Writers -> UpsertRecords]
      /\ \A d \in Chats : ChatTrue(d)
  BY <1>2 DEF FactsInv, Keeps, MemoryTypes
<1>4. /\ ToldIn(c, n) /\ upsert[n].at = "none" /\ n \in TellIds /\ n \in Nat /\ n \in Writers
  BY <1>1, <1>2, <1>3, ToldIs DEF ChatTrue, Writers
<1>5. NoTurn \in TurnRecords /\ NoTurn.at = "idle" /\ NoTurn.queue = <<>>
  BY TurnNone
<1>6. /\ upsert' \in [Writers -> UpsertRecords] /\ \A x \in Writers \ {n} : upsert'[x] = upsert[x]
      /\ upsert'[n].at = "none" \/ (upsert'[n].at = "mark" /\ upsert'[n].n = n)
  <2>1. CASE completed
    <3>1. /\ [Upserts(n) EXCEPT !.at = "mark"] \in UpsertRecords
          /\ [Upserts(n) EXCEPT !.at = "mark"].at = "mark" /\ [Upserts(n) EXCEPT !.at = "mark"].n = n
      BY <1>4, UpsertMade
    <3>2. UpsertBecomes(n, [Upserts(n) EXCEPT !.at = "mark"])
      BY <1>2, <2>1
    <3>3. PICK r : r = [Upserts(n) EXCEPT !.at = "mark"]
      OBVIOUS
    <3>4. r \in UpsertRecords /\ r.at = "mark" /\ r.n = n /\ UpsertBecomes(n, r)
      BY <3>1, <3>2, <3>3
    <3> QED
      BY <1>3, <1>4, <3>4, UpsertWritten
  <2>2. CASE ~completed
    BY <1>2, <1>3, <1>4, <2>2
  <2> QED
    BY <2>1, <2>2
<1>7. \A d \in Chats \ {c} : turnOf[d].at # "idle" => upsert'[turnOf[d].n].at = "none"
  <2> SUFFICES ASSUME NEW d \in Chats \ {c}, turnOf[d].at # "idle"
               PROVE  upsert'[turnOf[d].n].at = "none"
    OBVIOUS
  <2>1. ToldIn(d, turnOf[d].n) /\ upsert[turnOf[d].n].at = "none"
    BY <1>3 DEF ChatTrue
  <2>2. turnOf[d].n # n
    BY <1>4, <2>1, ToldApart
  <2>3. turnOf[d].n \in Writers
    BY <1>3, <2>1, ToldIs DEF Writers
  <2> QED
    BY <1>6, <2>1, <2>2, <2>3
<1>8. /\ turnOf' \in [Chats -> TurnRecords] /\ context' \in [Chats -> Seq(Nat)]
      /\ \A d \in Chats : ChatTrue(d)'
  <2>1. PICK r : r = NoTurn
    OBVIOUS
  <2>2. r \in TurnRecords /\ r.at = "idle" /\ r.queue = <<>> /\ turnOf' = [turnOf EXCEPT ![c] = r]
    BY <1>2, <1>5, <2>1
  <2>3. \A i \in DOMAIN r.queue : ToldIn(c, r.queue[i])
    BY <2>2
  <2> QED
    BY <1>2, <1>7, <2>2, <2>3, TurnGoes
<1>9. MemoryTypes'
  BY <1>2, <1>3, <1>6, <1>8, StoreTyped DEF MemoryTypes
<1>10. UpsertTrue(n)'
  <2>1. ToldIn(c, n)'
    BY <1>3, <1>4, ToldKept
  <2> QED
    BY <1>4, <1>6, <2>1 DEF UpsertTrue
<1>11. \A w \in Writers \ {n} : UpsertTrue(w)'
  BY <1>3, <1>6, UpsertKept DEF FactsInv
<1>12. \A k \in TellIds : upsert[k].at \in {"select", "commit"} => upsert'[k].at \in {"select", "commit"}
  BY <1>4, <1>6 DEF Writers
<1> QED
  BY <1>2, <1>3, <1>8, <1>9, <1>10, <1>11, <1>12, StoreKept, LedgerKept DEF FactsInv

\* A step of an upsert: what it leaves as it was, and what remains to be shown of it.
LEMMA UpsertMoves ==
    ASSUME FactsInv, NEW w \in Writers, upsert[w].at # "none", NEW r \in UpsertRecords, UpsertBecomes(w, r),
           r.at # "none" => r.n = upsert[w].n /\ r.at # "mark",
           UNCHANGED <<script, toldSoFar, context, turnOf>>,
           facts' \in Seq(FactRecords), newest' \in 0..Len(toldSoFar), faded' \in BOOLEAN /\ awry' \in BOOLEAN,
           FactsTrue', LedgerTrue'
    PROVE  FactsInv'
<1>1. /\ MemoryTypes /\ Keeps /\ upsert \in [Writers -> UpsertRecords]
      /\ (\A d \in Chats : ChatTrue(d)) /\ \A x \in Writers : UpsertTrue(x)
  BY DEF FactsInv, Keeps, MemoryTypes
<1>2. /\ upsert' \in [Writers -> UpsertRecords] /\ upsert'[w] = r
      /\ \A x \in Writers \ {w} : upsert'[x] = upsert[x]
  BY <1>1, UpsertWritten
<1>3. MemoryTypes'
  BY <1>1, <1>2 DEF MemoryTypes
<1>4. ASSUME NEW d \in Chats PROVE ChatTrue(d)'
  <2>1. ASSUME turnOf[d].at # "idle" PROVE upsert'[turnOf[d].n].at = "none"
    <3>1. ToldIn(d, turnOf[d].n) /\ upsert[turnOf[d].n].at = "none"
      BY <1>1, <2>1 DEF ChatTrue
    <3>2. turnOf[d].n \in Writers
      BY <1>1, <3>1, ToldIs DEF Writers
    <3> QED
      BY <1>2, <3>1, <3>2
  <2> QED
    BY <1>1, <2>1, ChatKept
<1>5. UpsertTrue(w)'
  <2>1. \A c, n : ToldIn(c, n) => ToldIn(c, n)'
    BY <1>1, ToldKept
  <2> QED
    BY <1>1, <1>2, <2>1 DEF UpsertTrue
<1>6. \A x \in Writers \ {w} : UpsertTrue(x)'
  BY <1>1, <1>2, UpsertKept
<1> QED
  BY <1>3, <1>4, <1>5, <1>6 DEF FactsInv

\* What stands at an upsert.
LEMMA UpsertStands ==
    ASSUME FactsInv, NEW w \in Writers, upsert[w].at # "none"
    PROVE  /\ upsert[w].n \in Nat /\ upsert[w].n # 0 /\ upsert[w].n \in 1..Len(toldSoFar)
           /\ Value(w) \in Values /\ Value(w) = toldSoFar[upsert[w].n] /\ Value(w) # Nothing
           /\ w \in TellIds => upsert[w].n = w
           /\ upsert[w].at = "mark" => w \in TellIds
           /\ upsert[w] \in UpsertRecords
<1>1. MemoryTypes /\ upsert \in [Writers -> UpsertRecords] /\ UpsertTrue(w)
  BY DEF FactsInv, MemoryTypes
<1>2. PICK c \in Chats : ToldIn(c, upsert[w].n)
  BY <1>1 DEF UpsertTrue
<1>3. upsert[w].n \in 1..Len(toldSoFar)
  BY <1>2 DEF ToldIn
<1>4. /\ upsert[w].n \in Nat /\ upsert[w].n # 0
      /\ toldSoFar[upsert[w].n] \in Values /\ toldSoFar[upsert[w].n] # Nothing
  BY <1>1, <1>2, ToldIs
<1> QED
  BY <1>1, <1>3, <1>4, UpsertFields DEF Value, UpsertTrue

LEMMA StoreSame ==
    ASSUME FactsInv, UNCHANGED <<script, toldSoFar>>, StoreStill
    PROVE  facts' \in Seq(FactRecords) /\ newest' \in 0..Len(toldSoFar) /\ faded' \in BOOLEAN /\ awry' \in BOOLEAN /\ FactsTrue'
<1>1. MemoryTypes /\ Keeps /\ FactsTrue
  BY DEF FactsInv, Keeps
<1> QED
  BY <1>1, StoreTyped, StoreKept DEF MemoryTypes, StoreStill

\* An upsert of a turn that is dropped or goes on, and the ledger.
LEMMA LedgerMoves ==
    ASSUME FactsInv, NEW w \in Writers, NEW r \in UpsertRecords, UpsertBecomes(w, r),
           ledger' = ledger, awry' \/ (~awry /\ newest' \in Nat /\ newest <= newest'),
           ~awry' /\ w \in ledger => r.at \in {"select", "commit"} \/ w \in 1..newest'
    PROVE  LedgerTrue'
<1>1. /\ upsert'[w] = r /\ \A x \in Writers \ {w} : upsert'[x] = upsert[x]
  BY UpsertWritten DEF FactsInv, MemoryTypes
<1>2. newest \in Nat
  BY DEF FactsInv, MemoryTypes
<1>3. ASSUME ~awry', NEW n \in ledger
      PROVE  n \in 1..newest' \/ (n \in TellIds /\ upsert'[n].at \in {"select", "commit"})
  <2>1. n \in 1..newest \/ (n \in TellIds /\ upsert[n].at \in {"select", "commit"})
    BY <1>3 DEF FactsInv, LedgerTrue
  <2>2. n \in 1..newest => n \in 1..newest'
    BY <1>2, <1>3
  <2>3. CASE n = w
    BY <1>1, <1>3, <2>1, <2>2, <2>3
  <2>4. CASE n # w
    BY <1>1, <2>1, <2>2, <2>4 DEF Writers
  <2> QED
    BY <2>3, <2>4
<1> QED
  BY <1>3 DEF LedgerTrue

LEMMA MarkSafe ==
    ASSUME FactsInv, NEW w \in Writers, MarkFactIngestionSeen(w)
    PROVE  FactsInv'
<1>1. /\ upsert[w].at = "mark" /\ ledger' = ledger \cup {w} /\ UNCHANGED <<script, toldSoFar, context, turnOf, facts, newest, faded, awry>>
  BY DEF MarkFactIngestionSeen, UpsertAt
<1>2. w \in TellIds /\ upsert[w] \in UpsertRecords /\ upsert \in [Writers -> UpsertRecords]
  BY <1>1, UpsertStands DEF FactsInv, MemoryTypes
<1>3. PICK r : r = IF w \in ledger THEN NoUpsert ELSE [upsert[w] EXCEPT !.at = "select"]
  OBVIOUS
<1>4. /\ r \in UpsertRecords
      /\ w \in ledger => r.at = "none"
      /\ w \notin ledger => r.at = "select" /\ r.n = upsert[w].n
  <2>1. CASE w \in ledger
    BY <1>3, <2>1, UpsertMade
  <2>2. CASE w \notin ledger
    <3>1. r = [upsert[w] EXCEPT !.at = "select"]
      BY <1>3, <2>2
    <3> QED
      BY <1>2, <2>2, <3>1 DEF UpsertRecords
  <2> QED
    BY <2>1, <2>2
<1>5. UpsertBecomes(w, r)
  BY <1>3 DEF MarkFactIngestionSeen, Dropped, UpsertBecomes
<1>6. facts' \in Seq(FactRecords) /\ newest' \in 0..Len(toldSoFar) /\ faded' \in BOOLEAN /\ awry' \in BOOLEAN /\ FactsTrue'
  BY <1>1 DEF FactsInv, MemoryTypes, FactsTrue, ActiveFacts
<1>7. LedgerTrue'
  <2>1. upsert'[w] = r /\ \A x \in Writers \ {w} : upsert'[x] = upsert[x]
    BY <1>2, <1>4, <1>5, UpsertWritten
  <2>2. ASSUME ~awry, NEW n \in ledger \cup {w}
        PROVE  n \in 1..newest \/ (n \in TellIds /\ upsert'[n].at \in {"select", "commit"})
    <3>1. n \in ledger => n \in 1..newest \/ (n \in TellIds /\ upsert[n].at \in {"select", "commit"})
      BY <2>2 DEF FactsInv, LedgerTrue
    <3>2. CASE n = w
      BY <1>1, <1>2, <1>4, <2>1, <3>1, <3>2
    <3>3. CASE n # w
      BY <2>1, <2>2, <3>1, <3>3 DEF Writers
    <3> QED
      BY <3>2, <3>3
  <2> QED
    BY <1>1, <2>2 DEF LedgerTrue
<1> QED
  BY <1>1, <1>4, <1>5, <1>6, <1>7, UpsertMoves

LEMMA SelectSafe ==
    ASSUME FactsInv, NEW w \in Writers, SelectActive(w)
    PROVE  FactsInv'
<1>1. /\ upsert[w].at = "select" /\ StoreStill /\ UNCHANGED <<script, toldSoFar, context, turnOf>>
      /\ upsert' = [upsert EXCEPT ![w].at = "commit", ![w].seen = ActiveFacts]
  BY DEF SelectActive, UpsertAt, StoreStill
<1>2. upsert[w] \in UpsertRecords
  BY <1>1, UpsertStands
<1>3. ActiveFacts \in SUBSET Nat
  <2>1. facts \in Seq(FactRecords)
    BY DEF FactsInv, MemoryTypes
  <2>2. DOMAIN facts \subseteq Nat
    BY <2>1
  <2> QED
    BY <2>2 DEF ActiveFacts
<1>4. PICK r : r = [upsert[w] EXCEPT !.at = "commit", !.seen = ActiveFacts]
  OBVIOUS
<1>5. r \in UpsertRecords /\ r.at = "commit" /\ r.n = upsert[w].n /\ UpsertBecomes(w, r)
  BY <1>1, <1>2, <1>3, <1>4 DEF UpsertRecords, UpsertBecomes
<1>6. facts' \in Seq(FactRecords) /\ newest' \in 0..Len(toldSoFar) /\ faded' \in BOOLEAN /\ awry' \in BOOLEAN /\ FactsTrue'
  BY <1>1, StoreSame
<1>7. LedgerTrue'
  <2>1. newest \in Nat
    BY DEF FactsInv, MemoryTypes
  <2> QED
    BY <1>1, <1>5, <2>1, LedgerMoves DEF StoreStill
<1> QED
  BY <1>1, <1>5, <1>6, <1>7, UpsertMoves

\* What has become of the facts when some are stale.
LEMMA StaleIs ==
    ASSUME NEW ids, facts \in Seq(FactRecords)
    PROVE  /\ Stale(ids) \in Seq(FactRecords) /\ Len(Stale(ids)) = Len(facts) /\ DOMAIN Stale(ids) = DOMAIN facts
           /\ \A i \in DOMAIN facts : /\ Stale(ids)[i].value = facts[i].value
                                      /\ Stale(ids)[i].active <=> facts[i].active /\ i \notin ids
<1>1. Len(facts) \in Nat /\ DOMAIN facts = 1..Len(facts) /\ \A i \in 1..Len(facts) : facts[i] \in FactRecords
  OBVIOUS
<1>2. ASSUME NEW i \in 1..Len(facts)
      PROVE  /\ Stale(ids)[i] \in FactRecords /\ Stale(ids)[i].value = facts[i].value
             /\ Stale(ids)[i].active <=> facts[i].active /\ i \notin ids
  <2>1. CASE i \in ids
    <3>1. Stale(ids)[i] = [facts[i] EXCEPT !.active = FALSE]
      BY <1>1, <2>1 DEF Stale
    <3> QED
      BY <1>1, <2>1, <3>1 DEF FactRecords
  <2>2. CASE i \notin ids
    BY <1>1, <2>2 DEF Stale
  <2> QED
    BY <2>1, <2>2
<1>3. PICK s : s = Stale(ids)
  OBVIOUS
<1>4. s = [i \in 1..Len(facts) |-> s[i]]
  BY <1>1, <1>3 DEF Stale
<1>5. \A i \in 1..Len(facts) : s[i] \in FactRecords
  BY <1>2, <1>3
<1>6. s \in Seq(FactRecords) /\ Len(s) = Len(facts) /\ DOMAIN s = 1..Len(facts)
  BY <1>1, <1>4, <1>5
<1> QED
  BY <1>1, <1>2, <1>3, <1>6

LEMMA KeeperSafe ==
    ASSUME FactsInv, NEW w \in Writers, CommitKeeper(w)
    PROVE  FactsInv'
<1>1. /\ upsert[w].at = "commit" /\ UpsertBecomes(w, NoUpsert)
      /\ facts' = Stale(upsert[w].seen \ Keeper(w)) /\ newest' = upsert[w].n
      /\ faded' = (Keeper(w) \cap ActiveFacts = {}) /\ awry' = (awry \/ upsert[w].n < newest \/ faded')
      /\ UNCHANGED <<script, toldSoFar, context, turnOf, ledger>>
  BY DEF CommitKeeper, UpsertAt, Dropped, UpsertBecomes
<1>2. /\ upsert[w].n \in Nat /\ upsert[w].n # 0 /\ upsert[w].n \in 1..Len(toldSoFar)
      /\ Value(w) \in Values /\ Value(w) = toldSoFar[upsert[w].n]
      /\ w \in TellIds => upsert[w].n = w
  BY <1>1, UpsertStands
<1>3. facts \in Seq(FactRecords) /\ newest \in Nat /\ faded \in BOOLEAN /\ awry \in BOOLEAN /\ FactsTrue /\ Len(toldSoFar) \in Nat
  BY DEF FactsInv, MemoryTypes
<1>4. /\ facts' \in Seq(FactRecords) /\ DOMAIN facts' = DOMAIN facts
      /\ \A i \in DOMAIN facts : /\ facts'[i].value = facts[i].value
                                 /\ facts'[i].active <=> facts[i].active /\ i \notin upsert[w].seen \ Keeper(w)
  BY <1>1, <1>3, StaleIs
<1>5. ActiveFacts' = ActiveFacts \ (upsert[w].seen \ Keeper(w))
  BY <1>4 DEF ActiveFacts
<1>6. FactsTrue'
  <2>1. (\A i, j \in ActiveFacts : i = j)'
    BY <1>3, <1>5 DEF FactsTrue
  <2>2. ASSUME ~faded'
        PROVE  /\ \A i \in ActiveFacts' : newest' # 0 /\ facts'[i].value = toldSoFar[newest']
               /\ ActiveFacts' # {}
    <3>1. PICK i : i \in Keeper(w) \cap ActiveFacts
      BY <1>1, <2>2
    <3>2. facts[i].value = Value(w) /\ i \in DOMAIN facts
      BY <3>1 DEF Keeper, ActiveFacts
    <3>3. \A j \in ActiveFacts' : j = i
      BY <1>3, <1>5, <3>1 DEF FactsTrue
    <3>4. i \in ActiveFacts'
      BY <1>5, <3>1
    <3> QED
      BY <1>1, <1>2, <1>4, <3>2, <3>3, <3>4
  <2> QED
    BY <1>1, <2>1, <2>2 DEF FactsTrue
<1>7. LedgerTrue'
  <2>1. awry' \/ (~awry /\ newest' \in Nat /\ newest <= newest')
    <3>1. awry' \/ (~awry /\ ~(upsert[w].n < newest))
      BY <1>1
    <3>2. upsert[w].n \in Nat /\ newest \in Nat /\ newest' = upsert[w].n
      BY <1>1, <1>2, <1>3
    <3>3. ~(upsert[w].n < newest) => newest <= newest'
      BY <3>2
    <3> QED
      BY <3>1, <3>2, <3>3
  <2>2. w \in ledger /\ ~awry' => w \in 1..newest'
    <3> SUFFICES ASSUME w \in ledger, ~awry' PROVE w \in 1..newest'
      OBVIOUS
    <3>1. w \in 1..newest \/ w \in TellIds
      BY <1>1 DEF FactsInv, LedgerTrue
    <3>2. newest <= newest' /\ newest' \in Nat
      BY <2>1
    <3>3. w \in 1..newest => w \in 1..newest'
      BY <1>3, <3>2
    <3>4. w \in TellIds => w \in 1..newest'
      BY <1>1, <1>2
    <3> QED
      BY <3>1, <3>3, <3>4
  <2> QED
    BY <1>1, <2>1, <2>2, UpsertMade, LedgerMoves
<1>8. newest' \in 0..Len(toldSoFar) /\ faded' \in BOOLEAN /\ awry' \in BOOLEAN
  BY <1>1, <1>2, <1>3
<1> QED
  BY <1>1, <1>4, <1>6, <1>7, <1>8, UpsertMade, UpsertMoves

\* Something told is lost, which is on record.
LEMMA LostSafe ==
    ASSUME FactsInv, NEW w \in Writers, upsert[w].at # "none", UpsertBecomes(w, NoUpsert), awry' = TRUE,
           UNCHANGED <<script, toldSoFar, context, turnOf, ledger, facts, newest, faded>>
    PROVE  FactsInv'
<1>1. facts' \in Seq(FactRecords) /\ newest' \in 0..Len(toldSoFar) /\ faded' \in BOOLEAN /\ awry' \in BOOLEAN
  BY DEF FactsInv, MemoryTypes
<1>2. FactsTrue' /\ LedgerTrue'
  BY DEF FactsInv, FactsTrue, ActiveFacts, LedgerTrue
<1> QED
  BY <1>1, <1>2, UpsertMade, UpsertMoves

LEMMA NewSafe ==
    ASSUME FactsInv, NEW w \in Writers, CommitNew(w)
    PROVE  FactsInv'
<1>0. PICK seen, fact : seen = upsert[w].seen /\ fact = [value |-> Value(w), active |-> TRUE]
  OBVIOUS
<1>1. /\ upsert[w].at = "commit" /\ UpsertBecomes(w, NoUpsert) /\ ActiveFacts \ seen = {}
      /\ facts' = Append(Stale(seen), fact) /\ newest' = upsert[w].n
      /\ faded' = FALSE /\ awry' = (awry \/ upsert[w].n < newest)
      /\ UNCHANGED <<script, toldSoFar, context, turnOf, ledger>>
  BY <1>0 DEF CommitNew, UpsertAt, Dropped, UpsertBecomes, NewestIs, Clash
<1>2. /\ upsert[w].n \in Nat /\ upsert[w].n # 0 /\ upsert[w].n \in 1..Len(toldSoFar)
      /\ Value(w) \in Values /\ Value(w) = toldSoFar[upsert[w].n]
      /\ w \in TellIds => upsert[w].n = w
  BY <1>1, UpsertStands
<1>3. facts \in Seq(FactRecords) /\ newest \in Nat /\ faded \in BOOLEAN /\ awry \in BOOLEAN /\ Len(toldSoFar) \in Nat
  BY DEF FactsInv, MemoryTypes
<1>4. /\ Stale(seen) \in Seq(FactRecords) /\ DOMAIN Stale(seen) = DOMAIN facts
      /\ \A i \in DOMAIN facts : Stale(seen)[i].active <=> facts[i].active /\ i \notin seen
  BY <1>3, StaleIs
<1>5. fact \in FactRecords /\ fact.value = Value(w) /\ fact.active
  BY <1>0, <1>2 DEF FactRecords
<1>6. PICK old : old = Stale(seen)
  OBVIOUS
<1>7. /\ facts' \in Seq(FactRecords) /\ Len(old) \in Nat /\ DOMAIN old = 1..Len(old)
      /\ DOMAIN facts' = 1..(Len(old) + 1) /\ facts'[Len(old) + 1] = fact
      /\ \A i \in 1..Len(old) : facts'[i] = old[i] /\ ~old[i].active
  <2>1. old \in Seq(FactRecords) /\ facts' = Append(old, fact)
    BY <1>1, <1>4, <1>6
  <2>2. /\ facts' \in Seq(FactRecords) /\ Len(old) \in Nat /\ DOMAIN old = 1..Len(old)
        /\ DOMAIN facts' = 1..(Len(old) + 1) /\ facts'[Len(old) + 1] = fact
        /\ \A i \in 1..Len(old) : facts'[i] = old[i]
    BY <1>5, <2>1
  <2>3. \A i \in DOMAIN old : ~old[i].active
    BY <1>1, <1>4, <1>6 DEF ActiveFacts
  <2> QED
    BY <2>2, <2>3
<1>8. ActiveFacts' = {Len(old) + 1}
  BY <1>5, <1>7 DEF ActiveFacts
<1>9. FactsTrue'
  <2>1. \A i \in ActiveFacts' : facts'[i].value = toldSoFar[newest']
    BY <1>1, <1>2, <1>5, <1>7, <1>8
  <2> QED
    BY <1>1, <1>2, <1>8, <2>1 DEF FactsTrue
<1>10. newest' \in 0..Len(toldSoFar) /\ faded' \in BOOLEAN /\ awry' \in BOOLEAN
  <2>1. newest' \in 0..Len(toldSoFar)
    BY <1>1, <1>2
  <2>2. faded' \in BOOLEAN /\ awry' \in BOOLEAN
    BY <1>1
  <2> QED
    BY <2>1, <2>2
<1>11. LedgerTrue'
  <2>1. awry' \/ (~awry /\ newest' \in Nat /\ newest <= newest')
    <3>1. awry' \/ (~awry /\ ~(upsert[w].n < newest))
      BY <1>1
    <3>2. upsert[w].n \in Nat /\ newest \in Nat /\ newest' = upsert[w].n
      BY <1>1, <1>2, <1>3
    <3>3. ~(upsert[w].n < newest) => newest <= newest'
      BY <3>2
    <3> QED
      BY <3>1, <3>2, <3>3
  <2>2. w \in ledger /\ ~awry' => w \in 1..newest'
    <3> SUFFICES ASSUME w \in ledger, ~awry' PROVE w \in 1..newest'
      OBVIOUS
    <3>1. w \in 1..newest \/ w \in TellIds
      BY <1>1 DEF FactsInv, LedgerTrue
    <3>2. newest <= newest' /\ newest' \in Nat
      BY <2>1
    <3>3. w \in 1..newest => w \in 1..newest'
      BY <1>3, <3>2
    <3>4. w \in TellIds => w \in 1..newest'
      BY <1>1, <1>2
    <3> QED
      BY <3>1, <3>3, <3>4
  <2> QED
    BY <1>1, <2>1, <2>2, UpsertMade, LedgerMoves
<1> QED
  BY <1>1, <1>7, <1>9, <1>10, <1>11, UpsertMade, UpsertMoves

LEMMA ClashSafe ==
    ASSUME FactsInv, NEW w \in Writers, CommitClashes(w)
    PROVE  FactsInv'
<1>1. /\ upsert[w].at = "commit" /\ UNCHANGED <<script, toldSoFar, context, turnOf, ledger, facts, newest, faded>>
  BY DEF CommitClashes, UpsertAt
<1>2. MemoryTypes /\ FactsTrue /\ newest \in Nat /\ upsert[w] \in UpsertRecords
  BY <1>1, UpsertStands DEF FactsInv, MemoryTypes
<1>3. CASE upsert[w].tries + 1 < FactRetries
  <2>1. upsert' = [upsert EXCEPT ![w].at = "select", ![w].tries = @ + 1] /\ StoreStill
    BY <1>1, <1>3 DEF CommitClashes, StoreStill
  <2>2. PICK k, r : k = upsert[w].tries + 1 /\ r = [upsert[w] EXCEPT !.at = "select", !.tries = k]
    OBVIOUS
  <2>3. r \in UpsertRecords /\ r.at = "select" /\ r.n = upsert[w].n
    <3>1. k \in Nat
      BY <1>2, <2>2 DEF UpsertRecords
    <3>2. r = [upsert[w] EXCEPT !.at = "select", !.tries = k]
      BY <2>2
    <3> QED
      BY <1>2, <3>1, <3>2 DEF UpsertRecords
  <2>4. UpsertBecomes(w, r)
    BY <2>1, <2>2 DEF UpsertBecomes
  <2>5. facts' \in Seq(FactRecords) /\ newest' \in 0..Len(toldSoFar) /\ faded' \in BOOLEAN /\ awry' \in BOOLEAN /\ FactsTrue'
    BY <1>1, <2>1, StoreSame
  <2>6. LedgerTrue'
    BY <1>1, <1>2, <2>1, <2>3, <2>4, LedgerMoves DEF StoreStill
  <2> QED
    BY <1>1, <2>3, <2>4, <2>5, <2>6, UpsertMoves
<1>4. CASE ~(upsert[w].tries + 1 < FactRetries)
  BY <1>1, <1>4, LostSafe DEF CommitClashes, Dropped, UpsertBecomes
<1> QED
  BY <1>3, <1>4

LEMMA ForgetSafe == FactsInv /\ ForgetFact => FactsInv'
<1> SUFFICES ASSUME FactsInv, ForgetFact PROVE FactsInv'
  OBVIOUS
<1>0. PICK what : what = <<Nothing, Nothing>>
  OBVIOUS
<1>1. /\ Says(what) /\ facts' = Stale(ActiveFacts) /\ newest' = Len(toldSoFar) + 1
      /\ faded' = FALSE /\ awry' = (awry \/ Len(toldSoFar) + 1 < newest)
      /\ UNCHANGED <<script, context, turnOf, ledger, upsert>>
  BY <1>0 DEF ForgetFact, NewestIs
<1>2. /\ MemoryTypes /\ facts \in Seq(FactRecords) /\ newest \in 0..Len(toldSoFar) /\ faded \in BOOLEAN /\ awry \in BOOLEAN
      /\ Len(toldSoFar) \in Nat
  BY DEF FactsInv, MemoryTypes
<1>3. /\ Keeps /\ Len(toldSoFar') = Len(toldSoFar) + 1
      /\ toldSoFar'[Len(toldSoFar) + 1] = what[2]
      /\ toldSoFar' \in Seq(Values \cup {Nothing}) /\ Len(toldSoFar') <= Len(script.says)
      /\ \A k \in 1..Len(toldSoFar') : toldSoFar'[k] = script.says[k][2]
  BY <1>1, <1>2, SaysIs
<1>4. /\ facts' \in Seq(FactRecords) /\ DOMAIN facts' = DOMAIN facts
      /\ \A i \in DOMAIN facts : facts'[i].active <=> facts[i].active /\ i \notin ActiveFacts
  BY <1>1, <1>2, StaleIs
<1>5. ActiveFacts' = {}
  BY <1>4 DEF ActiveFacts
<1>6. FactsTrue'
  <2>1. toldSoFar'[newest'] = Nothing
    BY <1>0, <1>1, <1>3
  <2> QED
    BY <1>5, <2>1 DEF FactsTrue
<1>7. MemoryTypes'
  <2>1. newest' \in 0..Len(toldSoFar') /\ faded' \in BOOLEAN /\ awry' \in BOOLEAN
    <3>1. newest' \in 0..Len(toldSoFar')
      BY <1>1, <1>2, <1>3
    <3>2. faded' \in BOOLEAN /\ awry' \in BOOLEAN
      BY <1>1
    <3> QED
      BY <3>1, <3>2
  <2> QED
    BY <1>1, <1>2, <1>3, <1>4, <2>1 DEF MemoryTypes
<1>8. LedgerTrue'
  <2>1. newest' \in Nat /\ newest <= newest'
    BY <1>1, <1>2
  <2>2. ASSUME ~awry', NEW n \in ledger
        PROVE  n \in 1..newest' \/ (n \in TellIds /\ upsert[n].at \in {"select", "commit"})
    <3>1. n \in 1..newest \/ (n \in TellIds /\ upsert[n].at \in {"select", "commit"})
      BY <1>1, <2>2 DEF FactsInv, LedgerTrue
    <3> QED
      BY <1>2, <2>1, <3>1
  <2> QED
    BY <1>1, <2>2 DEF LedgerTrue
<1>9. \A c \in Chats : ChatTrue(c)'
  BY <1>1, <1>2, <1>3, ChatKept DEF FactsInv, ChatTrue
<1>10. \A w \in Writers : UpsertTrue(w)'
  BY <1>1, <1>2, <1>3, UpsertKept DEF FactsInv
<1> QED
  BY <1>6, <1>7, <1>8, <1>9, <1>10 DEF FactsInv

LEMMA FactsStart == MemoryInit => FactsInv
<1> SUFFICES ASSUME NEW says \in Scripts, MemoryStart(says) PROVE FactsInv
  BY DEF MemoryInit
<1>1. PICK e : e = <<>>
  OBVIOUS
<1>2. /\ script = says /\ toldSoFar = e /\ context = [c \in Chats |-> e] /\ turnOf = [c \in Chats |-> NoTurn]
      /\ ledger = {} /\ facts = e /\ upsert = [w \in Writers |-> NoUpsert] /\ newest = 0
      /\ faded = FALSE /\ awry = FALSE
  BY <1>1 DEF MemoryStart
<1>3. /\ NoTurn \in TurnRecords /\ NoTurn.at = "idle" /\ NoTurn.queue = <<>>
      /\ NoUpsert \in UpsertRecords /\ NoUpsert.at = "none"
  BY TurnNone, UpsertMade
<1>4. /\ e \in Seq(Nat) /\ e \in Seq(FactRecords) /\ e \in Seq(Values \cup {Nothing})
      /\ Len(e) = 0 /\ DOMAIN e = {}
  BY <1>1
<1>5. Len(says.says) \in Nat
  BY MemoryAssumption
<1>6. MemoryTypes
  <2>1. /\ context \in [Chats -> Seq(Nat)] /\ turnOf \in [Chats -> TurnRecords]
        /\ upsert \in [Writers -> UpsertRecords]
    BY <1>2, <1>3, <1>4
  <2>2. /\ script \in Scripts /\ toldSoFar \in Seq(Values \cup {Nothing}) /\ Len(toldSoFar) <= Len(script.says)
        /\ facts \in Seq(FactRecords) /\ newest \in 0..Len(toldSoFar) /\ faded \in BOOLEAN /\ awry \in BOOLEAN
    <3>1. script \in Scripts /\ toldSoFar \in Seq(Values \cup {Nothing}) /\ facts \in Seq(FactRecords)
      BY <1>2, <1>4
    <3>2. Len(toldSoFar) = 0 /\ newest = 0 /\ faded \in BOOLEAN /\ awry \in BOOLEAN
      BY <1>2, <1>4
    <3>3. Len(script.says) \in Nat
      BY <1>2, <1>5
    <3> QED
      BY <3>1, <3>2, <3>3
  <2>3. \A n \in 1..Len(toldSoFar) : toldSoFar[n] = script.says[n][2]
    BY <1>2, <1>4
  <2> QED
    BY <2>1, <2>2, <2>3 DEF MemoryTypes
<1>7. FactsTrue /\ LedgerTrue
  BY <1>2, <1>4 DEF FactsTrue, LedgerTrue, ActiveFacts
<1>8. \A c \in Chats : ChatTrue(c)
  BY <1>2, <1>3, <1>4 DEF ChatTrue
<1>9. \A w \in Writers : UpsertTrue(w)
  BY <1>2, <1>3 DEF UpsertTrue
<1> QED
  BY <1>6, <1>7, <1>8, <1>9 DEF FactsInv

LEMMA FactsSame ==
    ASSUME FactsInv, UNCHANGED <<script, factVars>>
    PROVE  FactsInv'
<1>1. UNCHANGED <<script, toldSoFar, context, turnOf, ledger, facts, upsert, newest, faded, awry>>
  BY DEF factVars
<1>2. MemoryTypes' /\ FactsTrue' /\ LedgerTrue'
  BY <1>1 DEF FactsInv, MemoryTypes, FactsTrue, LedgerTrue, ActiveFacts
<1>3. MemoryTypes /\ Keeps /\ (\A c \in Chats : ChatTrue(c)) /\ \A w \in Writers : UpsertTrue(w)
  BY <1>1 DEF FactsInv, Keeps
<1>4. \A c \in Chats : ChatTrue(c)'
  BY <1>1, <1>3, ChatKept DEF ChatTrue
<1>5. \A w \in Writers : UpsertTrue(w)'
  BY <1>1, <1>3, UpsertKept
<1> QED
  BY <1>2, <1>4, <1>5 DEF FactsInv

LEMMA FactsStep == FactsInv /\ [MemoryNext]_memoryVars => FactsInv'
<1> SUFFICES ASSUME FactsInv, [MemoryNext]_memoryVars PROVE FactsInv'
  OBVIOUS
<1>1. CASE UNCHANGED memoryVars
  BY <1>1, FactsSame DEF memoryVars
<1>2. ASSUME NEW c \in Chats, ChatStep(c) PROVE FactsInv'
  BY <1>2, BeginsSafe, AgainSafe, CompactsSafe, FlushSafe, EndsTold DEF ChatStep
<1>3. ASSUME NEW w \in Writers, UpsertStep(w) PROVE FactsInv'
  <2>1. CASE UpsertFails(w)
    BY <2>1, LostSafe DEF UpsertFails, Dropped, UpsertBecomes
  <2> QED
    BY <1>3, <2>1, MarkSafe, SelectSafe, KeeperSafe, NewSafe, ClashSafe DEF UpsertStep
<1>4. CASE ForgetFact
  BY <1>4, ForgetSafe
<1>5. CASE EntryStep
  <2>1. UNCHANGED <<script, factVars>>
    BY <1>5 DEF EntryStep, DeleteEntry, SelectEntry, CommitEntry, UpdateMisses, InsertClashes, StoreFalls,
                StorerAt, factVars
  <2> QED
    BY <2>1, FactsSame
<1> QED
  BY <1>1, <1>2, <1>3, <1>4, <1>5 DEF MemoryNext

LEMMA FactsMeant == FactsInv => FactsKept
<1> SUFFICES ASSUME FactsInv PROVE FactsKept
  OBVIOUS
<1>1. MemoryTypes /\ FactsTrue /\ LedgerTrue /\ newest \in Nat
  BY DEF FactsInv, MemoryTypes
<1>2. Cardinality(ActiveFacts) <= 1
  <2>1. CASE ActiveFacts = {}
    BY <2>1, FS_EmptySet
  <2>2. CASE ActiveFacts # {}
    <3>1. PICK i : i \in ActiveFacts
      BY <2>2
    <3>2. ActiveFacts = {i}
      BY <1>1, <3>1 DEF FactsTrue
    <3> QED
      BY <3>2, FS_Singleton
  <2> QED
    BY <2>1, <2>2
<1>3. ASSUME ~faded
      PROVE  {facts[i].value : i \in ActiveFacts} = (IF newest = 0 THEN {} ELSE {toldSoFar[newest]} \ {Nothing})
  <2>1. /\ \A i \in ActiveFacts : newest # 0 /\ facts[i].value = toldSoFar[newest]
        /\ newest # 0 /\ toldSoFar[newest] # Nothing => ActiveFacts # {}
    BY <1>1, <1>3 DEF FactsTrue
  <2>2. \A i \in ActiveFacts : facts[i].value # Nothing
    <3>1. facts \in Seq(FactRecords)
      BY <1>1 DEF MemoryTypes
    <3>2. \A i \in DOMAIN facts : facts[i] \in FactRecords
      BY <3>1
    <3> QED
      BY <3>2, MemoryAssumption DEF ActiveFacts, FactRecords
  <2> QED
    BY <2>1, <2>2
<1>4. ASSUME ~awry, \A w \in Writers : upsert[w].at = "none"
      PROVE  ledger \subseteq 1..newest
  BY <1>1, <1>4 DEF LedgerTrue, Writers
<1> QED
  BY <1>2, <1>3, <1>4 DEF FactsKept

LEMMA EntriesStart == MemoryInit => EntriesInv
BY DEF MemoryInit, MemoryStart, EntriesInv

LEMMA EntriesStep == EntriesInv /\ [MemoryNext]_memoryVars => EntriesInv'
<1> SUFFICES ASSUME EntriesInv, [MemoryNext]_memoryVars PROVE EntriesInv'
  OBVIOUS
<1>1. CASE UNCHANGED entryVars
  BY <1>1 DEF entryVars, EntriesInv
<1>2. CASE DeleteEntry
  BY <1>2 DEF DeleteEntry, EntriesInv
<1>3. ASSUME NEW s \in Storers, SelectEntry(s) \/ InsertClashes(s)
      PROVE  EntriesInv'
  BY <1>3 DEF SelectEntry, InsertClashes, EntriesInv
<1>4. ASSUME NEW s \in Storers, CommitEntry(s)
      PROVE  EntriesInv'
  BY <1>4 DEF CommitEntry, StorerAt, EntriesInv
<1>5. ASSUME NEW s \in Storers, UpdateMisses(s) \/ StoreFalls(s)
      PROVE  EntriesInv'
  BY <1>5 DEF UpdateMisses, StoreFalls, StorerAt, EntriesInv
<1>6. CASE (\E c \in Chats : ChatStep(c)) \/ (\E w \in Writers : UpsertStep(w)) \/ ForgetFact
  BY <1>1, <1>6 DEF ChatStep, UpsertStep, ForgetFact, TurnBegins, SentAgain, Compacts, FlushNext, TurnEnds,
     MarkFactIngestionSeen, SelectActive, CommitKeeper, CommitNew, CommitClashes, UpsertFails
<1>7. CASE UNCHANGED memoryVars
  BY <1>1, <1>7 DEF memoryVars
<1> QED
  BY <1>2, <1>3, <1>4, <1>5, <1>6, <1>7 DEF MemoryNext, EntryStep

\* However turns, compactions, /forget and messages sent again interleave, and however often an
\* upsert clashes or fails, at most one fact is active: what reached the store last, unless that
\* kept a fact gone stale since it was read.  Where nothing was lost or came out of order that is
\* what completed turns told last; and an entry is the last stored, if no update missed its row.
THEOREM MemoryKept == MemorySpec => []Remembered
<1>1. MemoryInit => FactsInv /\ EntriesInv
  BY FactsStart, EntriesStart
<1>2. FactsInv /\ EntriesInv /\ [MemoryNext]_memoryVars => FactsInv' /\ EntriesInv'
  BY FactsStep, EntriesStep
<1>3. FactsInv /\ EntriesInv => Remembered
  BY FactsMeant DEF EntriesInv, EntriesKept, Remembered
<1> QED
  BY <1>1, <1>2, <1>3, PTL DEF MemorySpec

-----------------------------------------------------------------------------
(* MCP servers                                                             *)

MaybeConfig == Config \cup {NoClient}
Waits == {"restoring"} \cup Names

McpTypes ==
    /\ rows \in [Names -> MaybeConfig] /\ configs \in [Names -> MaybeConfig]
    /\ clients \in [Names -> Clients \cup {NoClient}] /\ tools \in [Names -> Clients \cup {NoClient}]
    /\ connected \subseteq Clients /\ mcpFailed \in BOOLEAN
    /\ mcpLock \in McpRequests \cup {NoClient}
    /\ DOMAIN mcpAt = McpRequests /\ DOMAIN read = McpRequests

\* Where a request of each kind can be.
Stages(q) ==
    {"idle", "done"} \cup
    CASE Kind[q] = "add" -> {"locking", "adding", "saving"}
      [] Kind[q] = "update" -> {"reading", "connecting", "writing", "swapping", "installing"}
      [] Kind[q] = "enable" -> {"connecting", "writing", "swapping", "installing"}
      [] Kind[q] = "disable" -> {"writing", "swapping", "installing"}
      [] Kind[q] = "remove" -> {"swapping", "installing", "deleting"}
      [] Kind[q] = "list" -> Waits

\* What a request has read.
ReadTrue(q) ==
    /\ Kind[q] = "update" /\ mcpAt[q] \in {"connecting", "writing", "swapping", "installing"} =>
           read[q] \in Config /\ (mcpAt[q] = "connecting" => read[q].enabled)
    /\ Kind[q] \in {"enable", "disable"} /\ mcpAt[q] \in {"swapping", "installing"} =>
           read[q] \in Config /\ (read[q].enabled <=> Kind[q] = "enable")
    /\ Kind[q] = "list" /\ mcpAt[q] \in Waits =>
           /\ read[q] \in [Names -> MaybeConfig]
           /\ mcpAt[q] \in Names => read[q][mcpAt[q]] \in Config /\ read[q][mcpAt[q]].enabled

Locks(q) == Kind[q] # "list" /\ mcpAt[q] \in {"adding", "installing"}

McpSane(cast) ==
    /\ McpTypes
    /\ \A q \in McpRequests :
           /\ mcpAt[q] \in Stages(q) /\ ReadTrue(q)
           /\ mcpAt[q] # "done" => q \in cast
           /\ Locks(q) <=> mcpLock = q

\* The name whose client was taken out by the request that holds the lock.
Takeout(q) == Kind[q] # "list" /\ mcpAt[q] = "installing"
Emptied(n) == \E q \in McpRequests : Takeout(q) /\ Name[q] = n

\* A request has a client in hand.
InHand(q) ==
    /\ Kind[q] \in {"update", "enable"} /\ mcpAt[q] \in {"writing", "swapping", "installing"}
    /\ Kind[q] = "enable" \/ read[q].enabled

\* A request is done with the client that it has put in place.
HandedOver(q) == Kind[q] = "list" \/ mcpAt[q] \in {"saving", "done"}

Connections ==
    \A q \in McpRequests, n \in Names \ overrun :
        Client(q, n) \in connected <=> clients[n] = Client(q, n) \/ (InHand(q) /\ n = NewName[q])

Bearers ==
    \A n \in Names : clients[n] # NoClient =>
        \E r \in McpRequests : clients[n] = Client(r, n) /\ HandedOver(r)

Matched ==
    \A n \in Names \ overrun :
        IF Emptied(n) THEN clients[n] = NoClient
        ELSE tools[n] = clients[n] /\ (clients[n] # NoClient <=> configs[n] # NoClient /\ configs[n].enabled)

\* Memory and the connections agree, but where something was put over a client.
InStep == Connections /\ Bearers /\ Matched

\* A rename that has not written its row yet; a request that may soon install what it brings.
Ahead(q) == Kind[q] = "update" /\ mcpAt[q] \in {"idle", "reading", "connecting", "writing"}
Early(q) == Kind[q] = "add" /\ mcpAt[q] \in {"idle", "locking", "adding"}
Sets(q) ==
    \/ Kind[q] = "add" /\ mcpAt[q] \in {"locking", "adding"}
    \/ Kind[q] = "update" /\ mcpAt[q] \in {"swapping", "installing"}

Vacant(cast, n) == clients[n] = NoClient /\ (NoneFrees(cast, n) => configs[n] = NoClient)

\* What a request brings finds its name free until then.
Room(cast, q) == Sets(q) \/ (Ahead(q) /\ rows[NewName[q]] = NoClient) => Vacant(cast, NewName[q])

\* A change of that name keeps it taken, and a remove has emptied it.
Occupied(cast, q) ==
    LET n == NewName[q] IN
    NoneFrees(cast, n) => \A r \in cast : Alters(r, n) /\ mcpAt[r] \notin {"idle", "done"} =>
        /\ configs[n] # NoClient
        /\ Ahead(q) /\ mcpAt[r] \in {"swapping", "installing"} => rows[n] # NoClient

Removed(cast, q) ==
    Ahead(q) => \A r \in cast :
        Kind[r] = "remove" /\ Name[r] = NewName[q] /\ mcpAt[r] = "deleting" => clients[NewName[q]] = NoClient

\* No list knows of what is only being added.
Unlisted(cast, q) ==
    Early(q) /\ Lists(cast) =>
        /\ rows[NewName[q]] = NoClient
        /\ \A r \in cast : Kind[r] = "list" /\ mcpAt[r] \in Waits => read[r][NewName[q]] = NoClient

Kept(cast) ==
    \A q \in cast : Brings(q) => Room(cast, q) /\ Occupied(cast, q) /\ Removed(cast, q) /\ Unlisted(cast, q)

\* The inductive invariant.
ServersInv(cast) ==
    /\ McpSane(cast) /\ InStep /\ mcpCast = cast
    /\ Compatible(cast) => Kept(cast) /\ overrun = {}

LEMMA ClientsDiffer ==
    /\ \A q \in McpRequests, n \in Names : Client(q, n) \in Clients /\ Client(q, n) # NoClient
    /\ \A q, r \in McpRequests, n, m \in Names : Client(q, n) = Client(r, m) => q = r /\ n = m
    /\ \A c \in Clients : \E q \in McpRequests, n \in Names : c = Client(q, n) /\ c[1] = q
BY McpAssumption DEF Client, Clients

LEMMA ClientNamed == \A q \in McpRequests, n \in Names : Client(q, n)[2] = n
BY DEF Client

\* A request moves on, which leaves the others where they are.
LEMMA Went ==
    ASSUME McpTypes, NEW q \in McpRequests, NEW x, Goes(q, x)
    PROVE  DOMAIN mcpAt' = McpRequests /\ mcpAt'[q] = x /\ \A r \in McpRequests \ {q} : mcpAt'[r] = mcpAt[r]
BY DEF McpTypes, Goes

LEMMA SaneMove ==
    ASSUME NEW cast, McpSane(cast), NEW q \in McpRequests, mcpAt[q] # "done",
           NEW x \in Stages(q), Goes(q, x) \/ (mcpAt' = mcpAt /\ mcpAt[q] = x), McpTypes', ReadTrue(q)',
           \A r \in McpRequests \ {q} : read'[r] = read[r],
           \/ mcpLock' = mcpLock /\ (Locks(q)' <=> Locks(q))
           \/ mcpLock = NoClient /\ mcpLock' = q /\ Locks(q)'
           \/ mcpLock = q /\ mcpLock' = NoClient /\ ~Locks(q)'
    PROVE  McpSane(cast)'
<1>1. mcpAt'[q] = x /\ \A r \in McpRequests \ {q} : mcpAt'[r] = mcpAt[r]
  BY Went DEF McpSane
<1>2. q \in cast
  BY DEF McpSane
<1>3. ASSUME NEW r \in McpRequests
      PROVE  /\ mcpAt'[r] \in Stages(r)' /\ ReadTrue(r)'
             /\ mcpAt'[r] # "done" => r \in cast
             /\ Locks(r)' <=> mcpLock' = r
  <2>1. CASE r = q
    <3>1. Locks(q)' <=> mcpLock' = q
      BY McpAssumption DEF McpSane
    <3> QED
      BY <1>1, <1>2, <2>1, <3>1 DEF Stages
  <2>2. CASE r # q
    <3>1. mcpAt'[r] = mcpAt[r] /\ read'[r] = read[r]
      BY <1>1, <2>2
    <3>2. /\ mcpAt[r] \in Stages(r) /\ ReadTrue(r) /\ (mcpAt[r] # "done" => r \in cast)
          /\ Locks(r) <=> mcpLock = r
      BY DEF McpSane
    <3>3. mcpLock' = r <=> mcpLock = r
      BY <2>2, McpAssumption
    <3>4. ReadTrue(r)'
      BY <3>1, <3>2 DEF ReadTrue
    <3>5. Locks(r)' <=> Locks(r)
      BY <3>1 DEF Locks
    <3> QED
      BY <3>1, <3>2, <3>3, <3>4, <3>5 DEF Stages
  <2> QED
    BY <2>1, <2>2
<1> QED
  BY <1>3 DEF McpSane

\* One entry of a table changes.
LEMMA Entry ==
    ASSUME NEW S, NEW f \in [Names -> S], NEW n \in Names, NEW v \in S
    PROVE  [f EXCEPT ![n] = v] \in [Names -> S]
OBVIOUS

\* The configuration that a request writes.
LEMMA WantedIs ==
    ASSUME McpTypes, NEW q \in McpRequests, ReadTrue(q), rows[Name[q]] # NoClient,
           At(q, {"update", "enable", "disable"}, "writing")
    PROVE  /\ Wanted(q) \in Config
           /\ Wanted(q).enabled <=> IF Kind[q] = "update" THEN read[q].enabled ELSE Kind[q] = "enable"
<1>1. CASE Kind[q] = "update"
  <2>1. read[q].enabled \in BOOLEAN
    BY <1>1 DEF At, ReadTrue, Config
  <2> QED
    BY <1>1, <2>1 DEF Wanted, Config
<1>2. CASE Kind[q] # "update"
  <2>1. rows[Name[q]] \in Config
    BY McpAssumption DEF McpTypes, MaybeConfig
  <2>2. PICK e \in BOOLEAN, b \in McpRequests \cup {NoClient} : rows[Name[q]] = [enabled |-> e, by |-> b]
    BY <2>1 DEF Config
  <2>3. PICK k \in BOOLEAN : k <=> Kind[q] = "enable"
    OBVIOUS
  <2>4. Wanted(q) = [enabled |-> k, by |-> b]
    BY <1>2, <2>2, <2>3 DEF Wanted
  <2> QED
    BY <1>2, <2>3, <2>4 DEF Config
<1> QED
  BY <1>1, <1>2

LEMMA SaneAdd ==
    ASSUME NEW cast, McpSane(cast), NEW q \in McpRequests, Add(q)
    PROVE  McpSane(cast)'
<1> USE DEF At, Ends, Goes, Stages, Locks, ReadTrue, memory
<1>0. McpTypes /\ Name[q] \in Names /\ (Locks(q) <=> mcpLock = q) /\ q \in McpRequests \cup {NoClient}
  BY McpAssumption DEF McpSane
<1>1. CASE AddLook(q)
  <2>1. McpTypes'
    BY <1>0, <1>1 DEF AddLook, McpTypes
  <2> PICK x \in {"locking", "done"} : Goes(q, x)
    BY <1>1 DEF AddLook
  <2>2. mcpAt'[q] = x
    BY <1>0, Went
  <2> QED
    BY <1>0, <1>1, <2>1, <2>2, SaneMove DEF AddLook
<1>2. CASE AddLock(q)
  <2>1. McpTypes'
    BY <1>0, <1>2 DEF AddLock, McpTypes
  <2>2. Goes(q, "adding") /\ mcpAt'[q] = "adding"
    BY <1>0, <1>2, Went DEF AddLock
  <2> QED
    BY <1>0, <1>2, <2>1, <2>2, SaneMove DEF AddLock
<1>3. CASE AddConnects(q)
  <2>1. [enabled |-> TRUE, by |-> q] \in Config
    BY DEF Config
  <2>2. Own(q) \in Clients
    BY ClientsDiffer, McpAssumption DEF Own
  <2>3. McpTypes'
    BY <1>0, <1>3, <2>1, <2>2 DEF AddConnects, McpTypes, MaybeConfig, Registered
  <2>4. Goes(q, "saving") /\ mcpAt'[q] = "saving"
    BY <1>0, <1>3, Went DEF AddConnects
  <2> QED
    BY <1>0, <1>3, <2>3, <2>4, SaneMove DEF AddConnects
<1>4. CASE AddFails(q)
  <2>1. McpTypes'
    BY <1>0, <1>4 DEF AddFails, McpTypes
  <2>2. Goes(q, "done") /\ mcpAt'[q] = "done"
    BY <1>0, <1>4, Went DEF AddFails
  <2> QED
    BY <1>0, <1>4, <2>1, <2>2, SaneMove DEF AddFails
<1>5. CASE AddSave(q)
  <2>1. [enabled |-> TRUE, by |-> q] \in Config
    BY DEF Config
  <2>2. McpTypes'
    BY <1>0, <1>5, <2>1 DEF AddSave, McpTypes, MaybeConfig
  <2>3. Goes(q, "done") /\ mcpAt'[q] = "done"
    BY <1>0, <1>5, Went DEF AddSave
  <2> QED
    BY <1>0, <1>5, <2>2, <2>3, SaneMove DEF AddSave
<1> QED
  BY <1>1, <1>2, <1>3, <1>4, <1>5 DEF Add

LEMMA SaneChange ==
    ASSUME NEW cast, McpSane(cast), NEW q \in McpRequests, Change(q)
    PROVE  McpSane(cast)'
<1> USE DEF At, Ends, Goes, Stages, Locks, memory
<1>0. /\ McpTypes /\ ReadTrue(q) /\ (Locks(q) <=> mcpLock = q) /\ q \in McpRequests \cup {NoClient}
      /\ Name[q] \in Names /\ NewName[q] \in Names /\ Own(q) \in Clients
  BY McpAssumption, ClientsDiffer DEF McpSane, Own
<1>1. CASE UpdateLook(q)
  <2>1. McpTypes'
    BY <1>0, <1>1 DEF UpdateLook, McpTypes
  <2> PICK x \in {"reading", "done"} : Goes(q, x)
    BY <1>1 DEF UpdateLook
  <2>2. mcpAt'[q] = x
    BY <1>0, Went
  <2> QED
    BY <1>0, <1>1, <2>1, <2>2, SaneMove DEF UpdateLook, ReadTrue
<1>2. CASE UpdateRead(q)
  <2>1. McpTypes'
    BY <1>0, <1>2 DEF UpdateRead, McpTypes
  <2> PICK x \in {"connecting", "writing", "done"} :
          Goes(q, x) /\ (x # "done" => rows[Name[q]] # NoClient) /\ (x = "connecting" => rows[Name[q]].enabled)
    BY <1>2 DEF UpdateRead
  <2>2. mcpAt'[q] = x
    BY <1>0, Went
  <2>3. read'[q] = rows[Name[q]] /\ \A r \in McpRequests \ {q} : read'[r] = read[r]
    BY <1>0, <1>2 DEF UpdateRead, McpTypes
  <2>4. rows[Name[q]] \in MaybeConfig
    BY <1>0 DEF McpTypes
  <2>5. ReadTrue(q)'
    BY <1>2, <2>2, <2>3, <2>4 DEF UpdateRead, ReadTrue, MaybeConfig
  <2> QED
    BY <1>0, <1>2, <2>1, <2>2, <2>3, <2>5, SaneMove DEF UpdateRead
<1>3. CASE ToggleLook(q)
  <2>1. McpTypes'
    BY <1>0, <1>3 DEF ToggleLook, McpTypes
  <2> PICK x \in {IF Kind[q] = "enable" THEN "connecting" ELSE "writing", "done"} : Goes(q, x)
    BY <1>3 DEF ToggleLook
  <2>2. mcpAt'[q] = x
    BY <1>0, Went
  <2> QED
    BY <1>0, <1>3, <2>1, <2>2, SaneMove DEF ToggleLook, ReadTrue
<1>4. CASE Reconnect(q)
  <2>1. McpTypes'
    BY <1>0, <1>4 DEF Reconnect, McpTypes
  <2> PICK x \in {"writing", "done"} : Goes(q, x)
    BY <1>4 DEF Reconnect
  <2>2. mcpAt'[q] = x
    BY <1>0, Went
  <2> QED
    BY <1>0, <1>4, <2>1, <2>2, SaneMove DEF Reconnect, ReadTrue
<1>5. CASE WriteRow(q)
  <2>1. rows[Name[q]] # NoClient
    BY <1>5 DEF WriteRow, Writable
  <2>2. Wanted(q) \in Config /\ (Wanted(q).enabled <=> IF Kind[q] = "update" THEN read[q].enabled ELSE Kind[q] = "enable")
    BY <1>0, <1>5, <2>1, WantedIs DEF WriteRow
  <2>3. McpTypes'
    BY <1>0, <1>5, <2>2 DEF WriteRow, McpTypes, MaybeConfig
  <2>4. Goes(q, "swapping") /\ mcpAt'[q] = "swapping"
    BY <1>0, <1>5, Went DEF WriteRow
  <2>5. read'[q] = Wanted(q) /\ \A r \in McpRequests \ {q} : read'[r] = read[r]
    BY <1>0, <1>5 DEF WriteRow, McpTypes
  <2>6. ReadTrue(q)'
    BY <1>5, <2>2, <2>4, <2>5 DEF WriteRow, ReadTrue
  <2> QED
    BY <1>0, <1>5, <2>3, <2>4, <2>5, <2>6, SaneMove DEF WriteRow
<1>6. CASE WriteRefused(q)
  <2>1. McpTypes'
    BY <1>0, <1>6 DEF WriteRefused, McpTypes, Closed
  <2>2. Goes(q, "done") /\ mcpAt'[q] = "done"
    BY <1>0, <1>6, Went DEF WriteRefused
  <2> QED
    BY <1>0, <1>6, <2>1, <2>2, SaneMove DEF WriteRefused, ReadTrue
<1>7. CASE TakeOut(q)
  <2>1. McpTypes'
    BY <1>0, <1>7 DEF TakeOut, McpTypes, Closed
  <2>2. Goes(q, "installing") /\ mcpAt'[q] = "installing"
    BY <1>0, <1>7, Went DEF TakeOut
  <2> QED
    BY <1>0, <1>7, <2>1, <2>2, SaneMove DEF TakeOut, ReadTrue
<1>8. CASE SwapDisabled(q) \/ SwapEnabled(q)
  <2>1. read[q] \in Config
    BY <1>0, <1>8 DEF SwapDisabled, SwapEnabled, ReadTrue
  <2>2. McpTypes'
    <3>1. CASE SwapDisabled(q)
      BY <1>0, <2>1, <3>1 DEF SwapDisabled, McpTypes, MaybeConfig, Unregistered, Closed
    <3>2. CASE SwapEnabled(q)
      BY <1>0, <2>1, <3>2 DEF SwapEnabled, McpTypes, MaybeConfig, Registered
    <3> QED
      BY <1>8, <3>1, <3>2
  <2>3. Goes(q, "done") /\ mcpAt'[q] = "done"
    BY <1>0, <1>8, Went DEF SwapDisabled, SwapEnabled
  <2> QED
    BY <1>0, <1>8, <2>2, <2>3, SaneMove DEF SwapDisabled, SwapEnabled, ReadTrue
<1> QED
  BY <1>1, <1>2, <1>3, <1>4, <1>5, <1>6, <1>7, <1>8 DEF Change

LEMMA SaneDelete ==
    ASSUME NEW cast, McpSane(cast), NEW q \in McpRequests, Delete(q)
    PROVE  McpSane(cast)'
<1> USE DEF At, Ends, Goes, Stages, Locks, memory
<1>0. McpTypes /\ Name[q] \in Names /\ (Locks(q) <=> mcpLock = q) /\ q \in McpRequests \cup {NoClient}
  BY McpAssumption DEF McpSane
<1>1. CASE RemoveLook(q)
  <2>1. McpTypes'
    BY <1>0, <1>1 DEF RemoveLook, McpTypes
  <2> PICK x \in {"swapping", "done"} : Goes(q, x)
    BY <1>1 DEF RemoveLook
  <2>2. mcpAt'[q] = x
    BY <1>0, Went
  <2> QED
    BY <1>0, <1>1, <2>1, <2>2, SaneMove DEF RemoveLook, ReadTrue
<1>2. CASE RemoveMemory(q)
  <2>1. McpTypes'
    BY <1>0, <1>2 DEF RemoveMemory, McpTypes, MaybeConfig, Unregistered
  <2>2. Goes(q, "deleting") /\ mcpAt'[q] = "deleting"
    BY <1>0, <1>2, Went DEF RemoveMemory
  <2> QED
    BY <1>0, <1>2, <2>1, <2>2, SaneMove DEF RemoveMemory, ReadTrue
<1>3. CASE RemoveRow(q)
  <2>1. McpTypes'
    BY <1>0, <1>3 DEF RemoveRow, McpTypes, MaybeConfig
  <2>2. Goes(q, "done") /\ mcpAt'[q] = "done"
    BY <1>0, <1>3, Went DEF RemoveRow
  <2> QED
    BY <1>0, <1>3, <2>1, <2>2, SaneMove DEF RemoveRow, ReadTrue
<1> QED
  BY <1>1, <1>2, <1>3 DEF Delete

\* A server is struck out of what a list has left to restore.
LEMMA StruckIs ==
    ASSUME McpTypes, NEW q \in McpRequests, Kind[q] = "list", mcpAt[q] \in Waits, ReadTrue(q),
           NEW n \in Names, Struck(q, n)
    PROVE  /\ DOMAIN read' = McpRequests
           /\ read'[q] \in [Names -> MaybeConfig]
           /\ \A m \in Names : read'[q][m] # NoClient => read'[q][m] = read[q][m]
           /\ \A r \in McpRequests \ {q} : read'[r] = read[r]
BY DEF McpTypes, ReadTrue, Struck, MaybeConfig

LEMMA SaneList ==
    ASSUME NEW cast, McpSane(cast), NEW q \in McpRequests, List(q)
    PROVE  McpSane(cast)'
<1> USE DEF At, Ends, Goes, Stages, Locks, memory
<1>0. /\ McpTypes /\ ReadTrue(q) /\ (Locks(q) <=> mcpLock = q) /\ q \in McpRequests \cup {NoClient}
      /\ Names \cap {"idle", "restoring", "done"} = {}
  BY McpAssumption DEF McpSane
<1>1. CASE RestoreRead(q)
  <2>1. McpTypes'
    BY <1>0, <1>1 DEF RestoreRead, McpTypes
  <2>2. Goes(q, "restoring") /\ mcpAt'[q] = "restoring"
    BY <1>0, <1>1, Went DEF RestoreRead
  <2>3. read'[q] = rows /\ \A r \in McpRequests \ {q} : read'[r] = read[r]
    BY <1>0, <1>1 DEF RestoreRead, McpTypes
  <2>4. ReadTrue(q)'
    BY <1>0, <1>1, <2>2, <2>3 DEF RestoreRead, ReadTrue, McpTypes
  <2> QED
    BY <1>0, <1>1, <2>1, <2>2, <2>3, <2>4, SaneMove DEF RestoreRead, Waits
<1>2. CASE RestoreEnds(q)
  <2>1. McpTypes'
    BY <1>0, <1>2 DEF RestoreEnds, McpTypes
  <2>2. Goes(q, "done") /\ mcpAt'[q] = "done"
    BY <1>0, <1>2, Went DEF RestoreEnds
  <2> QED
    BY <1>0, <1>2, <2>1, <2>2, SaneMove DEF RestoreEnds, ReadTrue, Waits
<1>3. CASE \E n \in Names : RestoreLook(q, n)
  <2> PICK n \in Names : RestoreLook(q, n)
    BY <1>3
  <2>1. /\ Kind[q] = "list" /\ mcpAt[q] = "restoring" /\ mcpAt[q] \in Waits /\ read[q][n] # NoClient
        /\ UNCHANGED <<rows, clients, tools, connected, mcpLock, mcpFailed>>
    BY DEF RestoreLook, Left, Waits
  <2>2. read[q] \in [Names -> MaybeConfig]
    BY <1>0, <2>1 DEF ReadTrue
  <2>3. read[q][n] \in Config
    BY <2>1, <2>2 DEF MaybeConfig
  <2>4. CASE configs[n] = NoClient /\ read[q][n].enabled
    <3>1. Goes(q, n) /\ UNCHANGED <<configs, read>>
      BY <2>4 DEF RestoreLook
    <3>2. McpTypes'
      BY <1>0, <2>1, <3>1 DEF McpTypes
    <3>3. mcpAt'[q] = n
      BY <1>0, <3>1, Went
    <3>4. ReadTrue(q)'
      BY <1>0, <2>1, <2>2, <2>3, <2>4, <3>1, <3>3 DEF ReadTrue
    <3> QED
      BY <1>0, <2>1, <3>1, <3>2, <3>3, <3>4, SaneMove DEF Waits
  <2>5. CASE ~(configs[n] = NoClient /\ read[q][n].enabled)
    <3>1. /\ configs' = IF configs[n] = NoClient THEN [configs EXCEPT ![n] = read[q][n]] ELSE configs
          /\ Struck(q, n) /\ mcpAt' = mcpAt
      BY <2>5 DEF RestoreLook
    <3>2. /\ DOMAIN read' = McpRequests /\ read'[q] \in [Names -> MaybeConfig]
          /\ \A r \in McpRequests \ {q} : read'[r] = read[r]
      BY <1>0, <2>1, <3>1, StruckIs
    <3>3. McpTypes'
      BY <1>0, <2>1, <2>3, <3>1, <3>2 DEF McpTypes, MaybeConfig
    <3>4. mcpAt'[q] = "restoring"
      BY <2>1, <3>1
    <3>5. ReadTrue(q)'
      BY <1>0, <2>1, <3>2, <3>4 DEF ReadTrue
    <3> QED
      BY <1>0, <2>1, <3>1, <3>2, <3>3, <3>4, <3>5, SaneMove DEF Waits
  <2> QED
    BY <2>4, <2>5
<1>4. CASE \E n \in Names : Restore(q, n) \/ RestoreFails(q, n)
  <2> PICK n \in Names : Restore(q, n) \/ RestoreFails(q, n)
    BY <1>4
  <2>1. /\ Kind[q] = "list" /\ mcpAt[q] = n /\ mcpAt[q] \in Waits /\ Struck(q, n)
        /\ Goes(q, "restoring") /\ UNCHANGED <<rows, mcpLock, mcpFailed>>
    BY DEF Restore, RestoreFails, Waits
  <2>2. read[q][n] \in Config
    BY <1>0, <2>1 DEF ReadTrue
  <2>3. /\ DOMAIN read' = McpRequests /\ read'[q] \in [Names -> MaybeConfig]
        /\ \A r \in McpRequests \ {q} : read'[r] = read[r]
    BY <1>0, <2>1, StruckIs
  <2>4. mcpAt'[q] = "restoring" /\ DOMAIN mcpAt' = McpRequests
    BY <1>0, <2>1, Went
  <2>5. McpTypes'
    <3>1. CASE UNCHANGED <<memory, connected>>
      BY <1>0, <2>1, <2>3, <2>4, <3>1 DEF McpTypes
    <3>2. CASE ~UNCHANGED <<memory, connected>>
      <4>1. /\ tools' = Registered(NoClient, n, Client(q, n))
            /\ clients' = [clients EXCEPT ![n] = Client(q, n)]
            /\ configs' = [configs EXCEPT ![n] = read[q][n]]
            /\ connected' = connected \cup {Client(q, n)}
        BY <3>2 DEF Restore, RestoreFails
      <4>2. Client(q, n) \in Clients
        BY ClientsDiffer
      <4> QED
        BY <1>0, <2>1, <2>2, <2>3, <2>4, <4>1, <4>2 DEF McpTypes, MaybeConfig, Registered
    <3> QED
      BY <3>1, <3>2
  <2>6. ReadTrue(q)'
    BY <1>0, <2>1, <2>3, <2>4 DEF ReadTrue
  <2> QED
    BY <1>0, <2>1, <2>3, <2>4, <2>5, <2>6, SaneMove DEF Waits
<1> QED
  BY <1>1, <1>2, <1>3, <1>4 DEF List

-----------------------------------------------------------------------------
(* Memory and the connections agree *)

LEMMA OthersStay ==
    ASSUME McpTypes, NEW q \in McpRequests, NEW x, Goes(q, x), \A r \in McpRequests \ {q} : read'[r] = read[r]
    PROVE  \A r \in McpRequests \ {q} :
               /\ InHand(r)' <=> InHand(r)
               /\ HandedOver(r)' <=> HandedOver(r)
               /\ Takeout(r)' <=> Takeout(r)
BY Went DEF InHand, HandedOver, Takeout

\* Only the request that holds the lock has a name emptied.
LEMMA OneTakeout ==
    ASSUME NEW cast, McpSane(cast), NEW q \in McpRequests, mcpLock \in {NoClient, q}
    PROVE  /\ \A r \in McpRequests \ {q} : ~Takeout(r)
           /\ \A n \in Names : Emptied(n) <=> Takeout(q) /\ n = Name[q]
BY McpAssumption DEF McpSane, Locks, Takeout, Emptied

LEMMA StillInStep ==
    ASSUME NEW cast, McpSane(cast), InStep, NEW q \in McpRequests, NEW x, Goes(q, x),
           \A r \in McpRequests \ {q} : read'[r] = read[r], UNCHANGED <<memory, connected, overrun>>,
           InHand(q)' <=> InHand(q), HandedOver(q) => HandedOver(q)', ~Takeout(q), ~Takeout(q)'
    PROVE  InStep'
<1>1. \A r \in McpRequests : /\ InHand(r)' <=> InHand(r)
                             /\ HandedOver(r) => HandedOver(r)'
                             /\ Takeout(r)' <=> Takeout(r)
  BY OthersStay DEF McpSane
<1>2. Connections'
  BY <1>1 DEF InStep, Connections, memory
<1>3. Bearers'
  BY <1>1 DEF InStep, Bearers, memory
<1>4. \A n \in Names : Emptied(n)' <=> Emptied(n)
  BY <1>1 DEF Emptied
<1>5. Matched'
  BY <1>4 DEF InStep, Matched, memory
<1> QED
  BY <1>2, <1>3, <1>5 DEF InStep

\* A client is put in its place.
LEMMA Installs ==
    ASSUME NEW cast, McpSane(cast), InStep, NEW q \in McpRequests, NEW x, Goes(q, x),
           \A r \in McpRequests \ {q} : read'[r] = read[r],
           \A r \in McpRequests \ {q} : ~Takeout(r), ~Takeout(q)',
           NEW n \in Names, HandedOver(q)', ~InHand(q)', InHand(q) => NewName[q] = n,
           overrun \subseteq overrun', n \in overrun' \/ clients[n] = NoClient,
           connected' = connected \cup {Client(q, n)} \/ (n \in overrun' /\ connected' = connected),
           clients' = [clients EXCEPT ![n] = Client(q, n)]
    PROVE  Connections' /\ Bearers' /\ \A m \in Names : ~Emptied(m)'
<1>1. \A r \in McpRequests \ {q} : /\ InHand(r)' <=> InHand(r)
                                   /\ HandedOver(r)' <=> HandedOver(r)
                                   /\ Takeout(r)' <=> Takeout(r)
  BY OthersStay DEF McpSane
<1>2. clients'[n] = Client(q, n) /\ \A m \in Names \ {n} : clients'[m] = clients[m]
  BY DEF McpSane, McpTypes
<1>3. Connections'
  <2> SUFFICES ASSUME NEW r \in McpRequests, NEW m \in Names \ overrun'
               PROVE  Client(r, m) \in connected' <=> clients'[m] = Client(r, m) \/ (InHand(r)' /\ m = NewName[r])
    BY DEF Connections
  <2>1. Client(r, m) \in connected <=> clients[m] = Client(r, m) \/ (InHand(r) /\ m = NewName[r])
    BY DEF InStep, Connections
  <2>2. Client(r, m) # NoClient /\ (Client(r, m) = Client(q, n) => r = q /\ m = n)
    BY ClientsDiffer
  <2>3. CASE r = q
    BY <1>2, <2>1, <2>2, <2>3
  <2>4. CASE r # q
    BY <1>1, <1>2, <2>1, <2>2, <2>4
  <2> QED
    BY <2>3, <2>4
<1>4. Bearers'
  <2> SUFFICES ASSUME NEW m \in Names, clients'[m] # NoClient
               PROVE  \E r \in McpRequests : clients'[m] = Client(r, m) /\ HandedOver(r)'
    BY DEF Bearers
  <2>1. CASE m = n
    BY <1>2, <2>1
  <2>2. CASE m # n
    BY <1>1, <1>2, <2>2 DEF InStep, Bearers
  <2> QED
    BY <2>1, <2>2
<1>5. \A m \in Names : ~Emptied(m)'
  BY <1>1 DEF Emptied
<1> QED
  BY <1>3, <1>4, <1>5

\* A client is taken out and closed.
LEMMA Empties ==
    ASSUME NEW cast, McpSane(cast), InStep, NEW q \in McpRequests, NEW x, Goes(q, x), UNCHANGED read,
           InHand(q)' <=> InHand(q), ~HandedOver(q),
           overrun \subseteq overrun',
           NEW n \in Names, connected' = Closed(clients[n]), clients' = [clients EXCEPT ![n] = NoClient]
    PROVE  Connections' /\ Bearers'
<1>1. \A r \in McpRequests : /\ InHand(r)' <=> InHand(r)
                             /\ HandedOver(r) => HandedOver(r)'
  BY OthersStay DEF McpSane
<1>2. clients'[n] = NoClient /\ \A m \in Names \ {n} : clients'[m] = clients[m]
  BY DEF McpSane, McpTypes
<1>3. \A r \in McpRequests : clients[n] = Client(r, n) => ~InHand(r)
  <2> SUFFICES ASSUME NEW r \in McpRequests, clients[n] = Client(r, n) PROVE ~InHand(r)
    OBVIOUS
  <2>1. clients[n] # NoClient
    BY ClientsDiffer
  <2>2. HandedOver(r)
    BY <2>1, ClientsDiffer DEF InStep, Bearers
  <2> QED
    BY <2>2 DEF HandedOver, InHand
<1>4. Connections'
  <2> SUFFICES ASSUME NEW r \in McpRequests, NEW m \in Names \ overrun'
               PROVE  Client(r, m) \in connected' <=> clients'[m] = Client(r, m) \/ (InHand(r)' /\ m = NewName[r])
    BY DEF Connections
  <2>1. Client(r, m) \in connected <=> clients[m] = Client(r, m) \/ (InHand(r) /\ m = NewName[r])
    BY DEF InStep, Connections
  <2>2. Client(r, m) # NoClient
    BY ClientsDiffer
  <2>3. CASE m = n
    BY <1>1, <1>2, <1>3, <2>1, <2>2, <2>3 DEF Closed
  <2>4. CASE m # n
    <3>1. Client(r, m) # clients[n]
      BY <2>4, ClientsDiffer DEF InStep, Bearers
    <3> QED
      BY <1>1, <1>2, <2>1, <2>4, <3>1 DEF Closed
  <2> QED
    BY <2>3, <2>4
<1>5. Bearers'
  BY <1>1, <1>2 DEF InStep, Bearers
<1> QED
  BY <1>4, <1>5

LEMMA RegisteredIs ==
    ASSUME McpTypes, NEW d \in Names \cup {NoClient}, NEW n \in Names, NEW c
    PROVE  /\ n = d \/ tools[n] = NoClient => Registered(d, n, c)[n] = c
           /\ \A m \in Names \ {n} : Registered(d, n, c)[m] = IF m = d THEN NoClient ELSE tools[m]
BY DEF McpTypes, Registered

LEMMA InStepAdd ==
    ASSUME NEW cast, ServersInv(cast), NEW q \in McpRequests, Add(q)
    PROVE  InStep'
<1> USE DEF At, Ends
<1>0. /\ McpSane(cast) /\ McpTypes /\ InStep /\ Name[q] \in Names /\ q \in cast
      /\ Kind[q] = "add" /\ NewName[q] = Name[q] /\ (Locks(q) <=> mcpLock = q)
  BY McpAssumption DEF ServersInv, McpSane, Add, AddLook, AddLock, AddConnects, AddFails, AddSave
<1>1. ~Takeout(q) /\ ~InHand(q)
  BY <1>0 DEF Takeout, InHand, ServersInv, McpSane, Stages
<1>2. CASE ~AddConnects(q)
  <2> PICK x \in {"locking", "adding", "done"} :
          /\ Goes(q, x) /\ UNCHANGED <<memory, connected, read, overrun>>
          /\ mcpAt[q] \in {"saving", "done"} => x = "done"
    BY <1>2 DEF Add, AddLook, AddLock, AddFails, AddSave, Goes
  <2>1. mcpAt'[q] = x
    BY <1>0, Went
  <2> QED
    BY <1>0, <1>1, <2>1, StillInStep DEF Takeout, InHand, HandedOver
<1>3. CASE AddConnects(q)
  <2> DEFINE n == Name[q]
             c == Client(q, n)
  <2>1. mcpLock = q /\ Goes(q, "saving") /\ mcpAt'[q] = "saving"
    BY <1>0, <1>3, Went DEF AddConnects, Locks
  <2>2. (\A r \in McpRequests \ {q} : ~Takeout(r)) /\ ~Emptied(n)
    BY <1>0, <1>1, <2>1, OneTakeout
  <2>3. overrun \subseteq overrun' /\ (n \in overrun' \/ clients[n] = NoClient)
    BY <1>3 DEF AddConnects, PutOver
  <2>4. n \in overrun' \/ (clients[n] = NoClient /\ tools[n] = NoClient)
    BY <1>0, <2>2, <2>3 DEF InStep, Matched
  <2>5. /\ connected' = connected \cup {c} /\ clients' = [clients EXCEPT ![n] = c] /\ UNCHANGED read
        /\ configs' = [configs EXCEPT ![n] = [enabled |-> TRUE, by |-> q]]
        /\ tools' = Registered(NoClient, n, c)
    BY <1>0, <1>3 DEF AddConnects, Own
  <2>6. ~Takeout(q)' /\ HandedOver(q)' /\ ~InHand(q)'
    BY <1>0, <2>1 DEF Takeout, HandedOver, InHand
  <2>7. Connections' /\ Bearers' /\ \A m \in Names : ~Emptied(m)'
    BY <1>0, <1>1, <2>1, <2>2, <2>3, <2>5, <2>6, Installs
  <2>8. (n \in overrun' \/ tools'[n] = c) /\ \A m \in Names \ {n} : tools'[m] = tools[m]
    BY <1>0, <2>4, <2>5, McpAssumption, RegisteredIs
  <2>9. ASSUME NEW m \in Names \ overrun'
        PROVE  tools'[m] = clients'[m] /\ (clients'[m] # NoClient <=> configs'[m] # NoClient /\ configs'[m].enabled)
    <3>1. CASE m = n
      <4>1. configs'[n] = [enabled |-> TRUE, by |-> q] /\ clients'[n] = c /\ tools'[n] = c /\ c # NoClient
        BY <1>0, <2>5, <2>8, <3>1, ClientsDiffer DEF McpTypes
      <4>2. [enabled |-> TRUE, by |-> q] \in Config
        BY DEF Config
      <4>3. configs'[n] # NoClient
        BY <4>1, <4>2, McpAssumption
      <4>4. configs'[n].enabled
        BY <4>1
      <4> QED
        BY <3>1, <4>1, <4>3, <4>4
    <3>2. CASE m # n
      <4>1. ~Emptied(m)
        BY <1>0, <1>1, <2>1, OneTakeout
      <4>2. configs'[m] = configs[m] /\ clients'[m] = clients[m] /\ tools'[m] = tools[m]
        BY <1>0, <2>5, <2>8, <3>2 DEF McpTypes
      <4> QED
        BY <1>0, <2>3, <4>1, <4>2 DEF InStep, Matched
    <3> QED
      BY <3>1, <3>2
  <2> QED
    BY <2>7, <2>9 DEF InStep, Matched
<1> QED
  BY <1>2, <1>3

LEMMA InStepQuiet ==
    ASSUME NEW cast, ServersInv(cast), NEW q \in McpRequests,
           \/ UpdateLook(q) \/ UpdateRead(q) \/ ToggleLook(q) \/ WriteRow(q)
           \/ RemoveLook(q) \/ RemoveRow(q) \/ RestoreRead(q) \/ RestoreEnds(q)
           \/ \E n \in Names : RestoreFails(q, n)
    PROVE  InStep'
<1> USE DEF At, Ends
<1>0. McpSane(cast) /\ McpTypes /\ InStep /\ ReadTrue(q) /\ mcpAt[q] \in Stages(q)
  BY DEF ServersInv, McpSane
<1>1. CASE WriteRow(q)
  <2>1. Goes(q, "swapping") /\ mcpAt'[q] = "swapping"
    BY <1>0, <1>1, Went DEF WriteRow
  <2>2. read'[q].enabled <=> IF Kind[q] = "update" THEN read[q].enabled ELSE Kind[q] = "enable"
    <3>1. read'[q] = Wanted(q)
      BY <1>0, <1>1 DEF WriteRow, McpTypes
    <3> QED
      BY <1>0, <1>1, <3>1, WantedIs DEF WriteRow, Writable
  <2>3. \A r \in McpRequests \ {q} : read'[r] = read[r]
    BY <1>0, <1>1 DEF WriteRow, McpTypes
  <2>4. InHand(q)' <=> InHand(q)
    BY <1>1, <2>1, <2>2 DEF InHand, WriteRow
  <2>5. ~HandedOver(q) /\ ~Takeout(q) /\ ~Takeout(q)' /\ UNCHANGED <<memory, connected, overrun>>
    BY <1>1, <2>1 DEF Takeout, HandedOver, WriteRow
  <2> QED
    BY <1>0, <2>1, <2>3, <2>4, <2>5, StillInStep
<1>2. CASE UpdateRead(q)
  <2> PICK x \in {"connecting", "writing", "done"} :
          Goes(q, x) /\ (x = "writing" => rows[Name[q]] # NoClient /\ ~rows[Name[q]].enabled)
    BY <1>0, <1>2 DEF UpdateRead, Goes
  <2>1. mcpAt'[q] = x
    BY <1>0, Went
  <2>2. read'[q] = rows[Name[q]] /\ \A r \in McpRequests \ {q} : read'[r] = read[r]
    BY <1>0, <1>2 DEF UpdateRead, McpTypes
  <2>3. ~InHand(q) /\ ~InHand(q)'
    BY <1>2, <2>1, <2>2 DEF InHand, UpdateRead
  <2>4. ~HandedOver(q) /\ ~Takeout(q) /\ ~Takeout(q)' /\ UNCHANGED <<memory, connected, overrun>>
    BY <1>2, <2>1 DEF Takeout, HandedOver, UpdateRead
  <2> QED
    BY <1>0, <2>1, <2>2, <2>3, <2>4, StillInStep
<1>3. CASE UpdateLook(q) \/ ToggleLook(q) \/ RemoveLook(q) \/ RemoveRow(q)
  <2> PICK x \in {"reading", "connecting", "writing", "swapping", "done"} :
          Goes(q, x) /\ (x = "writing" => Kind[q] = "disable") /\ UNCHANGED <<memory, connected, read, overrun>>
          /\ (Kind[q] \in {"update", "enable"} => mcpAt[q] = "idle" /\ x # "swapping")
          /\ Kind[q] # "list" /\ mcpAt[q] \in {"idle", "deleting"}
    BY <1>3 DEF UpdateLook, ToggleLook, RemoveLook, RemoveRow, Goes
  <2>1. mcpAt'[q] = x
    BY <1>0, Went
  <2>2. ~InHand(q) /\ ~InHand(q)'
    BY <2>1 DEF InHand
  <2> QED
    BY <1>0, <2>1, <2>2, StillInStep DEF HandedOver, Takeout
<1>4. CASE RestoreRead(q) \/ RestoreEnds(q) \/ \E n \in Names : RestoreFails(q, n)
  <2> PICK x \in {"restoring", "done"} : Goes(q, x)
    BY <1>4 DEF RestoreRead, RestoreEnds, RestoreFails, Goes
  <2>1. Kind[q] = "list" /\ UNCHANGED <<memory, connected, overrun>>
    BY <1>4 DEF RestoreRead, RestoreEnds, RestoreFails
  <2>2. \A r \in McpRequests \ {q} : read'[r] = read[r]
    BY <1>0, <1>4 DEF RestoreRead, RestoreEnds, RestoreFails, Struck, McpTypes
  <2> QED
    BY <1>0, <2>1, <2>2, StillInStep DEF HandedOver, Takeout, InHand
<1> QED
  BY <1>1, <1>2, <1>3, <1>4

LEMMA InStepConnect ==
    ASSUME NEW cast, ServersInv(cast), NEW q \in McpRequests, Reconnect(q) \/ WriteRefused(q)
    PROVE  InStep'
<1> USE DEF At, Ends
<1> DEFINE c == Client(q, NewName[q])
<1>0. /\ McpSane(cast) /\ McpTypes /\ InStep /\ ReadTrue(q) /\ NewName[q] \in Names
      /\ Kind[q] # "list" /\ UNCHANGED <<memory, read, overrun>> /\ mcpAt[q] \in {"connecting", "writing"}
  BY McpAssumption DEF ServersInv, McpSane, Reconnect, WriteRefused
<1> PICK x \in {"writing", "done"} : Goes(q, x)
  BY DEF Reconnect, WriteRefused, Goes
<1>1. mcpAt'[q] = x
  BY <1>0, Went
<1>2. \A r \in McpRequests \ {q} : /\ InHand(r)' <=> InHand(r)
                                   /\ HandedOver(r)' <=> HandedOver(r)
                                   /\ Takeout(r)' <=> Takeout(r)
  BY <1>0, OthersStay
<1>3. ~HandedOver(q) /\ ~Takeout(q) /\ ~Takeout(q)'
  BY <1>0, <1>1 DEF HandedOver, Takeout
<1>4. \A m \in Names : clients[m] # Client(q, m)
  BY <1>0, <1>3, ClientsDiffer DEF InStep, Bearers
<1>5. \A m \in Names \ overrun : Client(q, m) \in connected' <=> InHand(q)' /\ m = NewName[q]
  <2>1. \A m \in Names \ overrun : Client(q, m) \in connected <=> InHand(q) /\ m = NewName[q]
    BY <1>0, <1>4 DEF InStep, Connections
  <2>2. CASE WriteRefused(q)
    <3>1. connected' = connected \ {c} /\ mcpAt'[q] = "done"
      BY <1>0, <2>2, Went DEF WriteRefused, Own, Closed
    <3>2. ~InHand(q)'
      BY <3>1 DEF InHand
    <3> QED
      BY <1>0, <2>1, <3>1, <3>2, ClientsDiffer
  <2>3. CASE Reconnect(q)
    <3>1. ~InHand(q)
      BY <2>3 DEF Reconnect, InHand
    <3>2. CASE connected' = connected \cup {Own(q)} /\ Goes(q, "writing")
      <4>1. mcpAt'[q] = "writing"
        BY <1>0, <3>2, Went
      <4>2. InHand(q)'
        BY <1>0, <2>3, <4>1 DEF InHand, Reconnect, ReadTrue
      <4> QED
        BY <1>0, <2>1, <3>1, <3>2, <4>2, ClientsDiffer DEF Own
    <3>3. CASE Goes(q, "done") /\ UNCHANGED connected
      <4>1. mcpAt'[q] = "done"
        BY <1>0, <3>3, Went
      <4> QED
        BY <2>1, <3>1, <3>3, <4>1 DEF InHand
    <3> QED
      BY <2>3, <3>2, <3>3 DEF Reconnect, Goes
  <2> QED
    BY <2>2, <2>3
<1>6. \A r \in McpRequests \ {q}, m \in Names : Client(r, m) \in connected' <=> Client(r, m) \in connected
  BY <1>0, ClientsDiffer DEF Reconnect, WriteRefused, Own, Closed
<1>7. Connections'
  <2> SUFFICES ASSUME NEW r \in McpRequests, NEW m \in Names \ overrun
               PROVE  Client(r, m) \in connected' <=> clients'[m] = Client(r, m) \/ (InHand(r)' /\ m = NewName[r])
    BY <1>0 DEF Connections
  <2>1. CASE r = q
    BY <1>0, <1>4, <1>5, <2>1 DEF memory
  <2>2. CASE r # q
    BY <1>0, <1>2, <1>6, <2>2 DEF memory, InStep, Connections
  <2> QED
    BY <2>1, <2>2
<1>8. Bearers'
  BY <1>0, <1>2, <1>3 DEF memory, InStep, Bearers
<1>9. Matched'
  <2>1. \A m \in Names : Emptied(m)' <=> Emptied(m)
    BY <1>2, <1>3 DEF Emptied
  <2> QED
    BY <1>0, <2>1 DEF memory, InStep, Matched
<1> QED
  BY <1>7, <1>8, <1>9 DEF InStep

LEMMA InStepTakeOut ==
    ASSUME NEW cast, ServersInv(cast), NEW q \in McpRequests, TakeOut(q)
    PROVE  InStep'
<1> USE DEF At, Ends
<1> DEFINE n == Name[q]
<1>0. /\ McpSane(cast) /\ McpTypes /\ InStep /\ n \in Names /\ Kind[q] # "list" /\ mcpAt[q] = "swapping"
      /\ Goes(q, "installing") /\ mcpLock = NoClient /\ UNCHANGED <<configs, tools, read, overrun>>
      /\ connected' = Closed(clients[n]) /\ clients' = [clients EXCEPT ![n] = NoClient]
  BY McpAssumption DEF ServersInv, McpSane, TakeOut
<1>1. mcpAt'[q] = "installing"
  BY <1>0, Went
<1>2. ~HandedOver(q) /\ ~Takeout(q) /\ Takeout(q)' /\ (InHand(q)' <=> InHand(q))
  BY <1>0, <1>1 DEF HandedOver, Takeout, InHand
<1>3. Connections' /\ Bearers'
  BY <1>0, <1>2, Empties
<1>4. \A m \in Names : ~Emptied(m) /\ (Emptied(m)' <=> m = n)
  <2>1. \A m \in Names : ~Emptied(m)
    BY <1>0, <1>2, OneTakeout
  <2>2. \A r \in McpRequests \ {q} : ~Takeout(r)'
    BY <1>0, OneTakeout, OthersStay
  <2> QED
    BY <1>2, <2>1, <2>2 DEF Emptied
<1>5. clients'[n] = NoClient /\ \A m \in Names \ {n} : clients'[m] = clients[m]
  BY <1>0 DEF McpTypes
<1>6. Matched'
  BY <1>0, <1>4, <1>5 DEF InStep, Matched
<1> QED
  BY <1>3, <1>6 DEF InStep

LEMMA InStepRemoved ==
    ASSUME NEW cast, ServersInv(cast), NEW q \in McpRequests, RemoveMemory(q)
    PROVE  InStep'
<1> USE DEF At, Ends
<1> DEFINE n == Name[q]
<1>0. /\ McpSane(cast) /\ McpTypes /\ InStep /\ n \in Names /\ Kind[q] = "remove" /\ mcpAt[q] = "installing"
      /\ Goes(q, "deleting") /\ UNCHANGED <<clients, connected, read, overrun>>
      /\ configs' = [configs EXCEPT ![n] = NoClient] /\ tools' = [tools EXCEPT ![n] = NoClient]
      /\ Locks(q) <=> mcpLock = q
  BY McpAssumption DEF ServersInv, McpSane, RemoveMemory, Unregistered
<1>1. mcpAt'[q] = "deleting" /\ mcpLock = q
  BY <1>0, Went DEF Locks
<1>2. ~HandedOver(q) /\ Takeout(q) /\ ~Takeout(q)' /\ ~InHand(q) /\ ~InHand(q)'
  BY <1>0, <1>1 DEF HandedOver, Takeout, InHand
<1>3. \A r \in McpRequests \ {q} : /\ InHand(r)' <=> InHand(r)
                                   /\ HandedOver(r)' <=> HandedOver(r)
                                   /\ Takeout(r)' <=> Takeout(r)
  BY <1>0, OthersStay
<1>4. Connections'
  BY <1>0, <1>2, <1>3 DEF InStep, Connections
<1>5. Bearers'
  BY <1>0, <1>2, <1>3 DEF InStep, Bearers
<1>6. \A m \in Names : (Emptied(m) <=> m = n) /\ ~Emptied(m)'
  <2>1. \A r \in McpRequests \ {q} : ~Takeout(r)
    BY <1>0, <1>1, OneTakeout
  <2> QED
    BY <1>2, <1>3, <2>1 DEF Emptied
<1>7. /\ configs'[n] = NoClient /\ tools'[n] = NoClient
      /\ \A m \in Names \ {n} : configs'[m] = configs[m] /\ tools'[m] = tools[m]
  BY <1>0 DEF McpTypes
<1>8. Matched'
  BY <1>0, <1>6, <1>7 DEF InStep, Matched
<1> QED
  BY <1>4, <1>5, <1>8 DEF InStep

\* What a request finds when it installs: the lock is its own, and its old name is empty.
LEMMA Installing ==
    ASSUME NEW cast, ServersInv(cast), NEW q \in McpRequests,
           Kind[q] \in {"update", "enable", "disable"}, mcpAt[q] = "installing"
    PROVE  /\ mcpLock = q /\ read[q] \in Config /\ read[q] # NoClient
           /\ \A r \in McpRequests \ {q} : ~Takeout(r)
           /\ \A n \in Names : Emptied(n) <=> n = Name[q]
           /\ Name[q] \notin overrun => clients[Name[q]] = NoClient
           /\ NewName[q] \notin overrun /\ NewName[q] # Name[q] /\ clients[NewName[q]] = NoClient =>
                  tools[NewName[q]] = NoClient
<1>1. McpSane(cast) /\ InStep /\ q \in cast /\ Name[q] \in Names /\ NewName[q] \in Names
  BY McpAssumption DEF ServersInv, McpSane
<1>2. mcpLock = q
  BY <1>1 DEF McpSane, Locks
<1>3. read[q] \in Config /\ read[q] # NoClient
  BY <1>1, McpAssumption DEF McpSane, ReadTrue
<1>4. (\A r \in McpRequests \ {q} : ~Takeout(r)) /\ \A n \in Names : Emptied(n) <=> n = Name[q]
  BY <1>1, <1>2, OneTakeout DEF Takeout
<1>5. Name[q] \notin overrun => clients[Name[q]] = NoClient
  BY <1>1, <1>4 DEF InStep, Matched
<1>6. NewName[q] \notin overrun /\ NewName[q] # Name[q] /\ clients[NewName[q]] = NoClient =>
          tools[NewName[q]] = NoClient
  BY <1>1, <1>4 DEF InStep, Matched
<1> QED
  BY <1>2, <1>3, <1>4, <1>5, <1>6

LEMMA InStepSwap ==
    ASSUME NEW cast, ServersInv(cast), NEW q \in McpRequests, SwapDisabled(q) \/ SwapEnabled(q)
    PROVE  InStep'
<1> USE DEF At, Ends
<1> DEFINE n == Name[q]
           m == NewName[q]
           c == Client(q, m)
<1>0. /\ McpSane(cast) /\ McpTypes /\ InStep /\ n \in Names /\ m \in Names
      /\ Kind[q] \in {"update", "enable", "disable"} /\ mcpAt[q] = "installing"
      /\ Goes(q, "done") /\ UNCHANGED read
      /\ configs' = [configs EXCEPT ![n] = NoClient, ![m] = read[q]]
      /\ overrun \subseteq overrun' /\ (m \in overrun' \/ clients[m] = NoClient)
  BY McpAssumption DEF ServersInv, McpSane, SwapDisabled, SwapEnabled, Goes, PutOver
<1>1. mcpAt'[q] = "done"
  BY <1>0, Went
<1>2. /\ mcpLock = q /\ read[q] \in Config /\ read[q] # NoClient
      /\ \A r \in McpRequests \ {q} : ~Takeout(r)
      /\ \A k \in Names : Emptied(k) <=> k = n
      /\ n \notin overrun' => clients[n] = NoClient
      /\ m \notin overrun' => clients[m] = NoClient /\ (m # n => tools[m] = NoClient)
  BY <1>0, Installing
<1>3. /\ m # n => configs'[n] = NoClient
      /\ configs'[m] = read[q]
      /\ \A k \in Names \ {n, m} : configs'[k] = configs[k]
  BY <1>0 DEF McpTypes
<1>4. \A k \in Names \ ({n, m} \cup overrun') :
          tools[k] = clients[k] /\ (clients[k] # NoClient <=> configs[k] # NoClient /\ configs[k].enabled)
  BY <1>0, <1>2 DEF InStep, Matched
<1>5. CASE SwapDisabled(q)
  <2>1. /\ clients' = [clients EXCEPT ![m] = NoClient] /\ connected' = Closed(clients[m])
        /\ tools' = [tools EXCEPT ![n] = NoClient] /\ ~read[q].enabled
    BY <1>5 DEF SwapDisabled, Unregistered
  <2>2. clients'[m] = NoClient /\ \A k \in Names \ {m} : clients'[k] = clients[k]
    BY <1>0, <2>1 DEF McpTypes
  <2>3. ~InHand(q) /\ ~InHand(q)' /\ ~HandedOver(q) /\ ~Takeout(q)'
    BY <1>0, <1>1, <1>5, <2>1 DEF InHand, HandedOver, Takeout, SwapDisabled
  <2>4. Connections' /\ Bearers'
    BY <1>0, <2>1, <2>3, Empties
  <2>5. tools'[n] = NoClient /\ \A k \in Names \ {n} : tools'[k] = tools[k]
    BY <1>0, <2>1 DEF McpTypes
  <2>6. \A k \in Names : ~Emptied(k)'
    BY <1>0, <1>2, <2>3, OthersStay DEF Emptied
  <2>7. Matched'
    <3> SUFFICES ASSUME NEW k \in Names \ overrun'
                 PROVE  tools'[k] = clients'[k] /\ (clients'[k] # NoClient <=> configs'[k] # NoClient /\ configs'[k].enabled)
      BY <2>6 DEF Matched
    <3>1. CASE k = m
      BY <1>2, <1>3, <2>1, <2>2, <2>5, <3>1
    <3>2. CASE k = n /\ k # m
      BY <1>2, <1>3, <2>2, <2>5, <3>2
    <3>3. CASE k \notin {n, m}
      BY <1>3, <1>4, <2>2, <2>5, <3>3
    <3> QED
      BY <3>1, <3>2, <3>3
  <2> QED
    BY <2>4, <2>7 DEF InStep
<1>6. CASE SwapEnabled(q)
  <2>1. clients' = [clients EXCEPT ![m] = c] /\ UNCHANGED connected /\ tools' = Registered(n, m, c) /\ read[q].enabled
    BY <1>6 DEF SwapEnabled, Own
  <2>2. InHand(q) /\ ~InHand(q)' /\ HandedOver(q)' /\ ~Takeout(q)'
    BY <1>0, <1>1, <1>6, <2>1 DEF InHand, HandedOver, Takeout, SwapEnabled
  <2>3. m \in overrun' \/ connected' = connected \cup {c}
    BY <1>0, <2>1, <2>2 DEF InStep, Connections
  <2>4. Connections' /\ Bearers' /\ \A k \in Names : ~Emptied(k)'
    BY <1>0, <1>2, <2>1, <2>2, <2>3, Installs
  <2>5. (m \in overrun' \/ tools'[m] = c) /\ \A k \in Names \ {m} : tools'[k] = IF k = n THEN NoClient ELSE tools[k]
    BY <1>0, <1>2, <2>1, RegisteredIs
  <2>6. clients'[m] = c /\ c # NoClient /\ \A k \in Names \ {m} : clients'[k] = clients[k]
    BY <1>0, <2>1, ClientsDiffer DEF McpTypes
  <2>7. Matched'
    <3> SUFFICES ASSUME NEW k \in Names \ overrun'
                 PROVE  tools'[k] = clients'[k] /\ (clients'[k] # NoClient <=> configs'[k] # NoClient /\ configs'[k].enabled)
      BY <2>4 DEF Matched
    <3>1. CASE k = m
      BY <1>2, <1>3, <2>1, <2>5, <2>6, <3>1
    <3>2. CASE k = n /\ k # m
      BY <1>2, <1>3, <2>5, <2>6, <3>2
    <3>3. CASE k \notin {n, m}
      BY <1>3, <1>4, <2>5, <2>6, <3>3
    <3> QED
      BY <3>1, <3>2, <3>3
  <2> QED
    BY <2>4, <2>7 DEF InStep
<1> QED
  BY <1>5, <1>6

LEMMA InStepRestore ==
    ASSUME NEW cast, ServersInv(cast), NEW q \in McpRequests, NEW n \in Names, RestoreLook(q, n) \/ Restore(q, n)
    PROVE  InStep'
<1> USE DEF At, Ends
<1>0. /\ McpSane(cast) /\ McpTypes /\ InStep /\ Kind[q] = "list" /\ mcpLock = NoClient
      /\ UNCHANGED <<mcpLock, overrun>>
      /\ ReadTrue(q) /\ mcpAt[q] \in Waits
  BY DEF ServersInv, McpSane, RestoreLook, Restore, Waits
<1>1. HandedOver(q) /\ HandedOver(q)' /\ ~InHand(q) /\ ~InHand(q)' /\ ~Takeout(q) /\ ~Takeout(q)'
  BY <1>0 DEF HandedOver, InHand, Takeout
<1>2. (\A r \in McpRequests \ {q} : ~Takeout(r)) /\ \A m \in Names : ~Emptied(m)
  BY <1>0, <1>1, OneTakeout
<1>3. \A m \in Names \ overrun : tools[m] = clients[m] /\ (clients[m] # NoClient <=> configs[m] # NoClient /\ configs[m].enabled)
  BY <1>0, <1>2 DEF InStep, Matched
<1>4. CASE UNCHANGED <<memory, connected>>
  <2>1. \A r \in McpRequests \ {q} : read'[r] = read[r]
    BY <1>0 DEF RestoreLook, Restore, Struck, McpTypes
  <2>2. CASE \E x : Goes(q, x)
    BY <1>0, <1>1, <1>4, <2>1, <2>2, StillInStep
  <2>3. CASE mcpAt' = mcpAt
    <3>1. \A r \in McpRequests : /\ InHand(r)' <=> InHand(r)
                                 /\ HandedOver(r)' <=> HandedOver(r)
                                 /\ Takeout(r)' <=> Takeout(r)
      BY <1>1, <2>1, <2>3 DEF InHand, HandedOver, Takeout
    <3>2. Connections'
      BY <1>0, <1>4, <3>1 DEF memory, InStep, Connections
    <3>3. Bearers'
      BY <1>0, <1>4, <3>1 DEF memory, InStep, Bearers
    <3>4. \A m \in Names : ~Emptied(m)'
      BY <1>1, <1>2, <3>1 DEF Emptied
    <3>5. Matched'
      BY <1>0, <1>3, <1>4, <3>4 DEF memory, Matched
    <3> QED
      BY <3>2, <3>3, <3>5 DEF InStep
  <2> QED
    BY <2>2, <2>3 DEF RestoreLook, Restore
<1>5. CASE RestoreLook(q, n) /\ ~UNCHANGED <<memory, connected>>
  <2>1. /\ UNCHANGED <<clients, tools, connected>> /\ configs[n] = NoClient
        /\ configs' = [configs EXCEPT ![n] = read[q][n]]
        /\ read[q][n] # NoClient /\ ~read[q][n].enabled /\ Struck(q, n) /\ mcpAt' = mcpAt
    BY <1>5 DEF RestoreLook, memory, Left
  <2>2. \A r \in McpRequests \ {q} : read'[r] = read[r]
    BY <1>0, <2>1, StruckIs
  <2>3. \A r \in McpRequests : (InHand(r)' <=> InHand(r)) /\ (HandedOver(r)' <=> HandedOver(r)) /\ ~Takeout(r)'
    BY <1>1, <1>2, <2>1, <2>2 DEF InHand, HandedOver, Takeout
  <2>4. Connections'
    BY <1>0, <2>1, <2>3 DEF InStep, Connections
  <2>5. Bearers'
    BY <1>0, <2>1, <2>3 DEF InStep, Bearers
  <2>6. \A m \in Names : ~Emptied(m)'
    BY <2>3 DEF Emptied
  <2>7. configs'[n] = read[q][n] /\ \A m \in Names \ {n} : configs'[m] = configs[m]
    BY <1>0, <2>1 DEF McpTypes
  <2>8. Matched'
    BY <1>0, <1>3, <2>1, <2>6, <2>7 DEF Matched
  <2> QED
    BY <2>4, <2>5, <2>8 DEF InStep
<1>6. CASE Restore(q, n) /\ ~UNCHANGED <<memory, connected>>
  <2> DEFINE c == Client(q, n)
  <2>1. /\ configs[n] = NoClient /\ tools' = Registered(NoClient, n, c) /\ clients' = [clients EXCEPT ![n] = c]
        /\ configs' = [configs EXCEPT ![n] = read[q][n]] /\ connected' = connected \cup {c}
        /\ Struck(q, n) /\ Goes(q, "restoring") /\ mcpAt[q] = n
    BY <1>6 DEF Restore
  <2>2. \A r \in McpRequests \ {q} : read'[r] = read[r]
    BY <1>0, <2>1, StruckIs
  <2>3. read[q][n] \in Config /\ read[q][n].enabled /\ read[q][n] # NoClient
    BY <1>0, <2>1, McpAssumption DEF ReadTrue
  <2>4. n \in overrun \/ (clients[n] = NoClient /\ tools[n] = NoClient)
    BY <1>3, <2>1
  <2>5. Connections' /\ Bearers' /\ \A m \in Names : ~Emptied(m)'
    BY <1>0, <1>1, <1>2, <2>1, <2>2, <2>4, Installs
  <2>6. (n \in overrun \/ tools'[n] = c) /\ \A m \in Names \ {n} : tools'[m] = tools[m]
    BY <1>0, <2>1, <2>4, McpAssumption, RegisteredIs
  <2>7. /\ clients'[n] = c /\ c # NoClient /\ configs'[n] = read[q][n]
        /\ \A m \in Names \ {n} : clients'[m] = clients[m] /\ configs'[m] = configs[m]
    BY <1>0, <2>1, ClientsDiffer DEF McpTypes
  <2>8. Matched'
    BY <1>0, <1>3, <2>3, <2>5, <2>6, <2>7 DEF Matched
  <2> QED
    BY <2>5, <2>8 DEF InStep
<1> QED
  BY <1>4, <1>5, <1>6

-----------------------------------------------------------------------------
(* What a request brings finds its name free *)

McpStep(q) == Add(q) \/ Change(q) \/ Delete(q) \/ List(q)

LEMMA SaneStep ==
    ASSUME NEW cast, ServersInv(cast), NEW q \in McpRequests, McpStep(q)
    PROVE  McpSane(cast)'
BY SaneAdd, SaneChange, SaneDelete, SaneList DEF McpStep, ServersInv

LEMMA InStepStep ==
    ASSUME NEW cast, ServersInv(cast), NEW q \in McpRequests, McpStep(q)
    PROVE  InStep'
<1>1. CASE Add(q)
  BY <1>1, InStepAdd
<1>2. CASE Change(q)
  BY <1>2, InStepQuiet, InStepConnect, InStepTakeOut, InStepSwap DEF Change
<1>3. CASE Delete(q)
  BY <1>3, InStepQuiet, InStepRemoved DEF Delete
<1>4. CASE List(q)
  BY <1>4, InStepQuiet, InStepRestore DEF List
<1> QED
  BY <1>1, <1>2, <1>3, <1>4 DEF McpStep

\* The steps that touch memory, and those that touch the table.
LEMMA Touching ==
    ASSUME NEW q \in McpRequests, McpStep(q)
    PROVE  /\ \/ UNCHANGED memory
              \/ AddConnects(q) \/ TakeOut(q) \/ SwapDisabled(q) \/ SwapEnabled(q) \/ RemoveMemory(q)
              \/ \E n \in Names : RestoreLook(q, n) \/ Restore(q, n)
           /\ UNCHANGED rows \/ AddSave(q) \/ WriteRow(q) \/ RemoveRow(q)
BY DEF McpStep, Add, AddLook, AddLock, AddConnects, AddFails, AddSave,
       Change, UpdateLook, UpdateRead, ToggleLook, Reconnect, WriteRow, WriteRefused, TakeOut,
       SwapDisabled, SwapEnabled, Delete, RemoveLook, RemoveMemory, RemoveRow,
       List, RestoreRead, RestoreEnds, RestoreLook, Restore, RestoreFails

\* A step is one of a request that is under way, and moves only that.
LEMMA Moving ==
    ASSUME NEW cast, McpSane(cast), NEW q \in McpRequests, McpStep(q)
    PROVE  /\ q \in cast /\ mcpAt[q] # "done"
           /\ \A r \in McpRequests \ {q} : mcpAt'[r] = mcpAt[r] /\ read'[r] = read[r]
<1>1. McpTypes /\ Names \cap {"idle", "restoring", "done"} = {}
  BY McpAssumption DEF McpSane
<1>2. mcpAt[q] # "done"
  BY <1>1 DEF At, McpStep, Add, AddLook, AddLock, AddConnects, AddFails, AddSave,
       Change, UpdateLook, UpdateRead, ToggleLook, Reconnect, WriteRow, WriteRefused, TakeOut,
       SwapDisabled, SwapEnabled, Delete, RemoveLook, RemoveMemory, RemoveRow,
       List, RestoreRead, RestoreEnds, RestoreLook, Restore, RestoreFails
<1>3. mcpAt' = mcpAt \/ \E x : Goes(q, x)
  BY DEF Goes, Ends, McpStep, Add, AddLook, AddLock, AddConnects, AddFails, AddSave,
       Change, UpdateLook, UpdateRead, ToggleLook, Reconnect, WriteRow, WriteRefused, TakeOut,
       SwapDisabled, SwapEnabled, Delete, RemoveLook, RemoveMemory, RemoveRow,
       List, RestoreRead, RestoreEnds, RestoreLook, Restore, RestoreFails
<1>4. UNCHANGED read \/ \E x : read' = [read EXCEPT ![q] = x]
  <2>1. CASE List(q)
    BY <2>1 DEF List, RestoreRead, RestoreEnds, RestoreLook, Restore, RestoreFails, Struck
  <2>2. CASE ~List(q)
    BY <2>2 DEF McpStep, Add, AddLook, AddLock, AddConnects, AddFails, AddSave,
       Change, UpdateLook, UpdateRead, ToggleLook, Reconnect, WriteRow, WriteRefused, TakeOut,
       SwapDisabled, SwapEnabled, Delete, RemoveLook, RemoveMemory, RemoveRow
  <2> QED
    BY <2>1, <2>2
<1>5. \A r \in McpRequests \ {q} : mcpAt'[r] = mcpAt[r]
  BY <1>1, <1>3, Went
<1>6. \A r \in McpRequests \ {q} : read'[r] = read[r]
  BY <1>1, <1>4 DEF McpTypes
<1> QED
  BY <1>2, <1>5, <1>6 DEF McpSane

\* Where the step of a request can lead.
LEMMA Leading ==
    ASSUME McpTypes, NEW q \in McpRequests, McpStep(q), mcpAt[q] \in Stages(q)
    PROVE  /\ Ahead(q)' => Ahead(q)
           /\ Early(q)' => Early(q)
           /\ Sets(q)' => Sets(q) \/ AddLook(q) \/ WriteRow(q)
           /\ Kind[q] \in {"update", "enable", "disable"} /\ mcpAt'[q] # "done" /\ mcpAt[q] = "idle" =>
                  configs[Name[q]] # NoClient /\ UNCHANGED memory
           /\ Kind[q] \in {"update", "enable", "disable"} /\ mcpAt'[q] \in {"swapping", "installing"} =>
                  mcpAt[q] \in {"swapping", "installing"} \/ WriteRow(q)
           /\ Kind[q] = "remove" /\ mcpAt'[q] = "deleting" => RemoveMemory(q)
<1> USE DEF At, Ends
<1>1. CASE Add(q)
  <2>1. Kind[q] = "add"
    BY <1>1 DEF Add, AddLook, AddLock, AddConnects, AddFails, AddSave
  <2>2. \/ mcpAt[q] = "idle" /\ AddLook(q)
        \/ mcpAt[q] \in {"locking", "adding"}
        \/ mcpAt[q] = "saving" /\ Goes(q, "done")
    BY <1>1 DEF Goes, Add, AddLook, AddLock, AddConnects, AddFails, AddSave
  <2> QED
    BY <2>1, <2>2, Went DEF Ahead, Early, Sets
<1>2. CASE Change(q)
  <2>1. Kind[q] \in {"update", "enable", "disable"}
        \/ (Kind[q] = "remove" /\ mcpAt[q] = "swapping" /\ Goes(q, "installing"))
    BY <1>2 DEF Change, UpdateLook, UpdateRead, ToggleLook, Reconnect, WriteRow, WriteRefused, TakeOut,
           SwapDisabled, SwapEnabled
  <2>2. \/ /\ mcpAt[q] = "idle" /\ \E x \in {"reading", "connecting", "writing", "done"} : Goes(q, x)
           /\ UNCHANGED memory /\ (~Goes(q, "done") => configs[Name[q]] # NoClient)
        \/ /\ mcpAt[q] \in {"reading", "connecting"}
           /\ \E x \in {"connecting", "writing", "done"} : Goes(q, x)
        \/ mcpAt[q] = "writing" /\ (WriteRow(q) \/ Goes(q, "done"))
        \/ mcpAt[q] = "swapping" /\ Goes(q, "installing")
        \/ mcpAt[q] = "installing" /\ Goes(q, "done")
    BY <1>2 DEF Goes, Change, UpdateLook, UpdateRead, ToggleLook, Reconnect, WriteRow, WriteRefused, TakeOut,
           SwapDisabled, SwapEnabled
  <2> QED
    BY <2>1, <2>2, Went DEF Ahead, Early, Sets
<1>3. CASE Delete(q)
  <2>1. Kind[q] = "remove"
    BY <1>3 DEF Delete, RemoveLook, RemoveMemory, RemoveRow
  <2>2. RemoveMemory(q) \/ Goes(q, "done") \/ Goes(q, "swapping")
    BY <1>3 DEF Goes, Delete, RemoveLook, RemoveMemory, RemoveRow
  <2> QED
    BY <2>1, <2>2, Went DEF Ahead, Early, Sets
<1>4. CASE List(q)
  BY <1>4 DEF List, RestoreRead, RestoreEnds, RestoreLook, Restore, RestoreFails, Ahead, Early, Sets
<1> QED
  BY <1>1, <1>2, <1>3, <1>4 DEF McpStep

\* A server whose name nobody takes away keeps its configuration, and its row.
LEMMA ConfigStays ==
    ASSUME NEW cast, ServersInv(cast), NEW q \in McpRequests, McpStep(q),
           NEW n \in Names, ~Frees(q, n), configs[n] # NoClient
    PROVE  configs'[n] # NoClient
<1> USE DEF At, memory
<1>0. McpSane(cast) /\ McpTypes /\ Name[q] \in Names /\ NewName[q] \in Names
  BY McpAssumption DEF ServersInv, McpSane
<1>1. CASE UNCHANGED memory \/ TakeOut(q)
  BY <1>1 DEF TakeOut
<1>2. CASE AddConnects(q)
  <2>1. [enabled |-> TRUE, by |-> q] \in Config
    BY DEF Config
  <2>2. configs' = [configs EXCEPT ![Name[q]] = [enabled |-> TRUE, by |-> q]]
    BY <1>2 DEF AddConnects
  <2> QED
    BY <1>0, <2>1, <2>2, McpAssumption DEF McpTypes
<1>3. CASE SwapDisabled(q) \/ SwapEnabled(q)
  <2>1. configs' = [configs EXCEPT ![Name[q]] = NoClient, ![NewName[q]] = read[q]]
    BY <1>3 DEF SwapDisabled, SwapEnabled
  <2>2. read[q] # NoClient
    BY <1>3, Installing DEF SwapDisabled, SwapEnabled
  <2>3. Name[q] = n => NewName[q] = n
    BY DEF Frees
  <2> QED
    BY <1>0, <2>1, <2>2, <2>3 DEF McpTypes
<1>4. CASE RemoveMemory(q)
  <2>1. Name[q] # n
    BY <1>4 DEF Frees, RemoveMemory
  <2> QED
    BY <1>0, <1>4, <2>1 DEF RemoveMemory, McpTypes
<1>5. CASE \E m \in Names : RestoreLook(q, m) \/ Restore(q, m)
  <2> PICK m \in Names : RestoreLook(q, m) \/ Restore(q, m)
    BY <1>5
  <2>1. configs[m] # NoClient => configs' = configs
    BY DEF RestoreLook, Restore
  <2>2. configs' = configs \/ configs' = [configs EXCEPT ![m] = read[q][m]]
    BY DEF RestoreLook, Restore
  <2> QED
    BY <1>0, <2>1, <2>2 DEF McpTypes
<1> QED
  BY <1>1, <1>2, <1>3, <1>4, <1>5, Touching

LEMMA RowStays ==
    ASSUME NEW cast, ServersInv(cast), NEW q \in McpRequests, McpStep(q),
           NEW n \in Names, ~Frees(q, n), rows[n] # NoClient
    PROVE  rows'[n] # NoClient
<1> USE DEF At
<1>0. McpSane(cast) /\ McpTypes /\ ReadTrue(q) /\ Name[q] \in Names /\ NewName[q] \in Names
  BY McpAssumption DEF ServersInv, McpSane
<1>1. CASE AddSave(q)
  <2>1. [enabled |-> TRUE, by |-> q] \in Config
    BY DEF Config
  <2>2. rows' = rows \/ rows' = [rows EXCEPT ![Name[q]] = [enabled |-> TRUE, by |-> q]]
    BY <1>1 DEF AddSave
  <2> QED
    BY <1>0, <2>1, <2>2, McpAssumption DEF McpTypes
<1>2. CASE WriteRow(q)
  <2>1. rows' = [rows EXCEPT ![Name[q]] = NoClient, ![NewName[q]] = Wanted(q)]
    BY <1>2 DEF WriteRow
  <2>2. Wanted(q) # NoClient
    BY <1>0, <1>2, WantedIs, McpAssumption DEF WriteRow, Writable
  <2>3. Name[q] = n => NewName[q] = n
    BY DEF Frees
  <2> QED
    BY <1>0, <2>1, <2>2, <2>3 DEF McpTypes
<1>3. CASE RemoveRow(q)
  <2>1. Name[q] # n
    BY <1>3 DEF Frees, RemoveRow
  <2> QED
    BY <1>0, <1>3, <2>1 DEF RemoveRow, McpTypes
<1> QED
  BY <1>1, <1>2, <1>3, Touching

\* Where a request brings in a name, no other makes it hold a client.
LEMMA NobodyElse ==
    ASSUME NEW cast, ServersInv(cast), Compatible(cast), NEW q \in cast, Brings(q), NEW s \in cast \ {q}, McpStep(s),
           cast \subseteq McpRequests, Early(q) \/ Kind[q] = "update",
           ~NoneFrees(cast, NewName[q]) \/ configs[NewName[q]] = NoClient,
           clients[NewName[q]] = NoClient
    PROVE  /\ clients'[NewName[q]] = NoClient
           /\ NoneFrees(cast, NewName[q]) => configs'[NewName[q]] = NoClient
<1> USE DEF At, memory
<1> DEFINE n == NewName[q]
<1>0. /\ McpSane(cast) /\ McpTypes /\ ReadTrue(s) /\ s \in McpRequests /\ q \in McpRequests
      /\ Name[s] \in Names /\ NewName[s] \in Names /\ n \in Names
  BY McpAssumption DEF ServersInv, McpSane
<1>1. BringsAlone(cast, q)
  BY DEF Compatible
<1>2. Brings(s) => NewName[s] # n
  BY <1>1 DEF BringsAlone
<1>3. CASE UNCHANGED memory \/ TakeOut(s)
  BY <1>0, <1>3 DEF TakeOut, McpTypes
<1>4. CASE AddConnects(s)
  <2>1. Name[s] # n
    BY <1>0, <1>2, <1>4, McpAssumption DEF AddConnects, Brings
  <2> QED
    BY <1>0, <1>4, <2>1 DEF AddConnects, McpTypes
<1>5. CASE SwapDisabled(s) \/ SwapEnabled(s)
  <2>1. CASE NewName[s] # n
    <3>1. \/ clients' = [clients EXCEPT ![NewName[s]] = NoClient]
          \/ clients' = [clients EXCEPT ![NewName[s]] = Own(s)]
      BY <1>5 DEF SwapDisabled, SwapEnabled
    <3>2. configs' = [configs EXCEPT ![Name[s]] = NoClient, ![NewName[s]] = read[s]]
      BY <1>5 DEF SwapDisabled, SwapEnabled
    <3> QED
      BY <1>0, <2>1, <3>1, <3>2 DEF McpTypes
  <2>2. CASE NewName[s] = n
    <3>1. Alters(s, n) /\ mcpAt[s] = "installing"
      BY <1>0, <1>2, <1>5, <2>2, McpAssumption DEF SwapDisabled, SwapEnabled, Alters, Brings
    <3>2. NoneFrees(cast, n) => configs[n] # NoClient
      BY <3>1 DEF ServersInv, Kept, Occupied
    <3>3. ~NoneFrees(cast, n)
      BY <3>2
    <3>4. ~Reopens(s, n)
      BY <1>1, <3>3 DEF BringsAlone
    <3>5. SwapDisabled(s)
      <4>1. Kind[s] = "disable"
        BY <3>1, <3>4 DEF Reopens, Alters
      <4> QED
        BY <1>5, <4>1 DEF SwapEnabled
    <3> QED
      BY <1>0, <2>2, <3>3, <3>5 DEF SwapDisabled, McpTypes
  <2> QED
    BY <2>1, <2>2
<1>6. CASE RemoveMemory(s)
  BY <1>0, <1>6 DEF RemoveMemory, McpTypes
<1>7. CASE \E m \in Names : RestoreLook(s, m) \/ Restore(s, m)
  <2> PICK m \in Names : RestoreLook(s, m) \/ Restore(s, m)
    BY <1>7
  <2>1. Kind[s] = "list" /\ mcpAt[s] \in Waits
    BY DEF RestoreLook, Restore, Waits
  <2>2. Lists(cast)
    BY <2>1 DEF Lists
  <2>3. Early(q)
    BY <1>1, <2>2 DEF BringsAlone
  <2>4. read[s][n] = NoClient
    BY <2>1, <2>2, <2>3 DEF ServersInv, Kept, Unlisted
  <2>5. read[s][m] # NoClient
    BY <1>0, <2>1, McpAssumption DEF RestoreLook, Left, Restore, ReadTrue
  <2>6. m # n
    BY <2>4, <2>5
  <2>7. clients' = clients \/ clients' = [clients EXCEPT ![m] = Client(s, m)]
    BY DEF RestoreLook, Restore
  <2>8. configs' = configs \/ configs' = [configs EXCEPT ![m] = read[s][m]]
    BY DEF RestoreLook, Restore
  <2> QED
    BY <1>0, <2>6, <2>7, <2>8 DEF McpTypes
<1> QED
  BY <1>0, <1>3, <1>4, <1>5, <1>6, <1>7, Touching

LEMMA RoomStep ==
    ASSUME NEW cast, ServersInv(cast), Compatible(cast), cast \subseteq McpRequests, NEW s \in McpRequests, McpStep(s),
           NEW q \in cast, Brings(q)
    PROVE  Room(cast, q)'
<1> DEFINE n == NewName[q]
<1>0. /\ McpSane(cast) /\ McpTypes /\ InStep /\ ReadTrue(s) /\ mcpAt[s] \in Stages(s)
      /\ Name[s] \in Names /\ NewName[s] \in Names /\ n \in Names /\ q \in McpRequests /\ s \in cast
      /\ Room(cast, q) /\ Removed(cast, q) /\ overrun = {}
  BY McpAssumption, Moving DEF ServersInv, McpSane, Kept
<1> SUFFICES ASSUME Sets(q)' \/ (Ahead(q)' /\ rows'[n] = NoClient)
             PROVE  clients'[n] = NoClient /\ (NoneFrees(cast, n) => configs'[n] = NoClient)
  BY DEF Room, Vacant, NoneFrees, Frees
<1>1. CASE s # q
  <2>1. (Sets(q)' <=> Sets(q)) /\ (Ahead(q)' <=> Ahead(q))
    BY <1>0, <1>1, Moving DEF Sets, Ahead
  <2>2. Early(q) \/ Kind[q] = "update"
    BY <2>1 DEF Sets, Ahead, Early
  <2>3. CASE Sets(q) \/ rows[n] = NoClient
    <3>1. clients[n] = NoClient /\ (~NoneFrees(cast, n) \/ configs[n] = NoClient)
      BY <1>0, <2>1, <2>3 DEF Room, Vacant
    <3> QED
      BY <1>0, <1>1, <2>2, <3>1, NobodyElse
  <2>4. CASE ~Sets(q) /\ rows[n] # NoClient
    <3>1. Ahead(q) /\ rows'[n] = NoClient
      BY <2>1, <2>4
    <3>2. Frees(s, n)
      BY <1>0, <2>4, <3>1, RowStays
    <3>3. ~NoneFrees(cast, n)
      BY <1>0, <3>2 DEF NoneFrees
    <3>4. Kind[s] = "remove" /\ mcpAt[s] = "deleting"
      <4>1. BringsAlone(cast, q) /\ Kind[q] = "update"
        BY <3>1 DEF Compatible, Ahead
      <4>2. Kind[s] # "update"
        BY <1>0, <3>2, <4>1 DEF BringsAlone, Frees
      <4>3. Kind[s] = "remove"
        BY <3>2, <4>2, McpAssumption DEF Frees
      <4>4. RemoveRow(s)
        BY <2>4, <3>1, <4>3, Touching DEF AddSave, WriteRow, At
      <4> QED
        BY <4>4 DEF RemoveRow, At
    <3>5. clients[n] = NoClient
      BY <1>0, <3>1, <3>2, <3>4 DEF Removed, Frees
    <3> QED
      BY <1>0, <1>1, <2>2, <3>3, <3>5, NobodyElse
  <2> QED
    BY <2>3, <2>4
<1>2. CASE s = q
  <2>1. CASE AddLook(q)
    <3>1. configs[n] = NoClient /\ UNCHANGED memory
      BY <1>0, <2>1, Went, McpAssumption DEF AddLook, At, Sets, Ahead, Ends, Goes
    <3>2. clients[n] = NoClient
      BY <1>0, <3>1 DEF InStep, Matched
    <3> QED
      BY <3>1, <3>2 DEF memory
  <2>2. CASE WriteRow(q)
    <3>1. Ahead(q) /\ rows[n] = NoClient /\ UNCHANGED memory
      BY <2>2 DEF WriteRow, At, Ahead, Brings, Writable
    <3> QED
      BY <1>0, <3>1 DEF Room, Vacant, memory
  <2>3. CASE ~AddLook(q) /\ ~WriteRow(q)
    <3>1. (Sets(q)' => Sets(q)) /\ (Ahead(q)' => Ahead(q))
      BY <1>0, <1>2, <2>3, Leading
    <3>2. Ahead(q)' => UNCHANGED rows
      BY <1>2, <2>3, Touching DEF Ahead, AddSave, RemoveRow, At
    <3>3. clients[n] = NoClient /\ (NoneFrees(cast, n) => configs[n] = NoClient)
      BY <1>0, <3>1, <3>2 DEF Room, Vacant
    <3>4. UNCHANGED memory \/ TakeOut(q)
      <4>1. ~AddConnects(q)
        BY <1>0, Went DEF AddConnects, Sets, Ahead, At
      <4>2. ~SwapDisabled(q) /\ ~SwapEnabled(q)
        BY <1>0, Went DEF SwapDisabled, SwapEnabled, Sets, Ahead, Ends, Goes
      <4>3. ~RemoveMemory(q) /\ \A m \in Names : ~RestoreLook(q, m) /\ ~Restore(q, m)
        BY DEF Brings, RemoveMemory, RestoreLook, Restore, At
      <4> QED
        BY <1>2, <4>1, <4>2, <4>3, Touching
    <3> QED
      BY <1>0, <3>3, <3>4 DEF TakeOut, memory, McpTypes
  <2> QED
    BY <2>1, <2>2, <2>3
<1> QED
  BY <1>1, <1>2

LEMMA OccupiedStep ==
    ASSUME NEW cast, ServersInv(cast), Compatible(cast), cast \subseteq McpRequests, NEW s \in McpRequests, McpStep(s),
           NEW q \in cast, Brings(q)
    PROVE  Occupied(cast, q)'
<1> DEFINE n == NewName[q]
<1>0. /\ McpSane(cast) /\ McpTypes /\ n \in Names /\ q \in McpRequests /\ s \in cast /\ mcpAt[s] \in Stages(s)
      /\ Occupied(cast, q) /\ ReadTrue(s)
  BY McpAssumption, Moving DEF ServersInv, McpSane, Kept
<1> SUFFICES ASSUME NoneFrees(cast, n), NEW r \in cast, Alters(r, n), mcpAt'[r] \notin {"idle", "done"}
             PROVE  /\ configs'[n] # NoClient
                    /\ Ahead(q)' /\ mcpAt'[r] \in {"swapping", "installing"} => rows'[n] # NoClient
  BY DEF Occupied, NoneFrees, Frees, Alters
<1>1. ~Frees(s, n) /\ r \in McpRequests /\ Name[r] = n
  BY <1>0 DEF NoneFrees, Alters
<1>2. mcpAt[r] # "done" /\ (mcpAt[r] = "idle" => r = s)
  BY <1>0, <1>1, Moving
<1>3. configs'[n] # NoClient
  <2>1. configs[n] # NoClient
    <3>1. CASE mcpAt[r] = "idle"
      BY <1>0, <1>1, <1>2, <3>1, Leading DEF Alters
    <3>2. CASE mcpAt[r] # "idle"
      BY <1>0, <1>2, <3>2 DEF Occupied
    <3> QED
      BY <3>1, <3>2
  <2> QED
    BY <1>0, <1>1, <2>1, ConfigStays
<1>4. ASSUME Ahead(q)', mcpAt'[r] \in {"swapping", "installing"} PROVE rows'[n] # NoClient
  <2>1. Ahead(q)
    <3>1. CASE q = s
      BY <1>0, <1>4, <3>1, Leading
    <3>2. CASE q # s
      BY <1>0, <1>4, <3>2, Moving DEF Ahead
    <3> QED
      BY <3>1, <3>2
  <2>2. CASE mcpAt[r] \in {"swapping", "installing"}
    <3>1. rows[n] # NoClient
      BY <1>0, <2>1, <2>2 DEF Occupied
    <3> QED
      BY <1>0, <1>1, <3>1, RowStays
  <2>3. CASE mcpAt[r] \notin {"swapping", "installing"}
    <3>1. r = s
      BY <1>0, <1>1, <1>4, <2>3, Moving
    <3>2. WriteRow(r)
      BY <1>0, <1>4, <2>3, <3>1, Leading DEF Alters
    <3>3. rows[n] # NoClient
      BY <1>1, <3>2 DEF WriteRow, Writable
    <3> QED
      BY <1>0, <1>1, <3>3, RowStays
  <2> QED
    BY <2>2, <2>3
<1> QED
  BY <1>3, <1>4

LEMMA RemovedStep ==
    ASSUME NEW cast, ServersInv(cast), Compatible(cast), cast \subseteq McpRequests, NEW s \in McpRequests, McpStep(s),
           NEW q \in cast, Brings(q)
    PROVE  Removed(cast, q)'
<1> DEFINE n == NewName[q]
<1>0. /\ McpSane(cast) /\ McpTypes /\ InStep /\ n \in Names /\ q \in McpRequests /\ s \in cast /\ mcpAt[s] \in Stages(s)
      /\ Removed(cast, q) /\ cast \subseteq McpRequests /\ overrun = {}
  BY McpAssumption, Moving DEF ServersInv, McpSane, Kept
<1> SUFFICES ASSUME Ahead(q)', NEW r \in cast, Kind[r] = "remove", Name[r] = n, mcpAt'[r] = "deleting"
             PROVE  clients'[n] = NoClient
  BY DEF Removed
<1>1. Ahead(q) /\ Kind[q] = "update"
  <2>1. CASE q = s
    BY <1>0, <2>1, Leading DEF Ahead
  <2>2. CASE q # s
    BY <1>0, <2>2, Moving DEF Ahead
  <2> QED
    BY <2>1, <2>2
<1>2. ~NoneFrees(cast, n)
  BY DEF NoneFrees, Frees
<1>3. CASE RemoveMemory(s) /\ r = s
  <2>1. Takeout(s) /\ Emptied(n)
    BY <1>0, <1>3 DEF RemoveMemory, At, Takeout, Emptied
  <2>2. clients[n] = NoClient
    BY <1>0, <2>1 DEF InStep, Matched
  <2> QED
    BY <1>3, <2>2 DEF RemoveMemory
<1>4. CASE ~(RemoveMemory(s) /\ r = s)
  <2>1. mcpAt[r] = "deleting"
    BY <1>0, <1>4, Leading, Moving
  <2>2. clients[n] = NoClient
    BY <1>0, <1>1, <2>1 DEF Removed
  <2>3. CASE s # q
    BY <1>0, <1>1, <1>2, <2>2, <2>3, NobodyElse
  <2>4. CASE s = q
    <3>1. ~AddConnects(q) /\ ~TakeOut(q) /\ ~SwapDisabled(q) /\ ~SwapEnabled(q) /\ ~RemoveMemory(q)
          /\ \A m \in Names : ~RestoreLook(q, m) /\ ~Restore(q, m)
      BY <1>1 DEF Ahead, AddConnects, TakeOut, SwapDisabled, SwapEnabled, RemoveMemory, RestoreLook, Restore, At
    <3>2. UNCHANGED memory
      BY <2>4, <3>1, Touching
    <3> QED
      BY <2>2, <3>2 DEF memory
  <2> QED
    BY <2>3, <2>4
<1> QED
  BY <1>3, <1>4

LEMMA UnlistedStep ==
    ASSUME NEW cast, ServersInv(cast), Compatible(cast), cast \subseteq McpRequests, NEW s \in McpRequests, McpStep(s),
           NEW q \in cast, Brings(q)
    PROVE  Unlisted(cast, q)'
<1> USE DEF At
<1> DEFINE n == NewName[q]
<1>0. /\ McpSane(cast) /\ McpTypes /\ n \in Names /\ q \in McpRequests /\ s \in cast /\ mcpAt[s] \in Stages(s)
      /\ Name[s] \in Names /\ NewName[s] \in Names /\ Unlisted(cast, q) /\ ReadTrue(s)
      /\ Names \cap {"idle", "restoring", "done"} = {}
  BY McpAssumption, Moving DEF ServersInv, McpSane, Kept
<1> SUFFICES ASSUME Early(q)', Lists(cast)
             PROVE  /\ rows'[n] = NoClient
                    /\ \A r \in cast : Kind[r] = "list" /\ mcpAt'[r] \in Waits => read'[r][n] = NoClient
  BY DEF Unlisted, Lists
<1>1. Early(q) /\ Kind[q] = "add"
  <2>1. CASE q = s
    BY <1>0, <2>1, Leading DEF Early
  <2>2. CASE q # s
    BY <1>0, <2>2, Moving DEF Early
  <2> QED
    BY <2>1, <2>2
<1>2. /\ rows[n] = NoClient
      /\ \A r \in cast : Kind[r] = "list" /\ mcpAt[r] \in Waits => read[r][n] = NoClient
  BY <1>0, <1>1 DEF Unlisted
<1>3. Brings(s) /\ s # q => NewName[s] # n
  BY <1>0 DEF Compatible, BringsAlone
<1>4. rows'[n] = NoClient
  <2>1. CASE AddSave(s)
    <3>1. s # q
      BY <1>1, <2>1 DEF AddSave, Early
    <3>2. Name[s] # n
      BY <1>3, <2>1, <3>1, McpAssumption DEF AddSave, Brings
    <3> QED
      BY <1>0, <1>2, <2>1, <3>2 DEF AddSave, McpTypes
  <2>2. CASE WriteRow(s)
    <3>1. rows[Name[s]] # NoClient /\ s # q
      BY <1>1, <2>2 DEF WriteRow, Writable
    <3>2. NewName[s] # n
      BY <1>2, <1>3, <2>2, <3>1, McpAssumption DEF WriteRow, Brings
    <3> QED
      BY <1>0, <1>2, <2>2, <3>2 DEF WriteRow, McpTypes
  <2>3. CASE RemoveRow(s)
    BY <1>0, <1>2, <2>3 DEF RemoveRow, McpTypes
  <2> QED
    BY <1>2, <2>1, <2>2, <2>3, Touching
<1>5. ASSUME NEW r \in cast, Kind[r] = "list", mcpAt'[r] \in Waits PROVE read'[r][n] = NoClient
  <2>1. CASE r # s
    BY <1>0, <1>2, <1>5, <2>1, Moving
  <2>2. CASE r = s
    <3>1. List(s)
      BY <1>5, <2>2 DEF McpStep, Add, AddLook, AddLock, AddConnects, AddFails, AddSave,
         Change, UpdateLook, UpdateRead, ToggleLook, Reconnect, WriteRow, WriteRefused, TakeOut,
         SwapDisabled, SwapEnabled, Delete, RemoveLook, RemoveMemory, RemoveRow
    <3>2. CASE RestoreRead(s)
      BY <1>0, <1>2, <2>2, <3>2 DEF RestoreRead, McpTypes
    <3>3. CASE ~RestoreRead(s)
      <4>1. mcpAt[s] \in Waits
        BY <3>1, <3>3 DEF List, RestoreEnds, RestoreLook, Restore, RestoreFails, Waits
      <4>2. read[s][n] = NoClient
        BY <1>0, <1>2, <1>5, <2>2, <4>1
      <4>3. UNCHANGED read \/ \E m \in Names : Struck(s, m)
        BY <3>1, <3>3 DEF List, RestoreEnds, RestoreLook, Restore, RestoreFails
      <4> QED
        BY <1>0, <1>5, <2>2, <4>1, <4>2, <4>3, StruckIs
    <3> QED
      BY <3>2, <3>3
  <2> QED
    BY <2>1, <2>2
<1> QED
  BY <1>4, <1>5

\* Whether requests are compatible is no matter of the state.
LEMMA StillCompatible ==
    ASSUME NEW cast
    PROVE  Compatible(cast)' <=> Compatible(cast)
BY DEF Compatible, BringsAlone, Brings, Lists, NoneFrees, Frees, Reopens, Alters

\* Requests that are compatible put nothing over a client.
LEMMA NothingOverrun ==
    ASSUME NEW cast, ServersInv(cast), Compatible(cast), cast \subseteq McpRequests, NEW s \in McpRequests, McpStep(s)
    PROVE  overrun' = {}
<1>0. McpSane(cast) /\ InStep /\ Kept(cast) /\ overrun = {} /\ Name[s] \in Names /\ NewName[s] \in Names
  BY McpAssumption DEF ServersInv
<1>1. s \in cast
  BY <1>0, Moving
<1>2. Brings(s) /\ Sets(s) => clients[NewName[s]] = NoClient
  BY <1>0, <1>1 DEF Kept, Room, Vacant
<1>3. CASE AddConnects(s)
  <2>1. Brings(s) /\ Sets(s) /\ NewName[s] = Name[s]
    BY <1>3, McpAssumption DEF AddConnects, At, Brings, Sets
  <2> QED
    BY <1>0, <1>2, <1>3, <2>1 DEF AddConnects, PutOver
<1>4. CASE SwapDisabled(s) \/ SwapEnabled(s)
  <2>1. Kind[s] \in {"update", "enable", "disable"} /\ mcpAt[s] = "installing" /\ PutOver(NewName[s])
    BY <1>4 DEF SwapDisabled, SwapEnabled, At
  <2>2. CASE NewName[s] = Name[s]
    BY <1>0, <2>1, <2>2, Installing DEF PutOver
  <2>3. CASE NewName[s] # Name[s]
    <3>1. Brings(s) /\ Sets(s)
      BY <2>1, <2>3, McpAssumption DEF Brings, Sets
    <3> QED
      BY <1>0, <1>2, <2>1, <3>1 DEF PutOver
  <2> QED
    BY <2>2, <2>3
<1>5. CASE ~AddConnects(s) /\ ~SwapDisabled(s) /\ ~SwapEnabled(s)
  <2>1. UNCHANGED overrun
    BY <1>5 DEF McpStep, Add, AddLook, AddLock, AddFails, AddSave,
       Change, UpdateLook, UpdateRead, ToggleLook, Reconnect, WriteRow, WriteRefused, TakeOut,
       Delete, RemoveLook, RemoveMemory, RemoveRow,
       List, RestoreRead, RestoreEnds, RestoreLook, Restore, RestoreFails
  <2> QED
    BY <1>0, <2>1
<1> QED
  BY <1>3, <1>4, <1>5

LEMMA ServersStep ==
    ASSUME NEW cast, ServersInv(cast), cast \subseteq McpRequests, [McpNext]_mcpVars
    PROVE  ServersInv(cast)'
<1>1. CASE UNCHANGED mcpVars
  <2>1. McpSane(cast)'
    BY <1>1 DEF mcpVars, memory, ServersInv, McpSane, McpTypes, Stages, ReadTrue, Locks
  <2>2. InStep'
    BY <1>1 DEF mcpVars, memory, ServersInv, InStep, Connections, Bearers, Matched, InHand, HandedOver, Emptied, Takeout
  <2>3. Compatible(cast) => Kept(cast)'
    BY <1>1 DEF mcpVars, memory, ServersInv, Kept, Room, Occupied, Removed, Unlisted, Sets, Ahead, Early, Vacant
  <2>4. mcpCast' = cast /\ (Compatible(cast) => overrun' = {})
    BY <1>1 DEF mcpVars, ServersInv
  <2> QED
    BY <2>1, <2>2, <2>3, <2>4, StillCompatible DEF ServersInv
<1>2. CASE McpNext
  <2> PICK s \in McpRequests : McpStep(s)
    BY <1>2 DEF McpNext, McpStep
  <2>1. McpSane(cast)' /\ InStep' /\ mcpCast' = cast
    BY <1>2, SaneStep, InStepStep DEF McpNext, ServersInv
  <2>2. ASSUME Compatible(cast) PROVE Kept(cast)' /\ overrun' = {}
    BY <2>2, NothingOverrun, RoomStep, OccupiedStep, RemovedStep, UnlistedStep DEF Kept, Brings
  <2> QED
    BY <2>1, <2>2, StillCompatible DEF ServersInv
<1> QED
  BY <1>1, <1>2

LEMMA ServersStart ==
    ASSUME NEW cast \in McpCasts, NEW loader \in {NoClient} \cup Kinds({"list"}), McpStart(cast, loader)
    PROVE  ServersInv(cast)
<1> DEFINE loaded(n) == loader # NoClient /\ n \in Stored
           Row == [enabled |-> TRUE, by |-> NoClient]
<1>0. /\ rows = [n \in Names |-> IF n \in Stored THEN Row ELSE NoClient]
      /\ configs = [n \in Names |-> IF loaded(n) THEN rows[n] ELSE NoClient]
      /\ clients = [n \in Names |-> IF loaded(n) THEN Client(loader, n) ELSE NoClient]
      /\ connected = {Client(loader, n) : n \in {m \in Names : loaded(m)}}
      /\ tools = clients /\ mcpLock = NoClient /\ mcpFailed = FALSE
      /\ mcpAt = [q \in McpRequests |-> IF q \in cast THEN "idle" ELSE "done"]
      /\ read = [q \in McpRequests |-> NoClient]
      /\ mcpCast = cast /\ overrun = {}
  BY DEF McpStart
<1>1. Row \in Config /\ Row.enabled /\ Row # NoClient
  <2>1. Row \in Config
    BY DEF Config
  <2> QED
    BY <2>1, McpAssumption
<1>2. loader # NoClient => loader \in McpRequests /\ Kind[loader] = "list"
  BY DEF Kinds
<1>3. \A q \in McpRequests : mcpAt[q] \in {"idle", "done"} /\ (mcpAt[q] # "done" => q \in cast)
  BY <1>0
<1>4. McpTypes
  <2>1. rows \in [Names -> MaybeConfig] /\ configs \in [Names -> MaybeConfig]
    BY <1>0, <1>1 DEF MaybeConfig
  <2>2. clients \in [Names -> Clients \cup {NoClient}] /\ connected \subseteq Clients
    BY <1>0, <1>2, ClientsDiffer
  <2>3. /\ mcpFailed \in BOOLEAN /\ mcpLock \in McpRequests \cup {NoClient}
        /\ DOMAIN mcpAt = McpRequests /\ DOMAIN read = McpRequests
    BY <1>0
  <2> QED
    BY <1>0, <2>1, <2>2, <2>3 DEF McpTypes
<1>5. McpSane(cast)
  <2>1. \A q \in McpRequests : mcpAt[q] \in Stages(q) /\ ~Locks(q) /\ mcpLock # q
    BY <1>0, <1>3, McpAssumption DEF Stages, Locks
  <2>2. \A q \in McpRequests : ReadTrue(q)
    BY <1>3, McpAssumption DEF ReadTrue, Waits
  <2> QED
    BY <1>3, <1>4, <2>1, <2>2 DEF McpSane
<1>6. \A q \in McpRequests : ~InHand(q) /\ ~Takeout(q) /\ ~Sets(q)
  BY <1>3 DEF InHand, Takeout, Sets
<1>7. \A n \in Names : clients[n] = (IF loaded(n) THEN Client(loader, n) ELSE NoClient)
                       /\ configs[n] = (IF loaded(n) THEN Row ELSE NoClient)
  BY <1>0
<1>8. Connections
  <2> SUFFICES ASSUME NEW q \in McpRequests, NEW n \in Names
               PROVE  Client(q, n) \in connected <=> clients[n] = Client(q, n)
    BY <1>6 DEF Connections
  <2> QED
    BY <1>0, <1>2, <1>7, ClientsDiffer
<1>9. Bearers
  BY <1>2, <1>7 DEF Bearers, HandedOver
<1>10. Matched
  BY <1>0, <1>1, <1>2, <1>6, <1>7, ClientsDiffer DEF Matched, Emptied
<1>11. ASSUME Compatible(cast) PROVE Kept(cast)
  <2> SUFFICES ASSUME NEW q \in cast, Brings(q)
               PROVE  Room(cast, q) /\ Occupied(cast, q) /\ Removed(cast, q) /\ Unlisted(cast, q)
    BY DEF Kept
  <2>1. cast \subseteq McpRequests /\ NewName[q] \in Names
    BY McpAssumption
  <2>2. Room(cast, q)
    BY <1>0, <1>1, <1>6, <1>7, <2>1 DEF Room, Vacant
  <2>3. Occupied(cast, q) /\ Removed(cast, q)
    BY <1>3, <2>1 DEF Occupied, Removed
  <2>4. Lists(cast) => NewName[q] \notin Stored
    BY <1>11 DEF Compatible, BringsAlone
  <2>5. Unlisted(cast, q)
    BY <1>0, <1>3, <2>1, <2>4, McpAssumption DEF Unlisted, Waits
  <2> QED
    BY <2>2, <2>3, <2>5
<1> QED
  BY <1>0, <1>5, <1>8, <1>9, <1>10, <1>11 DEF ServersInv, InStep

LEMMA ServersAgree ==
    ASSUME NEW cast, ServersInv(cast)
    PROVE  ClientsAgree
<1>0. McpSane(cast) /\ McpTypes /\ InStep
  BY DEF ServersInv, McpSane
<1>1. ToolsCallTheirClient
  <2> SUFFICES ASSUME mcpLock = NoClient, NEW n \in Names \ overrun
               PROVE  /\ tools[n] = clients[n]
                      /\ clients[n] # NoClient => clients[n] \in connected
                      /\ clients[n] # NoClient <=> configs[n] # NoClient /\ configs[n].enabled
    BY DEF ToolsCallTheirClient
  <2>1. ~Emptied(n)
    BY <1>0, McpAssumption DEF McpSane, Locks, Emptied, Takeout
  <2>2. clients[n] # NoClient => clients[n] \in connected
    BY <1>0 DEF InStep, Bearers, Connections
  <2> QED
    BY <1>0, <2>1, <2>2 DEF InStep, Matched
<1>2. NoClientLeaks
  <2> SUFFICES ASSUME NEW c \in connected
               PROVE  (\E n \in Names : clients[n] = c) \/ Holding(c[1]) \/ c[2] \in overrun
    BY DEF NoClientLeaks
  <2> PICK q \in McpRequests, n \in Names : c = Client(q, n) /\ c[1] = q /\ c[2] = n
    BY <1>0, ClientsDiffer, ClientNamed DEF McpTypes
  <2>1. n \in overrun \/ clients[n] = c \/ InHand(q)
    BY <1>0 DEF InStep, Connections
  <2> QED
    BY <2>1 DEF InHand, Holding
<1>3. Compatible(mcpCast) => overrun = {}
  BY DEF ServersInv
<1> QED
  BY <1>1, <1>2, <1>3 DEF ClientsAgree

\* Whatever requests on MCP servers overlap (api/routes/mcp.py): no tool calls a closed client,
\* no server is without its client and no connection is left that nobody will close, but under a
\* name where an add or a rename was put over a client; and no such name is there if the
\* requests are compatible.
THEOREM ClientsStayAgreed == McpSpec => []ClientsAgree
<1> DEFINE Inv == \E cast \in McpCasts : ServersInv(cast)
<1>1. McpInit => Inv
  BY ServersStart DEF McpInit
<1>2. Inv /\ [McpNext]_mcpVars => Inv'
  <2> SUFFICES ASSUME NEW cast \in McpCasts, ServersInv(cast), [McpNext]_mcpVars PROVE ServersInv(cast)'
    OBVIOUS
  <2> QED
    BY ServersStep, McpAssumption
<1>3. Inv => ClientsAgree
  BY ServersAgree
<1> HIDE DEF Inv
<1> QED
  BY <1>1, <1>2, <1>3, PTL DEF McpSpec

=============================================================================
