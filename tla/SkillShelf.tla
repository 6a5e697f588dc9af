----------------------------- MODULE SkillShelf ------------------------------
(***************************************************************************)
(* The skills of one user: the directories the installer writes            *)
(* (agent/skills/installer.py), the rows that say which of them and of the *)
(* bundled skills the user sees (SkillRepository), and the requests of     *)
(* api/routes/skills.py that keep the two together.  What a turn gets is   *)
(* built from both (api/skill_scope.py).                                   *)
(*                                                                         *)
(* A request gives up the event loop while it downloads and at each        *)
(* statement; the installer itself does not.                               *)
(***************************************************************************)
EXTENDS Naturals, FiniteSets

CONSTANTS
    SkillNames,
    Bundled,        \* found at startup, with a row that belongs to nobody
    Folder,         \* _sanitize_name, [SkillNames -> directories]
    Visits,         \* requests
    Asks            \* bound: what each of them may be, [Visits -> <<operation, skill>>]

Empty == "empty"                        \* no skill's name
Operations == {"install", "uninstall", "list", "enable", "disable"}

ASSUME ShelfAssumption ==
    /\ Bundled \subseteq SkillNames /\ Empty \notin SkillNames
    /\ Asks \subseteq [Visits -> Operations \X SkillNames]

NoRow == [type |-> Empty, enabled |-> TRUE]

VARIABLES
    skillRow,   \* SkillModel of the user, by name: where it comes from and whether it is on
    disk,       \* the skill in each directory
    visit,
    owned,      \* history: skills the user has installed and not taken away
    switchedOff,    \* history: skills the user last switched off
    replaced,   \* history: skills another of the same directory was installed over, or might be
    wiped,      \* history: skills whose directory a copy that failed has left empty
    crossed     \* history: a request wrote its rows after another had changed something under it

shelfVars == <<skillRow, disk, visit, owned, switchedOff, replaced, wiped, crossed>>

-----------------------------------------------------------------------------
Asked(v) == visit[v].ask[1]
Skill(v) == visit[v].ask[2]
Reaches(v, at) == visit' = [visit EXCEPT ![v].at = at]
Stands(v, ops, at) == Asked(v) \in ops /\ visit[v].at = at

\* build_user_skill_registry: what the user's rows and the bundled skills come to.  A row
\* whose directory holds another skill brings that one.
Shown(n) == n \in Bundled /\ skillRow[n].enabled
Brought(on) == {disk[Folder[n]] : n \in {m \in SkillNames : skillRow[m].type = "user" /\ (on => skillRow[m].enabled)}} \ {Empty}
Visible == {n \in SkillNames : Shown(n)} \cup Brought(TRUE)

\* The others under way do not see what changes now.
Changes(v, at) ==
    visit' = [u \in Visits |-> IF u = v THEN [visit[u] EXCEPT !.at = at]
                              ELSE [visit[u] EXCEPT !.late = @ \/ visit[u].at \notin {"idle", "over"}]]

WritesRows(v, new) ==
    /\ skillRow' = new /\ Changes(v, "over")
    /\ crossed' = (crossed \/ visit[v].late)

-----------------------------------------------------------------------------
(* Install and upload *)

\* _install_skill_dir removes what is there and copies.
Takes(n) == [disk EXCEPT ![Folder[n]] = n]

InstallSkillDir(v) ==
    LET n == Skill(v) IN
    /\ Stands(v, {"install"}, "idle") /\ Changes(v, "read")
    /\ disk' = Takes(n) /\ owned' = (owned \ {m \in SkillNames : Folder[m] = Folder[n]}) \cup {n}
    /\ replaced' = replaced \cup {m \in SkillNames : m # n /\ Folder[m] = Folder[n]}
    /\ UNCHANGED <<skillRow, switchedOff, wiped, crossed>>

\* The repository, the address or the archive is refused or has no skill: nothing is touched.
FetchFails(v) ==
    /\ Stands(v, {"install"}, "idle") /\ Reaches(v, "over")
    /\ UNCHANGED <<skillRow, disk, owned, switchedOff, replaced, wiped, crossed>>

\* The old skill is gone by then.
CopyFails(v) ==
    LET f == Folder[Skill(v)] IN
    /\ Stands(v, {"install"}, "idle") /\ Changes(v, "over")
    /\ disk' = [disk EXCEPT ![f] = Empty] /\ owned' = owned \ {disk[f]}
    /\ wiped' = wiped \cup ({disk[f]} \ {Empty})
    /\ UNCHANGED <<skillRow, switchedOff, replaced, crossed>>

\* _sync_skill_to_db and _remove_skill_from_db: the rows there are, with the new one.  A row
\* that only switches a bundled skill off is among them.
HasRow(n) == skillRow[n].type # Empty
ReadRows(v) ==
    /\ Stands(v, {"install", "uninstall"}, "read")
    /\ LET have == {n \in SkillNames : HasRow(n)}
           keep == IF Asked(v) = "install" THEN have \cup {visit[v].skill} ELSE have \ {visit[v].skill}
       IN  visit' = [visit EXCEPT ![v] = [@ EXCEPT !.at = "select",
                        !.found = [n \in keep |-> IF n = visit[v].skill THEN "user" ELSE skillRow[n].type]]]
    /\ UNCHANGED <<skillRow, disk, owned, switchedOff, replaced, wiped, crossed>>

\* Mutant: the rows are written anew.
MutantSynced(found) == [n \in SkillNames |-> IF n \in DOMAIN found THEN [type |-> found[n], enabled |-> TRUE] ELSE NoRow]

\* sync_user_skills: rows that are not among those found go; enabled stays as it is.
Synced(found) ==
    [n \in SkillNames |-> IF n \in DOMAIN found THEN [skillRow[n] EXCEPT !.type = found[n]] ELSE NoRow]

SyncUserSkills(v) ==
    /\ visit[v].at = "select"
    /\ WritesRows(v, Synced(visit[v].found))
    /\ switchedOff' = IF Asked(v) = "uninstall" THEN switchedOff \ {visit[v].skill} ELSE switchedOff
    /\ UNCHANGED <<disk, owned, replaced, wiped>>

-----------------------------------------------------------------------------
(* List, uninstall, toggle *)

\* GET /skills reads what is on disk; if that is anything, its rows are all the user keeps.
ListSkills(v) ==
    /\ Stands(v, {"list"}, "idle")
    /\ LET found == Brought(FALSE)
       IN  visit' = [visit EXCEPT ![v] = [@ EXCEPT !.at = IF found = {} THEN "over" ELSE "select",
                                                   !.found = [n \in found |-> "user"]]]
    /\ UNCHANGED <<skillRow, disk, owned, switchedOff, replaced, wiped, crossed>>

\* The skill by that name or, if there is none, by that directory; only one that is installed.
Meant(n) ==
    IF n \in Brought(FALSE) \cup Bundled THEN {n}
    ELSE {m \in Brought(FALSE) : Folder[m] = Folder[n]}

Removable(n) == n \in Brought(FALSE)

FindSkill(v) ==
    /\ Stands(v, {"uninstall"}, "idle")
    /\ \/ \E m \in Meant(Skill(v)) : /\ Removable(m)
                                      /\ visit' = [visit EXCEPT ![v] = [@ EXCEPT !.at = "remove", !.skill = m]]
       \/ ~(\E m \in Meant(Skill(v)) : Removable(m)) /\ Reaches(v, "over")
    /\ UNCHANGED <<skillRow, disk, owned, switchedOff, replaced, wiped, crossed>>

RemoveDir(v) ==
    LET f == Folder[visit[v].skill] IN
    /\ Stands(v, {"uninstall"}, "remove") /\ Changes(v, "read")
    /\ disk' = [disk EXCEPT ![f] = Empty]
    /\ owned' = owned \ {m \in SkillNames : Folder[m] = f}
    /\ UNCHANGED <<skillRow, switchedOff, replaced, wiped, crossed>>

\* set_enabled: a bundled skill gets a row of the user, with its type.
SetEnabled(v) ==
    LET n == Skill(v) IN
    /\ Stands(v, {"enable", "disable"}, "idle")
    /\ IF HasRow(n) \/ n \in Bundled
       THEN /\ WritesRows(v, [skillRow EXCEPT ![n] = [type |-> IF HasRow(n) THEN @.type ELSE "bundled",
                                               enabled |-> Asked(v) = "enable"]])
            /\ switchedOff' = IF Asked(v) = "enable" THEN switchedOff \ {n} ELSE switchedOff \cup {n}
       ELSE Reaches(v, "over") /\ UNCHANGED <<skillRow, switchedOff, crossed>>
    /\ UNCHANGED <<disk, owned, replaced, wiped>>

-----------------------------------------------------------------------------
Folders == {Folder[n] : n \in SkillNames}

ShelfStart(asks) ==
    /\ skillRow = [n \in SkillNames |-> NoRow] /\ disk = [f \in Folders |-> Empty]
    /\ visit = [v \in Visits |-> [ask |-> asks[v], at |-> "idle", skill |-> asks[v][2], found |-> <<>>, late |-> FALSE]]
    /\ owned = {} /\ switchedOff = {} /\ replaced = {} /\ wiped = {} /\ crossed = FALSE

ShelfInit == \E asks \in Asks : ShelfStart(asks)

VisitStep(v) ==
    \/ InstallSkillDir(v) \/ FetchFails(v) \/ CopyFails(v) \/ ReadRows(v) \/ SyncUserSkills(v)
    \/ ListSkills(v) \/ FindSkill(v) \/ RemoveDir(v) \/ SetEnabled(v)

ShelfNext == \E v \in Visits : VisitStep(v)

ShelfSpec == ShelfInit /\ [][ShelfNext]_shelfVars

-----------------------------------------------------------------------------
AtRest == \A v \in Visits : visit[v].at \in {"idle", "over"}

\* A list drops the row that switches a skill off if no directory is found for it, once the
\* user has skills of his own: the skill is bundled, or a copy of it has failed.
Relisted == \E v \in Visits : Asked(v) = "list" /\ DOMAIN visit[v].found # {}

\* When no request is under way, a turn sees the bundled skills and those the user installed,
\* less those he switched off: unless requests crossed or two skills share a directory.  That
\* a bundled skill, or one whose copy has failed and is repeated, stays off ends with a list.
SkillsShown ==
    AtRest /\ ~crossed =>
        \A n \in SkillNames \ replaced :
            /\ n \in Visible => n \in Bundled \cup owned
            /\ n \in (Bundled \cup owned) \ switchedOff => n \in Visible
            /\ n \in switchedOff /\ ~(Relisted /\ n \in Bundled \cup wiped) => n \notin Visible
=============================================================================
