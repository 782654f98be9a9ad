------------------------------- MODULE MCPeople -----------------------------
(* People and the portal: who may do what, how they sign in, the copies of settings and screens    *)
(* they are answered from, the files they keep and the checklists they work by.  The parts share   *)
(* no state here, so each behaviour is one of one of them.                                         *)
EXTENDS Access, SignIn, Settings, ScreenCache, Files, Checklist, TLC

VARIABLE part       \* whose behaviour this one is

AnySchedule == {[daily |-> TRUE, dates |-> {1, 2}], [daily |-> FALSE, dates |-> {2}]}
OneDayOff == {{1}, {2}}

Same == Permutations(MemberKeys) \cup Permutations(Clerks)

(* The members while another part moves. *)
AccessIdle ==
    /\ member = [m \in MemberKeys |-> [role |-> "admin", enabled |-> TRUE, mustChange |-> FALSE]]
    /\ errand = [c \in Clerks |-> NoErrand] /\ crossed = FALSE
    /\ rolePages = {} /\ exception = [m \in MemberKeys |-> NoException] /\ pending = [m \in MemberKeys |-> 0]

PeopleInit ==
    /\ part \in {"access", "signIn", "settings", "screens", "files", "checklist"}
    /\ IF part = "access" THEN AccessInit ELSE AccessIdle
    /\ SignInInit /\ SettingsInit /\ ScreenInit /\ FilesInit /\ ChecklistInit

PeopleNext ==
    /\ \/ /\ part = "access" /\ AccessNext
          /\ UNCHANGED <<signInVars, settingsVars, screenVars, fileVars, today, checklistVars>>
       \/ /\ part = "signIn" /\ SignInNext
          /\ UNCHANGED <<memberVars, accessVars, settingsVars, screenVars, fileVars, today, checklistVars>>
       \/ /\ part = "settings" /\ SettingsNext
          /\ UNCHANGED <<memberVars, accessVars, signInVars, screenVars, fileVars, today, checklistVars>>
       \/ /\ part = "screens" /\ ScreenNext
          /\ UNCHANGED <<memberVars, accessVars, signInVars, settingsVars, fileVars, today, checklistVars>>
       \/ /\ part = "files" /\ FilesNext
          /\ UNCHANGED <<memberVars, accessVars, signInVars, settingsVars, screenVars, today, checklistVars>>
       \/ /\ part = "checklist" /\ ChecklistNext
          /\ UNCHANGED <<memberVars, accessVars, signInVars, settingsVars, screenVars, fileVars>>
    /\ UNCHANGED part

PeopleSpec == PeopleInit /\ [][PeopleNext]_<<part, memberVars, accessVars, signInVars, settingsVars,
                                             screenVars, fileVars, today, checklistVars>>

\* The state of every part has the shapes its module declares.
PeopleTypeOK ==
    /\ part = "access" => AccessTypeOK
    /\ part = "signIn" => SignInTypeOK
    /\ part = "settings" => SettingsTypeOK
    /\ part = "screens" => ScreenTypeOK
    /\ part = "files" => FilesTypeOK
    /\ part = "checklist" => ChecklistTypeOK
=============================================================================
