------------------------------ MODULE Installer ------------------------------
(***************************************************************************)
(* `tmux-web install-integration` for claude (cmd/tmux-web/install.go):    *)
(* the files tmux-web owns, the settings.json the user owns and the        *)
(* command merges into, and runs of the command that plan, ask, and then   *)
(* write one file after the other -- beside other runs, beside the user    *)
(* who edits his files, and dying at any point.                            *)
(*                                                                         *)
(* A run belongs to a version of tmux-web.  The other agents are the       *)
(* command without the settings.  Of settings.json only the lists of hook  *)
(* entries are modelled: what the command does not parse comes back as it  *)
(* was.                                                                    *)
(***************************************************************************)
EXTENDS Filter

CONSTANTS
    Files,          \* the owned files, in the order of the agent's spec
    Event,          \* events of settings.json with a list of hook entries
    Version,        \* the versions of tmux-web, by the schema of their files
    Registers,      \* version -> ClaudeHookEvents
    Own,            \* hook entries of the user's
    Run,            \* runs of the command
    MaxEdits,       \* bound on what the user does to his files
    EditsMeanwhile  \* whether he does it while a run is under way, too

ASSUME FilesAssumption == Files \in Seq(STRING) /\ Files # <<>>
ASSUME VersionAssumption == Version \subseteq Nat \ {0} /\ Registers \in [Version -> SUBSET Event]
ASSUME BoundAssumption == MaxEdits \in Nat /\ EditsMeanwhile \in BOOLEAN

File == {Files[i] : i \in 1 .. Len(Files)}

\* An entry whose command names our script: as we write it, or changed by the user.
Ours == {"ours", "edited"}
ASSUME OwnAssumption == Own \cap Ours = {}

Absent == 0
Foreign == -1
Contents == Version \cup {Absent, Foreign}
Settings == [Event -> Seq(Own \cup Ours)]

VARIABLES
    owned,      \* owned file -> the schema in its header, Absent or Foreign
    settings,   \* settings.json
    broken,     \* settings.json is not JSON
    at,         \* run -> where it is
    ask,        \* run -> its version, and whether it removes
    plan,       \* run -> its installPlan, with the index of the file it comes to next
    own,        \* the user's entries, as he left them
    foreign,    \* the files he put where ours go
    quiet,      \* run -> nobody who wants something else has written since it began
    edits

userVars == <<own, foreign, edits>>
installVars == <<owned, settings, broken, at, ask, plan, userVars, quiet>>

\* found is the owned files that exist; merged is the settings to be written, if
\* the merge changes them.
Plan == [next : 1 .. Len(Files) + 1, found : SUBSET File, writes : BOOLEAN, merged : Settings]
NoSettings == [e \in Event |-> <<>>]
NoPlan == [next |-> 1, found |-> {}, writes |-> FALSE, merged |-> NoSettings]

OwnEntries(q) == Those(q, Own)
OurEntries(q) == Those(q, Ours)

InstallInit ==
    /\ owned = [f \in File |-> Absent]
    /\ settings \in [Event -> {<<>>} \cup {<<o>> : o \in Own}] /\ broken = FALSE
    /\ at = [r \in Run |-> "idle"]
    /\ ask \in [Run -> [version : Version, remove : BOOLEAN]]
    /\ plan = [r \in Run |-> NoPlan]
    /\ own = settings /\ foreign = {}
    /\ quiet = [r \in Run |-> TRUE] /\ edits = 0

-----------------------------------------------------------------------------
(* The merge *)

\* Mistake: by the event's name: whatever stands in a list of ours is taken for ours.
MergeByName(q, wanted) == IF wanted THEN <<"ours">> ELSE <<>>

\* Mistake: every entry of ours is brought up to date where it is wanted, a copy as well.
MergeEach(q, wanted) ==
    IF ~wanted THEN OwnEntries(q)
    ELSE IF OwnEntries(q) = q THEN Append(q, "ours")
    ELSE [i \in DOMAIN q |-> IF q[i] \in Own THEN q[i] ELSE "ours"]

\* How many entries stand before the first of ours, if there is one of ours.
Leading(q) ==
    CHOOSE n \in 0 .. Len(q) :
        (\A i \in 1 .. n : q[i] \in Own) /\ (n < Len(q) => q[n + 1] \notin Own)

\* mergeClaudeHooks for one event: ours is dropped where it is not wanted; where it
\* is, the first one is replaced in place, or appended if there is none, and every
\* copy behind it is dropped.
Merge(q, wanted) ==
    LET n == Leading(q)
    IN IF wanted
       THEN SubSeq(q, 1, n) \o <<"ours">> \o OwnEntries(SubSeq(q, n + 1, Len(q)))
       ELSE OwnEntries(q)

\* desiredClaudeEntries: the events this run wants an entry of ours for.
Wants(r) == IF ask[r].remove THEN {} ELSE Registers[ask[r].version]

MergeAll(r) == [e \in Event |-> Merge(settings[e], e \in Wants(r))]

-----------------------------------------------------------------------------
(* Planning *)

\* A run ends, done or not, and its plan with it.
End(r, how) ==
    /\ at' = [at EXCEPT ![r] = how]
    /\ plan' = [plan EXCEPT ![r] = NoPlan]

Start(r) ==
    /\ at[r] = "idle"
    /\ at' = [at EXCEPT ![r] = "check"]
    /\ UNCHANGED <<owned, settings, broken, ask, plan, userVars, quiet>>

\* ownerOf the next file.  One that is not ours refuses the whole run; so does one
\* that cannot be read, or a new content that does not validate.
Check(r) ==
    /\ at[r] = "check"
    /\ LET i == plan[r].next
           f == Files[i]
           found == plan[r].found \cup IF owned[f] = Absent THEN {} ELSE {f}
           Looked(next) == [next |-> next, found |-> found, writes |-> FALSE, merged |-> NoSettings]
       IN \/ End(r, "over")
          \/ /\ owned[f] # Foreign
             /\ IF i < Len(Files)
                THEN plan' = [plan EXCEPT ![r] = Looked(i + 1)] /\ UNCHANGED at
                ELSE /\ plan' = [plan EXCEPT ![r] = Looked(1)]
                     /\ at' = [at EXCEPT ![r] = "merge"]
    /\ UNCHANGED <<owned, settings, broken, ask, userVars, quiet>>

\* planSettings, and empty: a merge that changes nothing is not written, and a plan
\* that writes nothing ends the run.
PlanSettings(r) ==
    /\ at[r] = "merge"
    /\ LET changed == MergeAll(r) # settings
           empty == ask[r].remove /\ plan[r].found = {} /\ ~changed
       IN \/ broken /\ End(r, "over")
          \/ ~broken /\ empty /\ End(r, "done")
          \/ /\ ~broken /\ ~empty
             /\ at' = [at EXCEPT ![r] = "confirm"]
             /\ plan' = [plan EXCEPT ![r] = [next |-> 1, found |-> @.found, writes |-> changed,
                                             merged |-> IF changed THEN MergeAll(r) ELSE NoSettings]]
    /\ UNCHANGED <<owned, settings, broken, ask, userVars, quiet>>

\* The user takes his time; anything but a yes is a no.
Confirm(r) ==
    /\ at[r] = "confirm"
    /\ \/ at' = [at EXCEPT ![r] = "apply"] /\ UNCHANGED plan
       \/ End(r, "over")
    /\ UNCHANGED <<owned, settings, broken, ask, userVars, quiet>>

-----------------------------------------------------------------------------
(* Applying *)

\* What a run that has begun and wants something else finds changed.
Disturb(r) == quiet' = [q \in Run |-> quiet[q] /\ (at[q] = "idle" \/ ask[q] = ask[r])]

\* apply, one file: removed if it was found, or replaced by the run's own.
ApplyFile(r) ==
    /\ at[r] = "apply" /\ plan[r].next <= Len(Files)
    /\ plan' = [plan EXCEPT ![r].next = @ + 1]
    /\ LET f == Files[plan[r].next] IN
       IF ~ask[r].remove \/ f \in plan[r].found
       THEN /\ owned' = [owned EXCEPT ![f] = IF ask[r].remove THEN Absent ELSE ask[r].version]
            /\ Disturb(r)
       ELSE UNCHANGED <<owned, quiet>>
    /\ UNCHANGED <<settings, broken, at, ask, userVars>>

\* apply's last write: the settings as they were merged in the plan.
ApplySettings(r) ==
    /\ at[r] = "apply" /\ plan[r].next > Len(Files)
    /\ End(r, "done")
    /\ IF plan[r].writes
       THEN settings' = plan[r].merged /\ broken' = FALSE /\ Disturb(r)
       ELSE UNCHANGED <<settings, broken, quiet>>
    /\ UNCHANGED <<owned, ask, userVars>>

\* A write fails and ends the run, or the run is killed between two of its writes.
\* What a write replaces is replaced in one step, or not at all.
Abandon(r) ==
    /\ at[r] = "apply"
    /\ End(r, "over")
    /\ UNCHANGED <<owned, settings, broken, ask, userVars, quiet>>

-----------------------------------------------------------------------------
(* The user *)

UnderWay == \E r \in Run : at[r] \in {"check", "merge", "confirm", "apply"}

\* An edit of the user's, after which no run is what it was planned to be.
Edit ==
    /\ edits < MaxEdits /\ (EditsMeanwhile \/ ~UnderWay)
    /\ edits' = edits + 1
    /\ quiet' = [r \in Run |-> quiet[r] /\ at[r] = "idle"]
    /\ UNCHANGED <<at, ask, plan>>

\* He puts a file of his own where ours goes, or takes away what is there.
PutFile ==
    /\ Edit
    /\ \E f \in File, c \in {Absent, Foreign} :
           /\ owned' = [owned EXCEPT ![f] = c]
           /\ foreign' = IF c = Foreign THEN foreign \cup {f} ELSE foreign \ {f}
    /\ UNCHANGED <<settings, broken, own>>

\* An entry is added in front of or behind the others, one of ours is changed or
\* copied, or an entry is taken out.
Edited(q) ==
    LET ours == {i \in 1 .. Len(q) : q[i] \in Ours}
    IN UNION {{<<o>> \o q : o \in Own}, {Append(q, o) : o \in Own},
              {[q EXCEPT ![i] = "edited"] : i \in ours}, {Append(q, q[i]) : i \in ours},
              {SubSeq(q, 1, i - 1) \o SubSeq(q, i + 1, Len(q)) : i \in 1 .. Len(q)}}

\* He changes the list of an event.
EditHooks ==
    /\ Edit /\ ~broken
    /\ \E e \in Event : \E q \in Edited(settings[e]) :
           /\ settings' = [settings EXCEPT ![e] = q]
           /\ own' = [own EXCEPT ![e] = OwnEntries(q)]
    /\ UNCHANGED <<owned, broken, foreign>>

\* He leaves settings.json as something that is not JSON, or mends it.
BreakSettings ==
    /\ Edit
    /\ broken' = ~broken
    /\ UNCHANGED <<owned, settings, own, foreign>>

-----------------------------------------------------------------------------

InstallNext ==
    \/ \E r \in Run : Start(r) \/ Check(r) \/ PlanSettings(r) \/ Confirm(r)
    \/ \E r \in Run : ApplyFile(r) \/ ApplySettings(r) \/ Abandon(r)
    \/ PutFile \/ EditHooks \/ BreakSettings

InstallSpec == InstallInit /\ [][InstallNext]_installVars

-----------------------------------------------------------------------------
(* Properties *)

InstallTypeOK ==
    /\ owned \in [File -> Contents] /\ settings \in Settings /\ broken \in BOOLEAN
    /\ at \in [Run -> {"idle", "check", "merge", "confirm", "apply", "done", "over"}]
    /\ ask \in [Run -> [version : Version, remove : BOOLEAN]] /\ plan \in [Run -> Plan]
    /\ own \in [Event -> Seq(Own)] /\ foreign \subseteq File
    /\ quiet \in [Run -> BOOLEAN] /\ edits \in 0 .. MaxEdits

\* What is not ours stays as the user left it -- his files, and his entries of
\* every event in his order -- whatever runs have done, half done or undone beside
\* each other.  (Rules 1 and 2 of install.go; while he does not edit under a run.)
UserKeepsHisOwn ==
    /\ \A e \in Event : OwnEntries(settings[e]) = own[e]
    /\ {f \in File : owned[f] = Foreign} = foreign

\* What a run that ends well was asked for.
Target(r) == IF ask[r].remove THEN Absent ELSE ask[r].version
EntriesAsAsked(r, hooks) ==
    \A e \in Event : OurEntries(hooks[e]) = IF e \in Wants(r) THEN <<"ours">> ELSE <<>>

AsAsked(r) ==
    /\ \A f \in File : owned[f] = Target(r)
    /\ EntriesAsAsked(r, settings) /\ ~broken

\* A run that says it is done leaves what it was asked for, entire: whatever earlier
\* runs -- of other versions, refused, failed or killed half way -- and the user had
\* left, and also beside a run that wants the same.
DoneIsDone == \A r \in Run : at[r] = "done" /\ quiet[r] => AsAsked(r)

-----------------------------------------------------------------------------
(* What makes them inductive.                                              *)

\* A run's way through the files is where its place says.
PlansFit ==
    \A r \in Run :
        /\ at[r] = "idle" => plan[r] = NoPlan
        /\ at[r] = "check" => plan[r].next <= Len(Files)
        /\ at[r] \in {"merge", "confirm"} => plan[r].next = 1

\* The files a run has looked at.
Checked(r) ==
    {Files[i] : i \in {j \in 1 .. Len(Files) :
                           (at[r] = "check" /\ j < plan[r].next) \/ at[r] \in {"merge", "confirm", "apply"}}}

\* The settings a run has planned to write.
Planned(r) == at[r] \in {"confirm", "apply"} /\ plan[r].writes

\* None of a run's files is the user's, and its settings keep his entries as they are.
PlansSpareHisOwn ==
    \A r \in Run :
        /\ Checked(r) \cap foreign = {}
        /\ Planned(r) => \A e \in Event : OwnEntries(plan[r].merged[e]) = own[e]

\* A run's settings are what it was asked for, whoever writes in between.
PlansAreAsAsked == \A r \in Run : Planned(r) => EntriesAsAsked(r, plan[r].merged)

\* What a run leaves as it is, and what it has written, is what it was asked for.
HalfDone ==
    \A r \in Run : quiet[r] =>
        /\ at[r] \in {"confirm", "apply"} => ~broken /\ (plan[r].writes \/ EntriesAsAsked(r, settings))
        /\ ask[r].remove => \A f \in Checked(r) \ plan[r].found : owned[f] = Absent
        /\ at[r] = "apply" => \A i \in 1 .. plan[r].next - 1 : owned[Files[i]] = Target(r)

InstallInv ==
    /\ InstallTypeOK /\ PlansFit /\ PlansAreAsAsked /\ HalfDone /\ DoneIsDone
    /\ EditsMeanwhile \/ (PlansSpareHisOwn /\ UserKeepsHisOwn)

=============================================================================
