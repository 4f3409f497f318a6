----------------------------- MODULE BootStatus -----------------------------
(***************************************************************************)
(* wqm1-status.txt (diagnostics/boot_status.py), what a unit that never got  *)
(* online is judged by: the firmware, the boot fallback, the joins and the  *)
(* retry each rewrite the whole file, with the lines they know and those of *)
(* the file before.  It is kept twice, in /var/lib/bluesignal and on the    *)
(* FAT partition.  Some writers are root and write both copies; the others  *)
(* are user pi, and have a helper copy the first to the second.             *)
(*                                                                         *)
(* No lock is held, and every writer of a copy uses one temporary name: two *)
(* that overlap may write into one file, or rename each other's.  A call may *)
(* fail for a writer that is alone, too: the card is full or read-only, the   *)
(* helper is refused, fails or is stopped after its ten seconds.            *)
(*                                                                         *)
(* Abstracted: the lines, of which there are three kinds; a file that was   *)
(* opened for writing is blank until its text is flushed.                   *)
(***************************************************************************)
EXTENDS Naturals, Sequences, FiniteSets

CONSTANTS
    Writer,         \* the programs that write
    Root,           \* those that run as root
    Says,           \* the lines each of them knows
    Value,          \* line -> what may be said of it
    History,        \* JOIN_HISTORY
    MaxWrites,      \* bound on writes
    MaxTroubles     \* bound on failed file operations, kills and power cuts

Line == {"hotspot", "adc", "joins"}
File == {"state", "fat"}

ASSUME StatusAssumption ==
    /\ IsFiniteSet(Writer) /\ Root \subseteq Writer /\ Says \in [Writer -> SUBSET Line]
    /\ DOMAIN Value = Line /\ History \in Nat \ {0} /\ MaxWrites \in Nat /\ MaxTroubles \in Nat

NoInode == 0

VARIABLES
    named,          \* file -> inode with the name of the copy
    tmp,            \* file -> inode with the temporary name
    inode,          \* inode -> its text
    owner,          \* inode -> the user who created it
    doing,          \* writer -> what it is about to do, and to which copy
    line, text,     \* writer -> what it reports, and the text it composed
    fd,             \* writer -> the inode it has open
    writes, troubles,
    (* history *)
    said,           \* line -> what was last said of it
    doubt,          \* lines whose last word may have been lost
    whole,          \* the last write to begin has had the files to itself
    blurred         \* two writes overlapped, or one was cut or failed, since a whole one

statusVars == <<named, tmp, inode, owner, doing, line, text, fd, writes, troubles,
                said, doubt, whole, blurred>>

Idle == [do |-> "idle", file |-> "state"]
To(do, f) == [do |-> do, file |-> f]
Busy == {w \in Writer : doing[w] # Idle}

Blank == <<>>
Unsaid == [l \in Line |-> CASE l = "hotspot" -> "probed" [] l = "adc" -> "unknown" [] OTHER -> <<>>]

Inode == 1..(2 * Cardinality(File) + Cardinality(Writer))

StatusInit ==
    /\ named = [f \in File |-> NoInode] /\ tmp = [f \in File |-> NoInode]
    /\ inode = [i \in Inode |-> Blank] /\ owner = [i \in Inode |-> "root"]
    /\ doing = [w \in Writer |-> Idle]
    /\ line = [w \in Writer |-> "adc"]
    /\ text = [w \in Writer |-> Blank] /\ fd = [w \in Writer |-> NoInode]
    /\ writes = 0 /\ troubles = 0
    /\ said = Unsaid /\ doubt = {} /\ whole = TRUE /\ blurred = FALSE

-----------------------------------------------------------------------------
(* What a reader finds, and what a writer makes of it.                      *)

Content(f) == IF named[f] = NoInode THEN Blank ELSE inode[named[f]]

\* The first copy that has a line in it.
Published ==
    IF Content("state") # Blank THEN Content("state")
    ELSE IF Content("fat") # Blank THEN Content("fat")
    ELSE Unsaid

\* Another write has opened what has the name by now.
Torn == named["state"] # NoInode /\ Content("state") = Blank

\* Fault: a line that was not given is probed again, not kept.
ProbedAgain(l, v) == [Unsaid EXCEPT ![l] = v]

\* A line that was not given is kept.
Composed(l, v) == [Published EXCEPT ![l] = v]

\* The join attempts, newest first.
WithAttempt(s, a) == SubSeq(<<a>> \o s, 1, IF Len(s) < History THEN Len(s) + 1 ELSE History)

\* Who opens the temporary file of a copy: the helper is root.
User(w) == IF w \in Root \/ doing[w].file = "fat" THEN "root" ELSE "pi"

Used == {named[f] : f \in File} \cup {tmp[f] : f \in File} \cup {fd[w] : w \in Writer}
FreshInode == CHOOSE i \in Inode \ Used : TRUE

\* An error of the first copy ends a writer that is not root, and no helper is
\* called; the second copy is the last one of each.
GivesUp(w) ==
    /\ fd' = [fd EXCEPT ![w] = NoInode]
    /\ doing' = [doing EXCEPT ![w] = IF w \in Root /\ @.file = "state" THEN To("open", "fat") ELSE Idle]

\* Another writer is the reason.
Fails(w) ==
    /\ GivesUp(w)
    /\ doubt' = doubt \cup {line[w]} /\ whole' = FALSE

-----------------------------------------------------------------------------
(* One call of write_boot_status.                                           *)

\* It reads the copy there is and composes the text.
Begin(w, l, v) ==
    /\ doing[w] = Idle /\ l \in Says[w] /\ writes < MaxWrites
    /\ line' = [line EXCEPT ![w] = l]
    /\ text' = [text EXCEPT ![w] =
           Composed(l, IF l = "joins" THEN WithAttempt(Published["joins"], v) ELSE v)]
    /\ doing' = [doing EXCEPT ![w] = To("open", "state")]
    /\ writes' = writes + 1
    /\ said' = [said EXCEPT ![l] = IF l = "joins" THEN WithAttempt(@, v) ELSE v]
    /\ IF Busy = {}
       THEN doubt' = (IF l = "joins" THEN doubt ELSE doubt \ {l}) /\ UNCHANGED blurred
       ELSE doubt' = (IF Torn THEN Line ELSE doubt \cup {l} \cup {line[x] : x \in Busy}) /\ blurred' = TRUE
    /\ whole' = (Busy = {})
    /\ UNCHANGED <<named, tmp, inode, owner, fd, troubles>>

\* Root may truncate what another writer has open; pi may not open what root
\* left, and removes it, since the directory is its own.
OpenTmp(w) ==
    LET f == doing[w].file
        i == IF tmp[f] = NoInode THEN FreshInode ELSE tmp[f]
    IN  /\ doing[w].do = "open"
        /\ IF tmp[f] # NoInode /\ owner[i] = "root" /\ User(w) = "pi"
           THEN /\ tmp' = [tmp EXCEPT ![f] = NoInode]
                /\ Fails(w)
                /\ UNCHANGED <<inode, owner>>
           ELSE /\ tmp' = [tmp EXCEPT ![f] = i]
                /\ inode' = [inode EXCEPT ![i] = Blank]
                /\ owner' = IF tmp[f] = NoInode THEN [owner EXCEPT ![i] = User(w)] ELSE owner
                /\ fd' = [fd EXCEPT ![w] = i]
                /\ doing' = [doing EXCEPT ![w] = To("write", f)]
                /\ UNCHANGED <<doubt, whole>>
        /\ UNCHANGED <<named, line, text, writes, troubles, said, blurred>>

\* The helper copies what the first copy is by then.
Copying(w) == w \notin Root /\ doing[w].file = "fat"
Flushed(w) == IF Copying(w) THEN Content("state") ELSE text[w]

\* The mode is set by name, while the file is open: another writer may have
\* taken the name away, or given it to a file of root's.
ModeRefused(w) ==
    LET i == tmp[doing[w].file]
    IN  ~Copying(w) /\ (i = NoInode \/ (owner[i] = "root" /\ User(w) = "pi"))

WriteTmp(w) ==
    /\ doing[w].do = "write"
    /\ inode' = [inode EXCEPT ![fd[w]] = Flushed(w)]
    /\ IF ModeRefused(w)
       THEN tmp' = [tmp EXCEPT ![doing[w].file] = NoInode] /\ Fails(w)
       ELSE /\ doing' = [doing EXCEPT ![w] = To("rename", @.file)] /\ fd' = [fd EXCEPT ![w] = NoInode]
            /\ UNCHANGED <<tmp, doubt, whole>>
    /\ UNCHANGED <<named, owner, line, text, writes, troubles, said, blurred>>

\* The name goes to whichever file has the temporary one by then.
RenameTmp(w) ==
    LET f == doing[w].file
    IN  /\ doing[w].do = "rename"
        /\ IF tmp[f] = NoInode THEN Fails(w) /\ UNCHANGED <<named, tmp, blurred>>
           ELSE /\ named' = [named EXCEPT ![f] = tmp[f]]
                /\ tmp' = [tmp EXCEPT ![f] = NoInode]
                /\ doing' = [doing EXCEPT ![w] = IF f = "state" THEN To("open", "fat") ELSE Idle]
                /\ blurred' = (blurred /\ ~(f = "fat" /\ whole))
                /\ UNCHANGED <<fd, doubt, whole>>
        /\ UNCHANGED <<inode, owner, line, text, writes, troubles, said>>

\* A call fails on its own: what was to be flushed may be in the file or not, and
\* the temporary file is removed or, by the helper or on a read-only card, left.  A
\* copy on the card that fails costs the card, not the unit's own copy.
OperationFails(w) ==
    LET f == doing[w].file
    IN  /\ doing[w].do # "idle" /\ troubles < MaxTroubles /\ troubles' = troubles + 1
        /\ \/ UNCHANGED inode
           \/ doing[w].do = "write" /\ inode' = [inode EXCEPT ![fd[w]] = Flushed(w)]
        /\ \/ UNCHANGED tmp
           \/ ~Copying(w) /\ tmp' = [tmp EXCEPT ![f] = NoInode]
        /\ GivesUp(w)
        /\ doubt' = (IF Torn \/ Busy # {w} THEN Line
                     ELSE IF f = "state" THEN doubt \cup {line[w]} ELSE doubt)
        /\ whole' = FALSE /\ blurred' = TRUE
        /\ UNCHANGED <<named, owner, line, text, writes, said>>

\* Some writers are killed, or the power is cut: what was opened stays.
Killed(W) ==
    /\ W # {} /\ W \subseteq Busy /\ troubles < MaxTroubles
    /\ doing' = [w \in Writer |-> IF w \in W THEN Idle ELSE doing[w]]
    /\ fd' = [w \in Writer |-> IF w \in W THEN NoInode ELSE fd[w]]
    /\ troubles' = troubles + 1
    /\ doubt' = IF whole THEN doubt \cup {line[w] : w \in W} ELSE Line
    /\ whole' = FALSE /\ blurred' = TRUE
    /\ UNCHANGED <<named, tmp, inode, owner, line, text, writes, said>>

StatusNext ==
    \/ \E w \in Writer : OpenTmp(w) \/ WriteTmp(w) \/ RenameTmp(w) \/ OperationFails(w)
    \/ \E w \in Writer : \E l \in Says[w] : \E v \in Value[l] : Begin(w, l, v)
    \/ \E W \in SUBSET Writer : Killed(W)

StatusSpec == StatusInit /\ [][StatusNext]_statusVars

-----------------------------------------------------------------------------
(* Properties.                                                              *)

StatusTypeOK ==
    /\ named \in [File -> Inode \cup {NoInode}] /\ tmp \in [File -> Inode \cup {NoInode}]
    /\ \A i \in Inode : inode[i] = Blank \/ DOMAIN inode[i] = Line
    /\ owner \in [Inode -> {"root", "pi"}]
    /\ doing \in [Writer -> [do : {"idle", "open", "write", "rename"}, file : File]]
    /\ line \in [Writer -> Line] /\ fd \in [Writer -> Inode \cup {NoInode}]
    /\ writes \in 0..MaxWrites /\ troubles \in 0..MaxTroubles
    /\ doubt \subseteq Line /\ whole \in BOOLEAN /\ blurred \in BOOLEAN

\* What the file says of a line is the last thing said of it, whoever else wrote
\* since, wherever the power was cut and whatever failed; the card has what the unit
\* has.  Lines of writes that overlapped, were cut or could not write the first copy
\* are excepted until they are said again (all of them, when one of the overlapping
\* writes was cut or failed, or another began on what they had torn), and the card
\* from a failed copy until the next write that is alone and does not fail: a write
\* that only the card refuses leaves no line of the unit's own copy in doubt
\* (boot_status.py, write_boot_status, _write_atomic, _sudo_publish).
CardTellsTheTruth ==
    Busy = {} =>
        /\ \A l \in Line \ doubt : Published[l] = said[l]
        /\ ~blurred => Content("fat") = Content("state")

\* "The access-point script does not wipe a sensor fault, and the firmware does not
\* wipe a hotspot line it did not just measure" (boot_status.py).
OthersLinesStay ==
    Busy = {} /\ troubles = 0 => \A l \in Line : Published[l] = said[l]

\* "A power cut still leaves a readable wqm1-status.txt" (boot_status.py).
StaysReadable == named["fat"] # NoInode => Content("fat") # Blank

\* The file "is rewritten on boot and whenever the sensor or radio state changes"
\* (boot_status.py), also after a writer was cut: a write that is alone lands.
AloneItLands ==
    [][\A w \in Writer : doing[w].file = "state" /\ doing'[w] = Idle /\ Busy = {w} =>
           ~whole \/ troubles' # troubles]_statusVars
=============================================================================
