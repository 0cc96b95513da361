------------------------------- MODULE BootLoader -------------------------------
(***************************************************************************)
(* What is done to an inaugurated root before it is booted: the settings   *)
(* of GRUB are edited in place, GRUB is installed from inside the root,    *)
(* the configuration it generates is read back, and the kernel of its      *)
(* default entry is loaded for kexec.  The disk outlives the program,      *)
(* which may be reset at any point, and the next inauguration starts from  *)
(* what is there, for the same label or another.                           *)
(***************************************************************************)
EXTENDS Naturals, Sequences

CONSTANTS
  Labels,            \* the labels that may be inaugurated
  MaxWords,          \* bound on the words of the command line in the settings
  MaxFaults          \* bound on the commands that fail and the resets

VARIABLES
  args,              \* of every inauguration of this station
  image,             \* the label being inaugurated, and what is in it
  settings,          \* /etc/default/grub of the root
  existing,          \* what changeGrubConfiguration has read of it
  boot,              \* path -> the GRUB configuration there, on the boot partition
  grubConfig,        \* the one that was read back
  loaded,            \* what kexec would start
  etcLabel,          \* /etc/inaugurator.label
  stage,             \* the next step, or how the inauguration ended
  cut,               \* the settings were being written at a reset
  faults

disk == <<settings, boot, etcLabel>>
memory == <<image, existing, grubConfig, loaded>>
bootVars == <<args, disk, memory, stage, cut, faults>>

\* A file: there is none, it is not one, or the words of its command line, if it
\* has that line (GRUB_CMDLINE_LINUX), and those of GRUB_CMDLINE_LINUX_DEFAULT, a
\* line that is copied as it is.
NoFile == [kind |-> "none"]
Special == [kind |-> "special"]
NoLine == [kind |-> "file", line |-> FALSE, words |-> <<>>, default |-> <<>>]
Line(words, default) == [kind |-> "file", line |-> TRUE, words |-> words, default |-> default]
HasLine(f) == f.kind = "file" /\ f.line

\* In the image: the words of its settings include a console of its own, in the
\* one line or in both.
ImageFiles ==
  {NoFile, Special, NoLine} \cup
    {Line(<<"quiet", "console=tty1">>, default) : default \in {<<>>, <<"console=tty1">>}}

\* extra: inauguratorExtraDataToGrubCmdLine, none, some, or one with "rhgb silent"
\* in it; consoles: of the kernel that runs inaugurator; passthrough: parameters
\* for the kernel that kexec loads; kept: /etc is among the directories osmosis is
\* to ignore, and before is the file there is to begin with.
Args ==
  {a \in [extra : {"none", "extra", "silent"},
          consoles : {<<>>, <<"ttyS0">>, <<"ttyS0", "tty0">>},
          passthrough : {<<>>, <<"pass">>},
          kept : BOOLEAN, before : ImageFiles] : ~a.kept => a.before = NoFile}

Images == [label : Labels, file : ImageFiles, tools : {"grub2", "grub"}]

Paths == {"grub2", "grub"}
Nothing == [label |-> "nothing", words |-> <<>>]
Config(words) == [label |-> image.label, words |-> words]

BootInit ==
  /\ args \in Args
  /\ image \in Images
  /\ settings = args.before
  /\ existing = NoLine
  /\ boot = [p \in Paths |-> Nothing]
  /\ grubConfig = Nothing /\ loaded = Nothing
  /\ etcLabel = "nothing"
  /\ stage = "osmosis"
  /\ cut = FALSE
  /\ faults = 0

Proceed(place) == stage' = place /\ UNCHANGED faults

-------------------------------------------------------------------------------
(* The root and the boot partition *)

\* Mutant: a file that is there is not restored.
OsmosisKeeps ==
  /\ stage = "osmosis"
  /\ settings' = IF args.kept \/ settings # NoFile THEN settings ELSE image.file
  /\ etcLabel' = IF args.kept THEN etcLabel ELSE "nothing"
  /\ Proceed("rsync")
  /\ UNCHANGED <<args, boot, memory, cut>>

\* Osmosis makes the root the image, but for the directories to be ignored.
Osmosis ==
  /\ stage = "osmosis"
  /\ settings' = IF args.kept THEN settings ELSE image.file
  /\ etcLabel' = IF args.kept THEN etcLabel ELSE "nothing"
  /\ Proceed("rsync")
  /\ UNCHANGED <<args, boot, memory, cut>>

\* rsync --delete-before: the boot partition has the image's configuration, of
\* the kernel of the image with no settings of this station.
Rsync ==
  /\ stage = "rsync"
  /\ boot' = [p \in Paths |-> IF p = image.tools THEN Config(<<"shipped">>) ELSE Nothing]
  /\ Proceed("extra")
  /\ UNCHANGED <<args, settings, etcLabel, memory, cut>>

-------------------------------------------------------------------------------
(* The settings of GRUB *)

IsConsole(word) == word \in {"console=tty1", "console=ttyS0"}

\* words that are not consoles, in their order
WithoutConsole(words) ==
  LET kept[i \in 0 .. Len(words)] ==
        IF i = 0 THEN <<>>
        ELSE IF IsConsole(words[i]) THEN kept[i - 1]
        ELSE Append(kept[i - 1], words[i])
  IN  kept[Len(words)]

\* Mutant: the console of before is not removed.
ConsoleAdded(words) ==
  IF args.extra = "silent" THEN WithoutConsole(words)
  ELSE words \o <<"console=ttyS0">> \o Tail(args.consoles)

\* The consoles are one parameter: "console=" goes with the first of them only.
ConsoleChanged(words) ==
  WithoutConsole(words) \o
    (IF args.extra = "silent" THEN <<>> ELSE <<"console=ttyS0">> \o Tail(args.consoles))

Changed(place, words) ==
  IF place = "extra" THEN <<args.extra>> \o words ELSE ConsoleChanged(words)

Asked(place) ==
  IF place = "extra" THEN args.extra # "none"
  ELSE args.extra = "silent" \/ args.consoles # <<>>

After(place) == IF place = "extra" THEN "console" ELSE "install"
Write(place) == IF place = "extra" THEN "extraWrite" ELSE "consoleWrite"

\* Mutant: the file is opened for writing before it is read.
OpenSettingsBeforeRead(place) ==
  /\ stage = place
  /\ IF ~Asked(place) \/ settings.kind = "special"
       THEN Proceed(After(place)) /\ UNCHANGED <<settings, existing>>
       ELSE settings' = NoLine /\ existing' = NoLine /\ Proceed(Write(place))
  /\ UNCHANGED <<args, boot, etcLabel, image, grubConfig, loaded, cut>>

\* changeGrubConfiguration reads the file and opens it for writing: it is empty
\* from then on. Something that is not a file is left alone.
OpenSettings(place) ==
  /\ stage = place
  /\ IF ~Asked(place) \/ settings.kind = "special"
       THEN Proceed(After(place)) /\ UNCHANGED <<settings, existing>>
       ELSE /\ existing' = IF settings.kind = "file" THEN settings ELSE NoLine
            /\ settings' = NoLine
            /\ Proceed(Write(place))
  /\ UNCHANGED <<args, boot, etcLabel, image, grubConfig, loaded, cut>>

\* All lines are written back, the one to be changed with the change. Without it
\* a comment is written too, and then the name of what was to be the line is not
\* defined: the inauguration ends.
WriteSettings(place) ==
  /\ stage = Write(place)
  /\ IF existing.line
       THEN /\ settings' = [existing EXCEPT !.words = Changed(place, @)]
            /\ Proceed(After(place))
       ELSE settings' = existing /\ Proceed("noLine")
  /\ UNCHANGED <<args, boot, etcLabel, memory, cut>>

-------------------------------------------------------------------------------
(* GRUB and kexec *)

Words == IF settings.kind = "file" THEN settings.words ELSE <<>>

\* The command line grub-mkconfig gives the default entry, but for its root
Entry == Words \o (IF settings.kind = "file" THEN settings.default ELSE <<>>)

\* Mutant: the path of the other tools is returned.
InstallElsewhere ==
  /\ stage = "install"
  /\ boot' = [boot EXCEPT ![image.tools] = Config(Entry)]
  /\ grubConfig' = boot[image.tools]
  /\ Proceed("etc")
  /\ UNCHANGED <<args, settings, etcLabel, image, existing, loaded, cut>>

\* grub2-install and grub2-mkconfig, or else those without the 2; the path that
\* was written is read.
Install ==
  /\ stage = "install"
  /\ boot' = [boot EXCEPT ![image.tools] = Config(Entry)]
  /\ grubConfig' = boot'[image.tools]
  /\ Proceed("etc")
  /\ UNCHANGED <<args, settings, etcLabel, image, existing, loaded, cut>>

\* The label file and fstab, which does not depend on anything but EFI
ConfigureETC ==
  /\ stage = "etc"
  /\ etcLabel' = image.label
  /\ Proceed("kexec")
  /\ UNCHANGED <<args, settings, boot, memory, cut>>

\* The default entry of the configuration, but for its root, and what is passed
\* through to this one boot
LoadKernel ==
  /\ stage = "kexec"
  /\ loaded' = [grubConfig EXCEPT !.words = @ \o args.passthrough]
  /\ Proceed("done")
  /\ UNCHANGED <<args, disk, image, existing, grubConfig, cut>>

-------------------------------------------------------------------------------

Over == stage \in {"done", "noLine", "raised"}

\* Any command may fail, and the station may be reset: what was about to be
\* written is lost, and a failing grub2-mkconfig leaves nothing to be read.
Interrupted ==
  /\ ~Over /\ faults < MaxFaults
  /\ faults' = faults + 1
  /\ stage' = "raised"
  /\ cut' = (cut \/ stage \in {"extraWrite", "consoleWrite"})
  /\ boot' \in {boot} \cup {b \in {[boot EXCEPT ![image.tools] = Nothing]} : stage = "install"}
  /\ UNCHANGED <<args, settings, etcLabel, memory>>

\* The next inauguration, with the memory of a new program
Again ==
  /\ Over
  /\ Len(Words) < MaxWords
  /\ image' \in Images
  /\ existing' = NoLine /\ grubConfig' = Nothing /\ loaded' = Nothing
  /\ Proceed("osmosis")
  /\ UNCHANGED <<args, disk, cut>>

ChangeSettings == \E place \in {"extra", "console"} : OpenSettings(place) \/ WriteSettings(place)

Step == Osmosis \/ Rsync \/ ChangeSettings \/ Install \/ ConfigureETC \/ LoadKernel

Stopped == Over /\ Len(Words) >= MaxWords /\ UNCHANGED bootVars

BootNext == Step \/ Interrupted \/ Again \/ Stopped

BootSafety == BootInit /\ [][BootNext]_bootVars

\* The program runs on, and the station is inaugurated again.
BootSpec == BootSafety /\ WF_bootVars(Step) /\ WF_bootVars(Again)
-------------------------------------------------------------------------------
(* Properties *)

InWords(word, words) == \E i \in 1 .. Len(words) : words[i] = word
AtMostOnce(word, words) ==
  \A i, j \in 1 .. Len(words) : words[i] = word /\ words[j] = word => i = j
OneConsole(words) ==
  /\ InWords("console=ttyS0", words)
  /\ \A i, j \in 1 .. Len(words) : IsConsole(words[i]) /\ IsConsole(words[j]) => i = j
NoConsole(words) == \A i \in 1 .. Len(words) : ~IsConsole(words[i])

\* However often the station was inaugurated, GRUB_CMDLINE_LINUX is as it was
\* asked for: the only console in it is the one of this station, or none if it is
\* to be silent, and what osmosis restores each time is extended once. (Where /etc
\* is kept each inauguration adds its data, and its second console, once more.)
\* What is loaded begins with that line; a console of the default line is not
\* changed and comes after it, and so does what is passed through.
SettingsAsAsked ==
  stage = "done" /\ settings.kind = "file" =>
    /\ loaded.words = settings.words \o settings.default \o args.passthrough
    /\ args.extra = "silent" => NoConsole(settings.words)
    /\ args.extra # "silent" /\ args.consoles # <<>> => OneConsole(settings.words)
    /\ args.extra # "none" => InWords(args.extra, settings.words)
    /\ ~args.kept =>
         /\ settings.default = image.file.default
         /\ \A word \in {"quiet", "tty0", args.extra} : AtMostOnce(word, settings.words)

\* What is left by kexec is what the next boot from the disk would start, followed
\* by nothing but the parameters passed through, which are for this one boot: the
\* kernel and settings of the label that was inaugurated, which is the one the
\* root says it is; nothing of an earlier label or attempt.
SameAsNextBoot ==
  stage = "done" =>
    LET next == boot[image.tools]
    IN  /\ loaded = [next EXCEPT !.words = @ \o args.passthrough]
        /\ next = Config(Entry)
        /\ \A p \in Paths : boot[p].label \in {image.label, "nothing"}
        /\ etcLabel = image.label

\* An inauguration ends for want of the line only if the label has none or,
\* where /etc is kept, there was none or it was lost when the file was being
\* written: then no inauguration of this station succeeds any more.
LineLostOnlyByInterruption ==
  stage = "noLine" =>
    IF args.kept THEN cut \/ ~HasLine(args.before) ELSE ~HasLine(image.file)

\* While the labels have the line and /etc is not kept, the station is
\* inaugurated again and again, wherever commands failed or it was reset.
InaugurationsSucceed ==
  ~args.kept /\ []HasLine(image.file) => []<>(stage = "done")
===============================================================================
