------------------------- MODULE CompressionEngine -------------------------
(***************************************************************************)
(* One call of compress() by the worker: the magic number picks sharp or    *)
(* ffmpeg, ffprobe reads the input, ffmpeg runs as a child process beside   *)
(* the event loop, and its error and close events settle the promise.  The  *)
(* consumer polls for a cancel and aborts the call's signal at any moment   *)
(* until the promise has settled.  Pixels, codecs and times are left out:   *)
(* a request says what is special about it, a file how it came about.       *)
(* Names are the engine's own (EngineInit, engineVars), so that a module can *)
(* EXTEND this one beside JobPipeline, which takes the call for one step.   *)
(***************************************************************************)
EXTENDS Naturals

CONSTANT Faults  \* how many failures of the system (spawn, stat, rm) there are

ASSUME FaultsAreCounted == Faults \in Nat

VARIABLES
    req,          \* the request and what its input is like
    compression,  \* where the call stands, what it will reject with, its answer
    signal,       \* the AbortSignal: aborted, and is ffmpeg's listener on it
    ffmpeg,       \* the child process and the stderr text nobody has read yet
    outputFile,   \* the file at outputPath
    told,         \* the last percentage given to onProgress
    worker,       \* "up" or "dead"
    failures      \* how many failures so far, and what has failed in them

engineVars == <<req, compression, signal, ffmpeg, outputFile, told, worker, failures>>

Requests ==
    {r \in [mime: {"image", "video", "other"},
            input: {"sound", "unprobed", "unencodable"},  \* what ffprobe, ffmpeg, sharp make of it
            target: {"known", "unknown"},                 \* overrides.targetFormat
            dims: {"fit", "wild"},                        \* overrides.maxWidth and maxHeight
            yields: {"whole", "cut", "short"},            \* ended by nothing, by -fs, by -t
            timed: BOOLEAN] :                             \* ffprobe knows the duration
        /\ r.mime # "video" => r.yields = "whole" /\ r.timed /\ r.input # "unprobed"
        /\ r.mime # "image" => r.dims = "fit"
        /\ r.mime = "other" => r.target = "known" /\ r.input = "sound"}

Answers == {"none", "done", "CANCELED", "ENGINE_INPUT_CORRUPT", "ENGINE_INTERNAL",
            "UNSUPPORTED", "VALIDATION_FAILED", "system"}

Steps == {"sniff", "stat", "probe", "sharp", "run", "remove", "measure", "removeCut",
          "statOutput", "over"}

\* rm and stat of the output, a third party that removed it, all the others.
Kinds == {"rm", "stat", "gone", "other"}

Files == {"none", "earlier", "part", "whole", "cut", "short"}

NoProcess == [state |-> "none", killed |-> FALSE, code |-> "none", tail |-> "other", text |-> "none"]

EngineTypeOK ==
    /\ req \in Requests
    /\ compression \in [pc: Steps, reason: Answers, answer: Answers]
    /\ signal \in [aborted: BOOLEAN, listening: BOOLEAN]
    /\ ffmpeg \in [state: {"none", "running", "unspawned", "errored", "exited"},
                   killed: BOOLEAN, code: {"none", "zero", "bad"},
                   tail: {"corrupt", "other"}, text: {"none", "half", "end"}]
    /\ outputFile \in Files
    /\ told \in {0, 50, 100}
    /\ worker \in {"up", "dead"}
    /\ failures \in [any: 0 .. Faults, of: SUBSET Kinds]

EngineInit ==
    /\ req \in Requests
    /\ compression = [pc |-> "sniff", reason |-> "none", answer |-> "none"]
    /\ signal = [aborted |-> FALSE, listening |-> FALSE]
    /\ ffmpeg = NoProcess
    /\ outputFile \in {"none", "earlier"}  \* a stalled job's first run may have left one
    /\ told = 0
    /\ worker = "up"
    /\ failures = [any |-> 0, of |-> {}]

AtStep(step) == compression.pc = step /\ worker = "up"
Go(step) == compression' = [compression EXCEPT !.pc = step]
SettleCall(answer) == compression' = [compression EXCEPT !.pc = "over", !.answer = answer]
RejectAfter(step, reason) == compression' = [compression EXCEPT !.pc = step, !.reason = reason]
Fault(kind) ==
    /\ failures.any < Faults
    /\ failures' = [any |-> failures.any + 1, of |-> failures.of \union {kind}]

-----------------------------------------------------------------------------
(* compress(): the magic number.                                           *)

Sniff ==
    /\ AtStep("sniff")
    /\ \/ req.mime # "other" /\ Go("stat") /\ UNCHANGED failures
       \/ req.mime = "other" /\ SettleCall("UNSUPPORTED") /\ UNCHANGED failures
       \/ Fault("other") /\ SettleCall("system")
    /\ UNCHANGED <<req, signal, ffmpeg, outputFile, told, worker>>

(* compressImage() after its stat: the checks, then sharp's pipeline.      *)
StatImage ==
    /\ AtStep("stat") /\ req.mime = "image"
    /\ \/ req.target = "unknown" /\ SettleCall("UNSUPPORTED") /\ UNCHANGED failures
       \/ req.target = "known" /\ req.dims = "wild" /\ SettleCall("VALIDATION_FAILED") /\ UNCHANGED failures
       \/ req.target = "known" /\ req.dims = "fit" /\ Go("sharp") /\ UNCHANGED failures
       \/ Fault("other") /\ SettleCall("system")
    /\ UNCHANGED <<req, signal, ffmpeg, outputFile, told, worker>>

SharpWrites ==
    /\ AtStep("sharp") /\ outputFile # "part"
    /\ outputFile' = "part"
    /\ UNCHANGED <<req, compression, signal, ffmpeg, told, worker, failures>>

(* toFile() settles.  Nothing on this path looks at the signal, and after   *)
(* an error the engine leaves whatever libvips has left.                   *)
SharpEnds ==
    /\ AtStep("sharp")
    /\ \/ /\ outputFile = "part" /\ req.input = "sound"
          /\ outputFile' = "whole" /\ SettleCall("done") /\ UNCHANGED failures
       \/ /\ req.input # "sound"
          /\ SettleCall("system") /\ UNCHANGED <<outputFile, failures>>
       \/ Fault("other") /\ SettleCall("system") /\ UNCHANGED outputFile
    /\ UNCHANGED <<req, signal, ffmpeg, told, worker>>

-----------------------------------------------------------------------------
(* compressVideo(): stat, the checks, then ffprobe as a child.             *)
StatVideo ==
    /\ AtStep("stat") /\ req.mime = "video"
    /\ \/ req.target = "unknown" /\ SettleCall("UNSUPPORTED") /\ UNCHANGED failures
       \/ req.target = "known" /\ Go("probe") /\ UNCHANGED failures
       \/ Fault("other") /\ SettleCall("system")
    /\ UNCHANGED <<req, signal, ffmpeg, outputFile, told, worker>>

(* What buildFfmpegArgs() asks for: overwrite, and stop at the profile's    *)
(* file size and duration.                                                 *)
Args == [overwrite |-> TRUE, stops |-> {"cut", "short"}]

(* ffprobe fails, or tells what the arguments need and ffmpeg is spawned    *)
(* in the same turn of the event loop; a child that could not be spawned    *)
(* has its error event still to come.  The listener is added even to a      *)
(* signal that was aborted before, and never hears of it.                  *)
ProbeEnds ==
    /\ AtStep("probe")
    /\ \/ /\ req.input = "unprobed"
          /\ SettleCall("ENGINE_INPUT_CORRUPT")
          /\ UNCHANGED <<signal, ffmpeg, failures>>
       \/ /\ Fault("other")
          /\ SettleCall("ENGINE_INPUT_CORRUPT")
          /\ UNCHANGED <<signal, ffmpeg>>
       \/ /\ req.input # "unprobed"
          /\ Go("run")
          /\ signal' = [signal EXCEPT !.listening = TRUE]
          /\ \/ ffmpeg' = [ffmpeg EXCEPT !.state = "running"] /\ UNCHANGED failures
             \/ ffmpeg' = [ffmpeg EXCEPT !.state = "unspawned"] /\ Fault("other")
    /\ UNCHANGED <<req, outputFile, told, worker>>

-----------------------------------------------------------------------------
(* The child process.                                                      *)

FfmpegWrites ==
    /\ ffmpeg.state = "running" /\ outputFile # "part"
    /\ Args.overwrite \/ outputFile = "none"
    /\ outputFile' = "part"
    /\ UNCHANGED <<req, compression, signal, ffmpeg, told, worker, failures>>

FfmpegTells ==
    /\ ffmpeg.state = "running" /\ ffmpeg.text = "none"
    /\ ffmpeg' = [ffmpeg EXCEPT !.text = "half"]
    /\ UNCHANGED <<req, compression, signal, outputFile, told, worker, failures>>

(* It ends by itself, well or not, or because it was told to; its last      *)
(* words are progress=end in every case but a crash.                       *)
FfmpegEnds ==
    /\ ffmpeg.state = "running"
    /\ \/ /\ req.input = "sound" /\ outputFile = "part"
          /\ outputFile' = IF req.yields \in Args.stops THEN req.yields ELSE "whole"
          /\ ffmpeg' = [ffmpeg EXCEPT !.state = "exited", !.code = "zero", !.text = "end"]
          /\ UNCHANGED failures
       \/ /\ ffmpeg.killed
          /\ ffmpeg' = [ffmpeg EXCEPT !.state = "exited", !.code = "bad", !.text = "end"]
          /\ UNCHANGED <<outputFile, failures>>
       \/ /\ req.input = "unencodable"
          /\ \E t \in {"corrupt", "other"} :
                ffmpeg' = [ffmpeg EXCEPT !.state = "exited", !.code = "bad", !.tail = t, !.text = "end"]
          /\ UNCHANGED <<outputFile, failures>>
       \/ /\ Fault("other")
          /\ ffmpeg' = [ffmpeg EXCEPT !.state = "exited", !.code = "bad"]
          /\ UNCHANGED outputFile
    /\ UNCHANGED <<req, compression, signal, told, worker>>

-----------------------------------------------------------------------------
(* The listeners of runFfmpeg().                                           *)

(* parseProgressChunk(): null without a duration, except at the end.       *)
Percent(text) == IF text = "end" THEN 100 ELSE IF req.timed THEN 50 ELSE told

OnData ==
    /\ worker = "up" /\ ffmpeg.text # "none"
    /\ told' = Percent(ffmpeg.text)
    /\ ffmpeg' = [ffmpeg EXCEPT !.text = "none"]
    /\ UNCHANGED <<req, compression, signal, outputFile, worker, failures>>

(* The consumer's interval saw the cancel key.                             *)
Abort ==
    /\ worker = "up" /\ compression.pc # "over" /\ ~signal.aborted
    /\ signal' = [signal EXCEPT !.aborted = TRUE]
    /\ ffmpeg' = [ffmpeg EXCEPT !.killed = @ \/ (signal.listening /\ ffmpeg.state = "running")]
    /\ UNCHANGED <<req, compression, outputFile, told, worker, failures>>

OnError ==
    /\ AtStep("run") /\ ffmpeg.state = "unspawned"
    /\ signal' = [signal EXCEPT !.listening = FALSE]
    /\ ffmpeg' = [ffmpeg EXCEPT !.state = "errored"]
    /\ SettleCall("system")
    /\ UNCHANGED <<req, outputFile, told, worker, failures>>

(* close follows an error too, with a code that is not zero: the file goes, *)
(* the second rejection is ignored.                                        *)
OnCloseAfterError ==
    /\ worker = "up" /\ ffmpeg.state = "errored"
    /\ ffmpeg' = [ffmpeg EXCEPT !.state = "exited"]
    /\ \/ outputFile' = "none" /\ UNCHANGED <<worker, failures>>
       \/ Fault("rm") /\ worker' = "dead" /\ UNCHANGED outputFile
    /\ UNCHANGED <<req, compression, signal, told>>

(* close comes when the process has ended and its output has been read;     *)
(* mutant: exit, which may come before the last output.                    *)
ExitIsEnough == TRUE
AllRead == ffmpeg.text = "none"

(* What the close handler does first, and what it rejects with.            *)
(* Mutants: the exit code before the signal; no rejection for an abort.    *)
FailReason == IF ffmpeg.tail = "corrupt" THEN "ENGINE_INPUT_CORRUPT" ELSE "ENGINE_INTERNAL"
CodeFirst ==
    \/ ffmpeg.code = "bad" /\ RejectAfter("remove", FailReason)
    \/ ffmpeg.code = "zero" /\ signal.aborted /\ RejectAfter("remove", "CANCELED")
    \/ ffmpeg.code = "zero" /\ ~signal.aborted /\ Go("measure")
AbortForgotten ==
    \/ signal.aborted /\ UNCHANGED compression
    \/ ~signal.aborted /\ ffmpeg.code = "bad" /\ RejectAfter("remove", FailReason)
    \/ ~signal.aborted /\ ffmpeg.code = "zero" /\ Go("measure")
AfterClose ==
    \/ signal.aborted /\ RejectAfter("remove", "CANCELED")
    \/ ~signal.aborted /\ ffmpeg.code = "bad" /\ RejectAfter("remove", FailReason)
    \/ ~signal.aborted /\ ffmpeg.code = "zero" /\ Go("measure")

OnClose ==
    /\ AtStep("run") /\ ffmpeg.state = "exited" /\ AllRead
    /\ signal' = [signal EXCEPT !.listening = FALSE]
    /\ AfterClose
    /\ UNCHANGED <<req, ffmpeg, outputFile, told, worker, failures>>

(* rm, then the rejection.  An error of rm is nobody's: the handler is an   *)
(* event listener, so the rejection is unhandled and ends the process.     *)
Remove ==
    /\ AtStep("remove")
    /\ \/ outputFile' = "none" /\ SettleCall(compression.reason) /\ UNCHANGED <<worker, failures>>
       \/ Fault("rm") /\ worker' = "dead" /\ UNCHANGED <<outputFile, compression>>
    /\ UNCHANGED <<req, signal, ffmpeg, told>>

(* An output that has reached the file size limit was cut off by it;        *)
(* mutant: the exit code is all that counts.                               *)
NoCap(file) == FALSE
ReachesCap(file) == file = "cut"
Measure ==
    /\ AtStep("measure")
    /\ \/ ReachesCap(outputFile) /\ Go("removeCut") /\ UNCHANGED failures
       \/ ~ReachesCap(outputFile) /\ Go("statOutput") /\ UNCHANGED failures
       \/ Fault("stat") /\ Go("statOutput")
    /\ UNCHANGED <<req, signal, ffmpeg, outputFile, told, worker>>

(* This rm stands inside the try: its error counts as a failed stat.       *)
RemoveCut ==
    /\ AtStep("removeCut")
    /\ \/ outputFile' = "none" /\ SettleCall("ENGINE_INPUT_CORRUPT") /\ UNCHANGED failures
       \/ Fault("rm") /\ Go("statOutput") /\ UNCHANGED outputFile
    /\ UNCHANGED <<req, signal, ffmpeg, told, worker>>

StatOutput ==
    /\ AtStep("statOutput")
    /\ \/ outputFile # "none" /\ SettleCall("done") /\ UNCHANGED failures
       \/ outputFile = "none" /\ SettleCall("system") /\ UNCHANGED failures
       \/ Fault("stat") /\ SettleCall("system")
    /\ UNCHANGED <<req, signal, ffmpeg, outputFile, told, worker>>

(* Somebody else removes a file that is not being written just then (an     *)
(* operator, the sweep of orphans).                                        *)
Vanish ==
    /\ Fault("gone") /\ outputFile \notin {"none", "part"}
    /\ outputFile' = "none"
    /\ UNCHANGED <<req, compression, signal, ffmpeg, told, worker>>

-----------------------------------------------------------------------------

EventLoop ==
    \/ Sniff \/ StatImage \/ StatVideo
    \/ OnData \/ OnError \/ OnCloseAfterError \/ OnClose
    \/ Remove \/ Measure \/ RemoveCut \/ StatOutput

EngineNext ==
    \/ EventLoop \/ Abort \/ Vanish
    \/ SharpWrites \/ SharpEnds \/ ProbeEnds
    \/ FfmpegWrites \/ FfmpegTells \/ FfmpegEnds

EngineSpec == EngineInit /\ [][EngineNext]_engineVars

(* The event loop runs, and ffmpeg ends on SIGTERM.  Nothing else is sure   *)
(* to end: neither ffprobe nor ffmpeg nor sharp has a timeout.             *)
EngineFairness == WF_engineVars(EventLoop) /\ WF_engineVars(ffmpeg.killed /\ FfmpegEnds)

EngineFairSpec == EngineSpec /\ EngineFairness

-----------------------------------------------------------------------------
(* Properties.                                                             *)

CallOver == compression.pc = "over"

\* The consumer's reading of a rejection.
Verdict(answer) ==
    IF answer \in {"ENGINE_INPUT_CORRUPT", "CANCELED"} THEN answer ELSE "ENGINE_INTERNAL"

\* A settled call has no child left: a worker's slot is free only when its
\* ffmpeg is gone (video-engine.ts settles on close and error only).
NoProcessOutlivesCall == CallOver => ffmpeg.state # "running"

\* An ffmpeg that was killed for a cancel is never taken for one that
\* failed on the input, nor for one that worked (video-engine.ts:122 comes
\* before the exit code at 127).
KillMeansCanceled == CallOver /\ ffmpeg.killed => Verdict(compression.answer) = "CANCELED"

EngineInv == EngineTypeOK /\ NoProcessOutlivesCall /\ KillMeansCanceled

\* The answer fits the file, whatever fails on the way.  Done: the output is
\* there and -fs did not cut it off (-t may have: a long film cut short
\* counts as done), except that somebody else may have removed it, and that
\* a cut one is kept if the rm at video-engine.ts:145 or the stat before it
\* failed.  Rejected, once ffmpeg has run and closed: no file is left, unless
\* the stat after the run failed or a failing rm took the worker with it.
OutputFitsAnswer ==
    CallOver =>
        /\ compression.answer = "done" =>
              \/ outputFile \in {"whole", "short"}
              \/ outputFile = "none" /\ "gone" \in failures.of
              \/ outputFile = "cut" /\ failures.of \cap {"rm", "stat"} # {}
        /\ compression.answer # "done" /\ ffmpeg.state = "exited" /\ worker = "up" =>
              \/ outputFile = "none"
              \/ compression.answer = "system" /\ "stat" \in failures.of

\* Once the call has settled it reports no progress and writes nothing: the
\* consumer has written its result down.  The file may still go away.
SettledIsFinal ==
    [][CallOver => UNCHANGED <<compression, told>> /\ outputFile' \in {outputFile, "none"}]_engineVars

\* An abort that ffmpeg's listener heard ends the call, unless the worker
\* dies on the way (consumer.ts, "aborts the underlying compress() if set").
\* One that came earlier, during stat or ffprobe, is not heard.
AbortsEnd == ffmpeg.killed ~> CallOver \/ worker = "dead"
=============================================================================
