------------------------------ MODULE Transfers ------------------------------
(***************************************************************************)
(* Files on their way (utility.cpp): a folder is zipped, the archive is    *)
(* downloaded to a file, and the file is unzipped. Every step may fail,    *)
(* some of them without anybody being told; the server may close the       *)
(* connection early, the caller of ReadHttp may abort it, and call it      *)
(* again.                                                                  *)
(***************************************************************************)
EXTENDS Naturals

CONSTANTS
    Files,      \* files in the folder that is zipped
    Chunks,     \* reads in which the whole archive arrives
    Urls        \* URLs, as records of what ParseHostPortPath tells apart

ASSUME TransferAssumption == Chunks \in Nat \ {0}

VARIABLES
    archive,   \* the entries of the archive, with what has become of the files
    written,   \* whether the archive has been written to its file
    call,      \* what the caller is doing, or how that has ended
    told,      \* what the callback for progress was told last
    file,      \* the file downloaded to: how many chunks it has got
    target,    \* the files in the folder unzipped to, in the same way
    ignored    \* history: files with an error that nothing looked at

zipVars == <<archive, written, ignored>>
transferVars == <<archive, written, call, told, file, target, ignored>>

Fates == {"whole", "damaged"}

At(place) == call.at = place
Goto(place) == call' = [at |-> place, todo |-> {}]

TransfersInit ==
    /\ archive = <<>> /\ written = FALSE /\ target = <<>> /\ ignored = {}
    /\ call = [at |-> "begin", todo |-> {}] /\ told = "" /\ file = 0

(***************************************************************************)
(* Zip                                                                     *)
(***************************************************************************)
\* ZIP_EXCL: an archive is never written over. Folders have no entries.
ZipBegins ==
    /\ At("begin")
    /\ call' = [at |-> "zip", todo |-> Files]
    /\ UNCHANGED <<zipVars, told, file, target>>

\* The file is read into a buffer; nothing looks at whether that succeeded.
ZipAdds(f) ==
    /\ At("zip") /\ f \in call.todo
    /\ \E content \in Fates :
         /\ archive' = [g \in DOMAIN archive \cup {f} |-> IF g = f THEN content ELSE archive[g]]
         /\ ignored' = IF content = "whole" THEN ignored ELSE ignored \cup {f}
    /\ call' = [call EXCEPT !.todo = @ \ {f}]
    /\ UNCHANGED <<written, told, file, target>>

ZipEndsEarly ==   \* mutant: a file that cannot be opened is passed over
    /\ At("zip")
    /\ written' = TRUE
    /\ Goto("zipped")
    /\ UNCHANGED <<archive, ignored, told, file, target>>
\* A file cannot be opened or added: the archive is closed with the entries
\* it has got, and an exception tells of it.
ZipFails ==
    /\ At("zip") /\ call.todo # {}
    /\ written' \in BOOLEAN
    /\ Goto("failed")
    /\ UNCHANGED <<archive, ignored, told, file, target>>

\* zip_close writes the file. Zip returns whether it could, and the function
\* for scripts, which only reports exceptions, drops that.
ZipEnds ==
    /\ At("zip") /\ call.todo = {}
    /\ written' \in BOOLEAN
    /\ Goto("zipped")
    /\ UNCHANGED <<archive, ignored, told, file, target>>

(***************************************************************************)
(* ReadHttp and ReadHttps                                                  *)
(***************************************************************************)
\* The pattern takes two labels for the host and needs something after them:
\* of a URL with more labels, or without a path, it makes another host or
\* port, which is taken to serve nothing.
Parses(url) == url.labels > 1
ParseHostPortPath(url) ==
    [found |-> url.labels = 2 /\ url.path,
     port |-> IF url.port # "" THEN url.port ELSE IF url.https THEN "443" ELSE "80"]

\* A URL that is not parsed leaves the caller where it was.
ReadHttp(url) ==
    /\ call.at \in {"zipped", "exception", "returned"}
    /\ Parses(url)
    /\ LET to == ParseHostPortPath(url) IN
         \/ to.port # "443" /\ Goto(IF to.found THEN "connect" ELSE "nowhere")
         \/ to.port = "443" /\ Goto(IF to.found THEN "https" ELSE "nowhere")
    /\ told' = "CONNECTING"
    /\ UNCHANGED <<zipVars, file, target>>

\* Every step of the connection may fail.
DownloadFails ==
    /\ call.at \in {"nowhere", "connect", "connected", "requested", "read", "https"}
    /\ Goto("exception") /\ told' = "ERR"
    /\ UNCHANGED <<zipVars, file, target>>

\* The caller is asked before the request, after it, when the stream is open,
\* and for every chunk. Like a whole file, that returns an empty string.
Abort ==
    /\ call.at \in {"connected", "requested", "opened", "got"}
    /\ Goto("returned") /\ told' = "ABORTED"
    /\ UNCHANGED <<zipVars, file, target>>

Connect ==
    /\ At("connect")
    /\ Goto("connected")
    /\ UNCHANGED <<zipVars, told, file, target>>
SendRequest ==
    /\ At("connected")
    /\ Goto("requested") /\ told' = "SENDING_REQUEST"
    /\ UNCHANGED <<zipVars, file, target>>

\* Status 200, for which there has to be an archive, and the header are read;
\* the stream is opened, which truncates the file, and takes what came along
\* with the header.
Response ==
    /\ At("requested") /\ written
    /\ file' \in 0 .. Chunks
    /\ Goto("opened") /\ told' = "SENDING_REQUEST"
    /\ UNCHANGED <<zipVars, target>>
Download ==
    /\ call.at \in {"opened", "got"}
    /\ file' = IF At("got") THEN file + 1 ELSE file
    /\ Goto("read") /\ told' = "DOWNLOADING"
    /\ UNCHANGED <<zipVars, target>>
Read ==
    /\ At("read") /\ file < Chunks
    /\ Goto("got")
    /\ UNCHANGED <<zipVars, told, file, target>>
\* The end of the connection is the end of the download, however much has
\* come: nothing compares it with the length that the server stated.
DownloadEnds ==
    /\ At("read")
    /\ Goto("returned")
    /\ UNCHANGED <<zipVars, told, file, target>>

\* ReadHttps reads the whole response before it writes the file; a response
\* without a stated length may end early. The shutdown may fail after that.
ReadHttps ==
    /\ At("https") /\ written
    /\ file' \in 0 .. Chunks
    /\ \/ Goto("returned") /\ told' = "DOWNLOADING"
       \/ Goto("exception") /\ told' = "ERR"
    /\ UNCHANGED <<zipVars, target>>

(***************************************************************************)
(* Unzip, called if the download was not aborted                           *)
(***************************************************************************)
\* The directory of an archive is at its end: zip_open refuses a file that is
\* not complete.
Unzip ==
    /\ At("returned") /\ told # "ABORTED"
    /\ IF file = Chunks THEN call' = [at |-> "unzip", todo |-> DOMAIN archive]
                        ELSE Goto("failed")
    /\ UNCHANGED <<zipVars, told, file, target>>
\* Nothing looks at whether the file could be written to its end and closed.
UnzipExtracts(f) ==
    /\ At("unzip") /\ f \in call.todo
    /\ \E content \in {archive[f], "damaged"} :
         /\ target' = [g \in DOMAIN target \cup {f} |-> IF g = f THEN content ELSE target[g]]
         /\ ignored' = IF content = "whole" THEN ignored ELSE ignored \cup {f}
    /\ call' = [call EXCEPT !.todo = @ \ {f}]
    /\ UNCHANGED <<archive, written, told, file>>
\* zip_stat_index fails for an entry: it is passed over.
UnzipSkips(f) ==
    /\ At("unzip") /\ f \in call.todo
    /\ ignored' = ignored \cup {f}
    /\ call' = [call EXCEPT !.todo = @ \ {f}]
    /\ UNCHANGED <<archive, written, told, file, target>>
UnzipFails ==
    /\ At("unzip") /\ call.todo # {}
    /\ Goto("failed")
    /\ UNCHANGED <<zipVars, told, file, target>>
UnzipEnds ==
    /\ At("unzip") /\ call.todo = {}
    /\ Goto("unzipped")
    /\ UNCHANGED <<zipVars, told, file, target>>

TransfersNext ==
    \/ ZipBegins \/ (\E f \in Files : ZipAdds(f)) \/ ZipFails \/ ZipEnds
    \/ (\E url \in Urls : ReadHttp(url)) \/ Connect \/ SendRequest \/ Response
    \/ Download \/ Read \/ Abort \/ DownloadFails \/ DownloadEnds \/ ReadHttps
    \/ Unzip \/ (\E f \in Files : UnzipExtracts(f) \/ UnzipSkips(f))
    \/ UnzipFails \/ UnzipEnds

TransfersSpec == TransfersInit /\ [][TransfersNext]_transferVars

IsWhole(f) == f \in DOMAIN target /\ target[f] = "whole"

\* A file that is not as it was in a folder that was unzipped without an error
\* is one for which reading, writing or a look into the archive failed with
\* nobody looking: connections that end early, aborted downloads, files that
\* are written again after either, and all the errors that are looked at
\* never lead to an archive that is taken for a whole one
\* (utility.cpp:152-211, 274-309, 373-500).
LostOnlyIfIgnored == At("unzipped") => \A f \in Files : IsWhole(f) \/ f \in ignored

==============================================================================
