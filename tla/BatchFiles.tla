----------------------------- MODULE BatchFiles -----------------------------
(***************************************************************************)
(* The names of a batch's files, from the upload to the download: the      *)
(* inputs persistInputs writes, the rows that are found by input name, the *)
(* outputs of each input, the links of the card and the entries of the     *)
(* archive.  One worker at a time, so no interleaving: that is JobFlow.    *)
(***************************************************************************)
EXTENDS FreshName, Sequences

CONSTANTS
    UploadNames,  \* the file names a browser may send
    MaxUploads,   \* bound: the most uploads in a batch
    MaxBusy,      \* bound: the most uploads in a batch that is retried, once, or
                  \* archived while it is converted
    Writings,     \* the sets of output names one run of fbc may leave
    Hidden,       \* output names that begin with a dot
    Unsafe,       \* stems with two dots in a row or a backslash in them
    DotBefore     \* stems with a dot right before that of the extension

ASSUME BatchAssumption == MaxUploads \in Nat /\ MaxBusy \in Nat

VARIABLES
    uploads,   \* the base names of the multipart files, in order
    inputs,    \* the names they are stored under
    todo,      \* the positions of the inputs the worker still has to convert
    rows,      \* status.json's files
    outDir,    \* what is under out/<input>, for each input name in use
    retried,   \* whether there has been a retry
    zip,       \* the last archive so far: each file and its entry name
    walk,      \* its walk: the directories and the files of one that are left
    \* ---- history ----
    promised   \* the outputs the rows listed when it was asked for

batch == <<uploads, inputs, todo, rows, outDir, retried>>
archive == <<zip, walk, promised>>
vars == <<batch, archive>>

OutNames == UNION Writings
Elems(s) == {s[k] : k \in DOMAIN s}
NoWalk == [dirs |-> {}, files |-> {}]

Init ==
    /\ \E n \in 1..MaxUploads : uploads \in [1..n -> UploadNames]
    /\ inputs = <<>> /\ todo = {} /\ rows = <<>>
    /\ retried = FALSE
    /\ zip = <<>> /\ walk = NoWalk /\ promised = {}
    /\ outDir = [x \in {} |-> {}]

\* persistInputs: os.Create replaces a file that has the name already.
Persist ==
    /\ Len(inputs) < Len(uploads)
    /\ inputs' = Append(inputs, Fresh(uploads[Len(inputs) + 1], Elems(inputs)))
    /\ UNCHANGED <<uploads, todo, rows, outDir, retried, archive>>

Stored == Len(inputs) = Len(uploads)

SeedRows ==
    /\ Stored /\ rows = <<>>
    /\ rows' = [k \in DOMAIN inputs |->
                  [input |-> inputs[k], state |-> "pending", outputs |-> {}]]
    /\ outDir' = [x \in Elems(inputs) |-> {}]
    /\ todo' = DOMAIN inputs
    /\ UNCHANGED <<uploads, inputs, retried, archive>>

\* updateFile: the first row with the input's name.
RowOf(name, k) == rows[k].input = name /\ \A l \in 1..(k - 1) : rows[l].input # name

\* Mutant: hidden files are listed like the others.
AllOutputs(held) == held
\* collectOutputs
Outputs(held) == held \ Hidden

\* The row processFiles makes of one conversion.
Settled(name, verdict, listed) == [input |-> name, state |-> verdict, outputs |-> listed]

\* processFiles takes its names in the order of the rows.
IsNext(i) == i \in todo /\ \A k \in todo : i <= k

\* ConvertLogged and updateFile, for the next name processFiles was given.  A
\* directory or a log that cannot be made is a failure that lists nothing.
Converted(i, k, wrote, verdict, ran) ==
    LET name == inputs[i]
        held == outDir[name] \cup wrote
        listed == IF ran THEN Outputs(held) ELSE {}
    IN  /\ IsNext(i) /\ todo' = todo \ {i}
        /\ RowOf(name, k)
        /\ verdict = "done" => listed # {}
        /\ wrote # {} => ran
        /\ outDir' = [outDir EXCEPT ![name] = held]
        /\ rows' = [rows EXCEPT ![k] = Settled(name, verdict, listed)]
        /\ UNCHANGED <<uploads, inputs, retried, archive>>

Convert ==
    \E i \in todo, k \in DOMAIN rows, wrote \in Writings \cup {{}},
       verdict \in {"done", "failed"}, ran \in BOOLEAN :
        Converted(i, k, wrote, verdict, ran)

Done == rows # <<>> /\ \A k \in DOMAIN rows : rows[k].state # "pending"

\* handleRetry: the failed rows, which keep the outputs they list, once more.
Retry ==
    /\ Done /\ ~retried /\ Len(uploads) <= MaxBusy
    /\ todo' = {k \in DOMAIN rows : rows[k].state = "failed"} /\ todo' # {}
    /\ rows' = [k \in DOMAIN rows |-> IF rows[k].state = "failed"
                                      THEN [rows[k] EXCEPT !.state = "pending"]
                                      ELSE rows[k]]
    /\ retried' = TRUE
    /\ UNCHANGED <<uploads, inputs, outDir, archive>>

\* safeName, for the names of inputs and outputs alike: "vol..fb2" has two dots in
\* a row, "vol.-1.fb2" has not.
Safe(name) == name.stem \notin Unsafe /\ (name.stem \in DotBefore => name.tag # 0)

\* Mutant: the archive refuses what the links refuse.
ZipsSafe(x, o) == o \in outDir[x] /\ o \notin Hidden /\ Safe(x)
\* WriteZip takes whatever is under out and not hidden, safe or not.
Zips(x, o) == o \in outDir[x] /\ o \notin Hidden

Listed == UNION {{<<rows[k].input, o>> : o \in rows[k].outputs} : k \in DOMAIN rows}

\* handleZip, whether the batch is done or not, and WriteZip's look at the
\* directories under out: those with files are there, an empty one may be.
ZipStart ==
    /\ walk = NoWalk /\ rows # <<>>
    /\ Done \/ Len(uploads) <= MaxBusy
    /\ \E empty \in SUBSET {x \in Elems(inputs) : outDir[x] = {}} :
         walk' = [dirs |-> {x \in Elems(inputs) : outDir[x] # {}} \cup empty, files |-> {}]
    /\ zip' = <<>> /\ promised' = Listed
    /\ UNCHANGED batch

\* The walk comes to a directory and lists it.
ZipEnter ==
    /\ walk.files = {}
    /\ \E x \in walk.dirs :
         walk' = [dirs |-> walk.dirs \ {x},
                  files |-> {<<x, o>> : o \in {p \in OutNames : Zips(x, p)}}]
    /\ UNCHANGED <<zip, promised, batch>>

\* The next file of the directory is copied, under a name of its own.
ZipNext ==
    /\ \E f \in walk.files :
         /\ zip' = Append(zip, [file |-> f,
                                entry |-> Fresh(f[2], {zip[k].entry : k \in DOMAIN zip})])
         /\ walk' = [walk EXCEPT !.files = @ \ {f}]
    /\ UNCHANGED <<promised, batch>>

Next == Persist \/ SeedRows \/ Convert \/ Retry \/ ZipStart \/ ZipEnter \/ ZipNext

Spec == Init /\ [][Next]_vars

\* handleDownload: the first row that lists the name.
Lists(k, file) ==
    /\ file \in rows[k].outputs
    /\ \A l \in 1..(k - 1) : file \notin rows[l].outputs

\* handleDownload, OutputFile and streamFile: what a link to this name is answered
\* with, if anything.
Served(file) ==
    {<<rows[k].input, file>> : k \in {l \in DOMAIN rows :
        Lists(l, file) /\ Safe(rows[l].input) /\ Safe(file) /\ file \in outDir[rows[l].input]}}

-----------------------------------------------------------------------------
\* No upload is stored over another of the same batch (convert_flow.go:147-152).
InputsDistinct ==
    \A k, l \in DOMAIN inputs : inputs[k] = inputs[l] => k = l

\* When the worker has been through its inputs no row is left pending
\* (convert_flow.go:150-152: rows that share an input hang the job).
BatchSettles == rows # <<>> /\ todo = {} => Done

\* No entry of the archive hides another, a suffixed name and a genuine one
\* included (zip_sweep.go:61-65).
ZipEntriesDistinct ==
    \A k, l \in DOMAIN zip : zip[k].entry = zip[l].entry => k = l

\* What is listed of a finished batch can be fetched: by its link, as long as no
\* other row lists the name and safeName accepts it; and whatever is listed when an
\* archive is asked for is in it, while conversions and retries go on and
\* whatever failed attempts left (convert_flow.go:363-399, zip_sweep.go:19-59).
EveryOutputReachable ==
    /\ Done => \A k \in DOMAIN rows : \A o \in rows[k].outputs :
         Safe(rows[k].input) /\ Safe(o) /\ (\A l \in DOMAIN rows \ {k} : o \notin rows[l].outputs)
           => Served(o) = {<<rows[k].input, o>>}
    /\ walk = NoWalk => promised \subseteq {zip[k].file : k \in DOMAIN zip}
=============================================================================
