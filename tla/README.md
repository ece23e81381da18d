# A TLA+ model of Lhasa

Lhasa is a library (`lib/`) that reads LHA archives and a command line tool
(`src/`) on top of it. It is sequential C: there are no threads, and nothing is
kept from one run to the next. What is hard about it is elsewhere. State is
carried between calls that a client may make in any order. Data arrive in
portions whose sizes nobody controls. Lengths come from the input. And an
extraction leaves promises behind (metadata of directories, links held back)
that later calls must keep. That is what these modules describe.

`PROJECT.json` lists the components, the runs, the mutants, the correspondence
between definitions and source lines, the findings, the hazards and the
theorems. This file says how they hang together.

## The system and its parts

| Part | State | Operations | Interacts with |
|---|---|---|---|
| Reader (`lha_reader.c`) | current file and its type, directory stack, deferred links, inner and outer decoder, policy | `next_file`, `read`, `check`, `extract`, `set_dir_policy`, `free` | basic reader, decoders, file system, client |
| Basic reader (`lha_basic_reader.c`) | current header, bytes of its data left, end flag | `next_file`, `read_compressed`, `decode` | input stream, file header, decoder |
| Input stream (`lha_input_stream.c`) | state, lead-in buffer | `read` (with the search for a header behind a self-extractor), `skip`, `free` | the source of the bytes |
| File header (`lha_file_header.c`, `ext_header.c`) | raw data, fields, position in the chain of extended headers | `lha_file_header_read` and the decoders of each level and header type | input stream |
| Decoder (`lha_decoder.c`) | output buffer, position, CRC, progress | `read`, `monitor` | an algorithm, the client's callback |
| MacBinary (`macbinary.c`) | header bytes held back, bytes of the fork left | probe, `read` | two decoders, one inside the other |
| Algorithms (`lh_new`, `lh1`, `pm1`, `pm2`, `lz5`, `lzs`) | ring of recent output, trees, history list | one `read` per block or command | bit stream, tree decoding |
| Tree decoding (`tree_decode.c`) | array of a Huffman tree | `build_tree`, `set_tree_single`, `read_from_tree` | bit stream |
| Bit stream (`bit_stream_reader.c`) | 32-bit buffer | `peek_bits`, `read_bits`, `read_bit` | callback of the decoder |
| Commands (`main.c`, `extract.c`, `filter.c`, `list.c`) | options, overwrite policy, result | list, test, print, extract, dry run | reader, file system, user |

## Modules

The arrows are EXTENDS, or INSTANCE where it says so.

    Arch, BasicReader  <-  Reader, Options  <-  Extract  <-  MCExtract
                             |  \
                             |   MCReader
                             |   ReaderInvariants  <-  ReaderStepProofs  <-  ReaderProofs
                             +-- INSTANCE ReaderIteration  (abstract)
    Decoder  <-  MacBinary, ProgressBar, Crc16  <-  MCMacBinary
                     |
                     +-- INSTANCE ByteSource               (abstract)
    MacBinary, ProgressBar  <-  DecoderProofs
    TreeDecode  <-  TreeReader -- INSTANCE BitStream
    CollapsePath  <-  PathFilter -- INSTANCE Glob
    PmaHistory  <-  AdaptiveCodes -- INSTANCE Lh1Tree
       |
       +-- INSTANCE MoveToFront                            (abstract)
    HistoryRing  <-  RingDecoder  <-  LhNew, Lh1Copy, Lz5, Lzs, Pm1, Pm2
    (abstract)
    LhNew, Lh1Copy, Lz5, Lzs, Pm1, Pm2  <-  CopyDecoders
    CopyDecoders, Pm1Trees  <-  MCCopyDecoders
    LhNew, Pm2  <-  HistoryRingProofs
    CopyDecoders, HistoryRingProofs  <-  CopyDecodersProofs
    TreeReader, PmaHistory  <-  CodeProofs
    InputStream, FileHeader  <-  HeaderProofs
    PathFilter  <-  PathProofs

**Arch** is the file system as `lha_arch_unix.c` uses it: a kind for every path
of a small tree, whether the metadata of a directory are owed, set, or set and
then disturbed, and which directories are read-only. A call that may fail has
an outcome chosen for it.

**BasicReader** and **Reader** are composed in one state. A header is its
position in the archive, so that `_next` is a function on headers and both
lists are chains through it, as in the code. The input may be cut off after any
header and in any part of the data, and may or may not notice a skip beyond its
end. `lha_reader_next_file` is one action, built from `close_decoder`,
`AdvanceInput`, `end_of_top_dir`, `PopDirectory` and `TakeDeferred` in the order
of the code. The client does one thing with each file, or (with `ExtractTwice`,
which the runs leave FALSE) extracts it again. The `used`, `skipped` and
`deferred` variables are history. **ReaderInvariants** has the definitions that
the proofs are built from.

**ReaderIteration** says what a client may rely on: every header once and in
order, each directory created and each link held back once more, links last and
longest path first. `Reader` implements it under the mapping `Iteration`.

**InputStream** has one step per call of the read callback, which may return
any number of bytes up to those asked for. A byte is its position in the source.
What is at a position (a header, the marker of a self-extractor, anything else)
is chosen at the start, and so is whether a read may fail (`faulty`).

**FileHeader** follows the decoding of a header by lengths. Every access to
`raw_data` is recorded in `touched` with the range it must stay in. The values
of lengths are chosen when they are first read and remembered in `lens`, so the
second loop over a level 1 header sees what the first one saw. Names are present
or absent. A checksum or CRC holds or does not. **CollapsePath** is
`collapse_path`, on real characters, since the property is about them. **Glob**
is `match_glob` and the loop over the filters, with the C stack as a sequence.
**PathFilter** composes the two as the program does: a path is collapsed when its
header is read, and the filters of the command line see the result.

**Decoder** is the buffering between an algorithm that makes blocks of any size
and a client that reads any number of bytes. `last_block` is unsigned and starts
at its maximum, as in the code. `lha_decoder_monitor` doubles the block size in a
word of `WIDTH` bits. Where no size in the word is enough the loop of the code
goes on for ever with 0, and so the model stays at `pc = "scaling"`.
**MacBinary** puts an outer decoder on an inner
one, or uses a decoder alone (`opened = "plain"`), as `open_decoder` chooses.
**ByteSource** is what both promise: bytes in order, short only at the end.
**ProgressBar** is the callback of `extract.c` and its line of dots. **Crc16** is
the table and the loop of `crc16.c`, whose assumption `CrcSound` compares them
with the definition of the CRC and with its known check value.

**TreeDecode** works on an array that is never cleared between trees.
**BitStream** is the 32-bit buffer with a smaller width. **TreeReader** composes
them: each bit of a walk is a `read_bit` of the stream. **Lh1Tree** is the
adaptive tree of -lh1-, with the loops of `increment_for_code` and
`reconstruct_tree` as steps. **PmaHistory** is the
linked ring of -pm1- and -pm2-, and **MoveToFront** the list it stands for.
**AdaptiveCodes** puts these two beside each other: the method of an entry decides
which of them runs.

**HistoryRing** is what the copying decoders have in common, though each has code
of its own for it: a ring of the last output, literals put into it and copies out
of it, one byte per step since a copy may overlap itself. Its specification
`RingSpec` allows any bytes and copies from any distance. The decoders say which
of these steps they take. **RingDecoder** has the variables and constants that
several of them share. **LhNew** reads blocks, tables and commands, for -lh5- (which
stands for -lh4- to -lh7- and -lhx-) and, with the codes of LHARK, for -lk7-; a
tree is the set of codes it can give, and since the array keeps older leaves this
is every code the table has room for. **Lh1Copy** has the offset table that
-lh1- computes at the start, **Lz5** and **Lzs** absolute positions, the first
contents of the ring and, for -lz5-, the second byte of a command that may never
have been read (any byte). **Pm1** has the start header, blocks of bytes and copies whose
ranges open one after the other as output grows, and **Pm1Trees** its fixed
trees. **Pm2** rebuilds its trees on a schedule, also in the middle of a copy,
and takes any length for a code that lies beyond its table. **CopyDecoders**
chooses one of them for the method of an entry, as `lha_decoder_for_name` does.

**Extract** adds the commands of the tool to `Reader`: the loop over the files
that match, the question about old files, the parent directories, the result.
**Options** parses the command argument letter by letter, as `main.c` does.

## Runs

| Run | Question | Bounds, and why they are enough |
|---|---|---|
| `reader_tree` | Do links, directories and their metadata come in the right order, under each policy, on any archive, with exact lists and reference counts? | 3 entries of 9, over two nested directories: two links of different length and a directory that holds one |
| `reader_stream` | Does the reader stay aligned, release everything and end when files are read in part, damaged, of unknown method or MacBinary, when calls fail and when the policy changes at any time? | 3 entries of 7, data of up to 2 units, cut anywhere |
| `input_stream` | Do the header found and the bytes delivered depend on the sizes of the reads, or on failures? | sources of up to 6 bytes, buffer of 4, signatures of 2: a signature can lie across any two reads and the limit falls inside the source |
| `file_header` | Does decoding stay in the bytes read, do the lengths add up, and has a header that is returned the names its users need? | real lengths of headers and fields; each input length at, below and above every limit; every method, system and relevant header type |
| `paths_and_filters` | Is the result the normalised path, and does backtracking find exactly the matches on it? | every path of up to 8 characters; on those of up to 4, every list of up to two filters with 3 characters between them |
| `trees_and_bits` | Do building and walking stay in the array and decode the canonical code, and are bits lost at the borders of portions? | 3 codes of up to 3 bits, any sequence of trees in one array of 6; inputs of 3 bytes of 2 bits, a buffer of two bytes |
| `decoder` | Are bytes, CRC and progress right for all block and read sizes, is the right fork delivered, and the rest decoded? | contents of up to 8 bytes, MacBinary header of 2, monitor set at any time, a bar shorter than the number of blocks; three longer lengths in the header, on both sides of the limit of `lha_decoder_monitor` in a word of 4 bits; the table of the CRC is the real one |
| `extract` | Are old files, parents, directories and the result right, and does every command end? | 3 entries of 7 over a tree of three levels with old files in it, any set of files matched, failing calls; eleven commands with every mode, dry runs, a quiet level, no paths, a directory named like an option, an empty one, and an option that does not exist |
| `copying_decoders` | For any commands of any method: do buffers and tables hold, does a copy repeat the output, are the trees of -pm2- rebuilt on schedule, and do the codes reach all there is to copy, each byte in one way? | two bytes; rings of 4 to 9 (256 for -pm1-) that copies wrap around, copies as long as the buffer; -pm2- with a KiB of 1, so that every stage of the schedule comes within a copy; -pm1- with its own tables and all thresholds divided by 64. The tables of -lh1- and -pm1- are also evaluated unscaled (`CodeTables`) |
| `adaptive_codes` | Is the tree of -lh1- one Huffman tree with exact groups after any codes, and the ring of -pm1- a move-to-front list? | 4 codes and a limit that is reached again and again; 8 characters, one for each 32 of the code; all histories |

`CHECK_DEADLOCK FALSE` stands where the program may stop: after the reader or
the stream is freed, at the end of a compressed input, and when a function that
is modelled alone has returned.

Every property of these runs is paired with a mutant of a definition it depends
on: a dropped check, an off-by-one, a missing reset or a changed order.

### Fairness

The program never waits for another one. A function that has been called takes
its next step: weak fairness on the steps inside `lha_input_stream_read`,
`peek_bits`, `build_tree` and `read_from_tree`. For
`ReachesEnd` the client goes on asking for the next file, as every loop in
`extract.c` does. For `CommandEnds` the user answers the prompt sooner or later
with something that is understood, and a file that is printed has an end. So
`CommandEnds` says nothing of these two loops themselves, only that nothing else
keeps a command from ending.

### Disagreements

These runs show where the code and its own comments disagree. Each checks one
property, and TLC finds it violated.

| Run | What it shows |
|---|---|
| `deferred_link_in_read_only_dir` | Directories get their metadata before the deferred links are made, so a link in a directory that becomes read-only stays a placeholder. |
| `skip_at_end_of_source` | Without a skip function, a source that ends during a skip is read for ever. |

`MetadataLast` and `PlaceholdersPending` leave out exactly the first case.

A third limit is part of a property. `lha_decoder_monitor` never returns for a
stream of more than some 2^48 bytes, a length that a 64-bit size header
(`ext_header.c`) can give: 2^31 is the largest block size of 32 bits, the next
shift gives 0, and 0 stays below the quotient it is compared with.
`ProgressInOrder` says that it returns for all shorter ones.

## Proofs

The theorems hold for every value of the constants that the assumptions of the
modules allow. Those assumptions are the code's: sizes are natural numbers, a
tree array is no longer than its leaf bit, the signature is shorter than the
lead-in buffer, the first contents of a ring fill it, a table has a field wide
enough to give its length. Three kinds are less obvious. The paths of the file
system are closed under taking the parent (`ArchAssumption`). Powers of two are
numbers and double with each bit (`PowersAssumption` of TreeReader, part of
`DecoderAssumption` elsewhere): TLC evaluates this up to the bound, the provers know
nothing of exponentiation. And the progress blocks of a stream can be counted
(`BlocksAssumption`: the code compares with 128 * 1024 of them and has 32 bits),
and their size is a power of two (`PowerAssumption`), as the `block_size` of every
decoder type is.

**CodeProofs**, trees. `TreeSound`, which the run checks too, is the type
invariant with `PointersForward`, `QueueInTree`, `WalkInBounds` and
`RootAllocated`. Pointers stay good only because a queued slot lies before the
slots it is pointed at, which is what the queue invariant gives. A walk stays in
the array because pointers are good.

**CodeProofs**, bits. `WordInv` says that the buffer holds, at its top, the bits
between those taken and those of the bytes the callback has given, as a number
(`Value`); `CallInv` relates the last request and what it returned to the
position it was made at. What a portion of bytes, a shift and a subtraction do
to a `Value` are lemmas, by induction over a set of lengths. `BitsInOrder`
follows for every cut of the input into portions.

**CodeProofs**, history list. The ring is set up with agreeing links, and the
update keeps them, also where the moved character is next to the head. For the
refinement `MovesToFront` the invariant also says that following the links from
the head comes round only after all characters (`HistoryInv`); the update then
takes one of them out of the sequence and puts it in front.

**ReaderStepProofs** and **ReaderProofs**. The archive, the tree of paths, the
policy, the failures and the order of the calls are arbitrary.

* `LinkInv` adds to the types that nothing is left in the input and on the stack
  once deferred links are given (`NothingElseLeft`). With it `DangerousLinksLast`
  is inductive. `DecoderInv` and `AlignInv` relate the decoders and the stream
  position to the type of the current file in the same way.
* `ListInv` says that the stack and the deferred links are two lists through the
  one `_next` field, without a header in common, the second in order of length,
  and that only what is behind in the input is on them. That the links lead
  through all members of a list and to its end is shown by induction on a set of
  numbers. With `RefInv` (a header has as many references as there are places
  that hold it) this gives `WellFormed`.
* From `ListInv` each call has one of five effects on the lists as sets
  (`StepEffect`). Everything else is proved from the effects alone: the
  refinement `Iterates`; `LinkNotThroughLink`, with the links made being at least
  as long as those to come (`LongestInv`); `EveryDirGetsMetadata`, with a
  directory that is owed its metadata being on the stack (`OwedInv`) in a file
  system that stays a tree (`TreeInv`); `PlaceholdersPending` and `MetadataLast`,
  with `PendingInv` and `MetadataInv`.
* The theorems of ReaderProofs assume `~ExtractTwice`. A header that is
  extracted twice is put on a list twice, and then there are no lists. The
  documentation says nothing of such a client, and no command of the tool is one.
  `DangerousLinksComeLast` and `StreamStaysAligned` do not need it.

**HeaderProofs**, input stream. `OrderInv` says where each byte is, while searching
(`SearchInv`) and after (`BufferInv`); delivery in order follows.
`FirstHeaderFound` needs `ScanInv` on top: what has been scanned holds no header
that counts, and `skip_files` is what one scan of the whole source up to there
would give.

**HeaderProofs**, headers. `Chain` says how the length fields of a level 1
header lead to each other and to the end of what was read; with `Stage` (how
much has been read when) it makes `InBounds`, `WalksWhatWasRead` and
`LengthsExact` inductive. `Usable` needs only that no link target is there before
a header is returned (`TargetInv`).

**PathProofs**.

* `AtStart` says that `currpath` is at the start of a component and that no
  separator has been copied since. Then a finished component is the one just
  examined, which gives `Clean`.
* `NormalInv` adds what is in the buffer: the components that are kept of what has
  been read, joined (`Progress`), and behind them a copy of the component being
  read (`Reading`). While `collapse_path` walks back over a component, the text
  without it is still to be reached, and ends where the walk ends. So what comes
  out is `Normal`, the path that entering the components one by one leads to.
* `MatchInv` says that the whole glob fits exactly when the innermost call of
  `match_glob` will say so, or a call below it once its star takes one more
  character (`Later`); each of these calls is at a star (`AtStars`), and once one
  of them succeeds all of them do. With the filters that were tried before being
  ones that do not fit, this gives `MatchesFits`. That a glob fits is a cut of the
  string into pieces, so a star is handled by taking a piece off the cut or putting
  one on, and no induction is needed.

**HistoryRingProofs** and **CopyDecodersProofs**.

* `RingInv` adds to `CopyRepeats` that the place a copy reads from next is its
  distance behind the place written next (`CopyAligned`). Without it nothing is
  known of the byte that a turn copies. Then `CopyRepeats` is inductive for every
  ring size, also where the ring wraps and where the copy reads what it wrote
  itself.
* Every step of each of the six decoders is a step of `RingSpec` or leaves its
  variables alone, and what they start with is a ring that it starts with; so it
  is a refinement, and `CopyRepeats` holds of all of them. For this the codes in
  the trees must be numbers, and those of -lh5- and -lk7- in the range of their
  fields (`TreesType`), and the place that each decoder computes for a copy must
  be the same distance back: they add the size of the ring and subtract in
  different orders, -lz5- and -lzs- go by absolute positions.
* `RoomInv` gives `BuffersFit`. Most decoders fill their buffer with one command,
  so it is enough that no command is longer (`OneCommand`). -lz5- decodes a
  group of commands and -pm1- a block and a copy, and what is in the buffer is
  bounded by how far the call has come (`Lz5Room`, `Pm1Room`). The tables of
  -lh5- and -lk7- hold every code length that is set (`TableRoom`).
* `ScheduleInv` gives `RebuildsOnSchedule`: at each stage of -pm2- it says where
  in the output the next trees are due and how many offset codes there are, so
  that no offset of a stage goes back further than its output will.

**DecoderProofs**. The state of a decoder has the same bytes in several places:
delivered, collected for the current call, buffered, still in the algorithm.

* `MacInv` says that these are consecutive runs of bytes (`BytesInv`), how many
  have been taken from the inner decoder and how many of them were held back or
  stripped (`SourceInv`), and what a failed decoder has seen (`EndInv`). So a call that
  comes up short is at the end of the contents (`TotalInv`), which gives the
  refinement `DeliversAll`, `DeliversContents` and `DecodedToEnd`, with a MacBinary
  header or without.
* `ProgressInv` says that with a callback the blocks announced are those from 0
  to the one of the position, which is a division rounded up; `last_block`, which
  starts at the largest unsigned number, then wraps to 0 once and never again.
  `Scaled` shows that a loop that ends leaves a size that is not 0 and makes at
  most twice `MAX_BLOCKS` blocks, `ScalesUpTo` with `StuckInv` that it ends unless
  the blocks are too many even with the highest bit of the word as their size.
  For the bar, the signals are counted by a bijection between them and
  the dots of the line.

Model-checked only:

* Liveness (`ReadsReturn`, `Terminates`, `ReachesEnd`, `CommandEnds`), since fairness and ENABLED
  are beyond the prover.
* `DecodesCanonicalCode`: the canonical code is defined by recursion on lengths and
  the tree is built level by level, so that relating the two takes an induction
  over all the trees that can be in the array, which is not done. `CodesReach`
  counts the codes for each distance in tables of numbers, which TLC evaluates.
* `OneTree`, `HuffmanTree` and `GroupsExact`: that the adaptive tree of -lh1- is
  one tree means that every node is reached from the root, again an induction
  over data, and their invariants lean on each other in the middle of a
  reconstruction.
* `FilesConfirmed`, `ParentsThere`, `DirsFinished` and `Verdict`, since Extract
  parses its command with recursive operators (Options), with which the prover
  loses its arithmetic.

## What is not modelled

* Values that nothing depends on: times, ids, the text of names (except in
  CollapsePath and Glob), the case of MS-DOS names, columns of the listing,
  replacement of unprintable characters.
* The value of a CRC outside Crc16: in Decoder it is the sequence of bytes covered,
  in FileHeader it holds or does not.
* Failure of memory allocation.
* The wrap of `output_stream_pos` of -pm1-, an unsigned int: after 4 GiB of output
  the ranges of copies would start again from the narrow ones. In Pm1 it grows
  without end, so `CodesReach` is about the first 4 GiB.
* In -pm2-, the leaves of an older tree that stay in the array behind a tree of a
  single code: a walk ends at that code and does not come to them.
* How a bit stream spells the codes of -lh5-, -pm1- and -pm2-: a tree gives any of
  its codes, and TreeReader, composed of trees and bits alone, shows that it gives
  the right one. The history list of -pm1- and -pm2- is likewise checked on its own
  (AdaptiveCodes), and a byte found through it is any byte.
* The Windows file system, which is another implementation of `lha_arch.h`, and
  the decoding of integers by byte order (`lha_endian.c`), which has no state.
* Columns, ratios and dates of `list.c`, and `safe.c`: formatting. Only their loop
  over the files is in Extract.
* A client that does two things with one entry. The documentation of the library
  does not say what should happen, and there is nothing to check the code against.
