-------------------------------- MODULE Inputs --------------------------------
(***************************************************************************)
(* What comes from outside: requests with images, which module BatchWire   *)
(* models, the lines of the stdio listener, which bring such requests one  *)
(* by one, module LineReader, and the serialized models that the runtime   *)
(* is given to load, module GraphScan.                                     *)
(***************************************************************************)
EXTENDS BatchWire

CONSTANTS
    Streams,  \* what may come on the standard input
    LF, CR,   \* line feed and carriage return
    MaxLine   \* WireLimits.mcp

CONSTANTS  \* of GraphScan
    Models, MaxModelBytes, MaxFields, MaxDepth, MaxText, VarintBytes, TagLimit, PositionLimit

VARIABLES stream, consumed, output, tooLarge, observed, lines, ended  \* of LineReader
VARIABLES encoded, frames, position, fields, verdict                  \* of GraphScan

Reader == INSTANCE LineReader

Scan == INSTANCE GraphScan WITH bytes <- encoded

ASSUME ReaderAssumption == Reader!ReaderInputs
ASSUME ScanAssumption == Scan!ScanInputs

\* However the input is cut into reads, the listener sees each line of it once, in
\* order, whole or as one that is too large, and never holds more than the limit.
LinesAreExact == Reader!LinesAreExact

\* The preflight accepts exactly the models that are messages of the schema within
\* its limits.
ScanIsExact == Scan!ScanIsExact
==============================================================================
