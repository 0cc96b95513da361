\* Two application threads, and callbacks that call the server's methods from
\* the ioloop's thread; the pipe holds a byte for every command, as a pipe of
\* 65536 bytes does; reads fail.
CONSTANTS
  Callers = {a, b, io}
  IOThread = io
  Commands = {c1, c2, c3, c4}
  None = None
  PipeCapacity = 4
  MaxReadFailures = 2
SPECIFICATION Spec
INVARIANT NoLostWakeUp
PROPERTY ImplementsCommandQueue
