\* Four calls, made also after errors; gob with a server that goes on or stops
\* after errors, msgpack with one that stops; servers that stop also with a
\* pre-body interceptor that rejects requests.
CONSTANTS
  MaxCalls = 4
  Modes <- MCModes
SPECIFICATION Spec
INVARIANTS OwnAnswer
