CONSTANTS
    Caller = {c1, c2}
    MaxEvents = 3
SPECIFICATION FairSpec
INVARIANTS EventsInOrder FlushPromise
PROPERTIES OneWriteAtATime Refinement Drains
