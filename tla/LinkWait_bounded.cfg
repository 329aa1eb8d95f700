\* waitLinkUp with retry counts from -1 to 4 and a port that may flap.
CONSTANTS
    RetryCounts <- AnyRetries
SPECIFICATION Spec
INVARIANT WaitBounded
