SPECIFICATION Spec
CONSTANTS
    Reqs = {react, text}
    Attachments = {}
    Reactions = {react}
    Votes = {}
    AttachmentAttempts = 2
    TextAttempts = 2
    MaxUpdates = 1
    MaxCommands = 1
    MaxFailures = 3
    None = None
PROPERTIES SkippedRoomHasParked
CHECK_DEADLOCK FALSE
