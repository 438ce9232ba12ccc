CONSTANTS MaxChanges = 2 MaxInbox = 2
SPECIFICATION LiveSpec
PROPERTY NoticesHonoured
