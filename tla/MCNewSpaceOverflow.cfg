CONSTANTS
    Width <- MCWidth
    PageSizes <- MCPageSizes
    LargePages <- MCLargePages

SPECIFICATION Spec

INVARIANT NewSpaceCoversRequest
