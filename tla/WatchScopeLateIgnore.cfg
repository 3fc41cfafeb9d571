SPECIFICATION Spec
CONSTANTS
  Package <- MCPackage
  Projects <- MCProjects
  Files <- MCFiles
INVARIANTS
  IgnoredOnceItAppears
