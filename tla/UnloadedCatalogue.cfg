\* One thread is enough: the catalogue is asked for before it is loaded.
SPECIFICATION Spec
CONSTANTS
  Projects = {p1}
  Loaders = {l1}
  NoLoader = NoLoader
  MaxFaults = 1
PROPERTY NotLoadedIsReported
